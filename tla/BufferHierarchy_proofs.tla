------------------------ MODULE BufferHierarchy_proofs ------------------------
(***************************************************************************)
(* Proofs about the accelerator.                                           *)
(* BufferHierarchy, for all sizes, numbers of channels and segments,       *)
(* transfers and durations: segments stay disjoint, loads stay apart, free *)
(* bytes and active transfers are counted right, a transfer is in one      *)
(* place, and a wait ends with nothing queued.                             *)
(* SystolicArray, for every size and dataflow: what a scan multiplies and  *)
(* sums, that tiles stay apart, and that a processing element uses each    *)
(* input once and puts out the nearest number.                             *)
(* DnnIsa, for every register file and program size: a valid program never *)
(* leaves itself, its runs are bounded, its encoding keeps it valid.       *)
(* The last theorem puts these parts together as MCBufferHierarchy does.   *)
(***************************************************************************)
EXTENDS MCBufferHierarchy, FiniteSetTheorems, SequenceTheorems,
        WellFoundedInduction, TLAPS

LevelInv == segments \in Seq(Segment) /\ SegmentsDisjoint

(* A load holds its segment, and no other load has the same one. *)
OwnersInv ==
  /\ dst \in [Transfers -> Nat]
  /\ \A t \in Transfers :
       dst[t] # 0 => dst[t] \in 1 .. Len(segments) /\ segments[dst[t]].held
  /\ \A t, u \in Transfers : dst[t] # 0 /\ dst[t] = dst[u] => t = u

EngineInv ==
  /\ channels \in [Channels -> [job : Transfers \cup {NoTransfer}, elapsed : Nat]]
  /\ queue \in Seq(Transfers)
  /\ ActiveAgrees
-----------------------------------------------------------------------------
LEMMA SegmentAt ==
  ASSUME segments \in Seq(Segment)
  PROVE  /\ Len(segments) \in Nat /\ DOMAIN segments = 1 .. Len(segments)
         /\ \A i \in 1 .. Len(segments) :
              /\ segments[i] \in Segment /\ segments[i].base \in Nat
              /\ segments[i].size \in Nat /\ segments[i].held \in BOOLEAN
<1>1. Len(segments) \in Nat /\ DOMAIN segments = 1 .. Len(segments)
      /\ \A i \in 1 .. Len(segments) : segments[i] \in Segment
  BY ElementOfSeq, LenProperties
<1> QED BY <1>1 DEF Segment

(* Handing out cuts one segment at its end. *)
LEMMA TakenLemma ==
  ASSUME segments \in Seq(Segment), NEW i \in 1 .. Len(segments), NEW n \in Nat
  PROVE  /\ Taken(i, n) \in Seq(Segment) /\ Len(Taken(i, n)) = Len(segments)
         /\ \A j \in 1 .. Len(segments) :
              /\ Taken(i, n)[j].base = segments[j].base
              /\ Taken(i, n)[j].size = IF j = i THEN n ELSE segments[j].size
              /\ Taken(i, n)[j].held = (j = i \/ segments[j].held)
<1> DEFINE cut == [segments[i] EXCEPT !.size = n, !.held = TRUE]
<1>1. cut \in Segment /\ cut.base = segments[i].base /\ cut.size = n /\ cut.held
  BY SegmentAt DEF Segment
<1>2. Taken(i, n) = [segments EXCEPT ![i] = cut]
  BY DEF Taken
<1> HIDE DEF cut
<1>3. /\ Taken(i, n) \in Seq(Segment) /\ Len(Taken(i, n)) = Len(segments)
      /\ \A j \in 1 .. Len(segments) : Taken(i, n)[j] = IF j = i THEN cut ELSE segments[j]
  BY <1>1, <1>2, ExceptSeq
<1> QED BY <1>1, <1>3, SegmentAt

LEMMA AllocKeeps ==
  ASSUME LevelInv, NEW n \in Nat, NEW i \in FirstFit(n), Alloc(i, n)
  PROVE  /\ LevelInv'
         /\ i \in 1 .. Len(segments) /\ ~ segments[i].held
         /\ Len(segments') >= Len(segments) /\ segments'[i].held
         /\ \A j \in 1 .. Len(segments) : segments[j].held => segments'[j].held
<1> DEFINE s == segments
           taken == Taken(i, n)
           rest == Rest(i, n)
<1>1. /\ s \in Seq(Segment) /\ Len(s) \in Nat /\ DOMAIN s = 1 .. Len(s)
      /\ \A j \in 1 .. Len(s) : s[j].base \in Nat /\ s[j].size \in Nat /\ s[j].held \in BOOLEAN
  BY SegmentAt DEF LevelInv
<1>2. i \in 1 .. Len(s) /\ ~ s[i].held /\ s[i].size >= n
  BY <1>1 DEF FirstFit, Fits
<1>3. /\ taken \in Seq(Segment) /\ Len(taken) = Len(s)
      /\ \A j \in 1 .. Len(s) : /\ taken[j].base = s[j].base
                                /\ taken[j].size = IF j = i THEN n ELSE s[j].size
                                /\ taken[j].held = (j = i \/ s[j].held)
  BY <1>1, <1>2, TakenLemma
<1>4. /\ rest \in Segment /\ rest.base = s[i].base + n /\ rest.size = s[i].size - n
  BY <1>1, <1>2 DEF Rest, Segment
<1>5. /\ \A j \in 1 .. Len(s) : s[j].base + s[j].size <= Total
      /\ \A j, k \in 1 .. Len(s) :
           j # k => \/ s[j].base + s[j].size <= s[k].base
                    \/ s[k].base + s[k].size <= s[j].base
  BY DEF LevelInv, SegmentsDisjoint, Apart, End
<1>6. segments' = (IF Splits(i, n) THEN Append(taken, rest) ELSE taken)
  BY DEF Alloc
<1>7. CASE ~ Splits(i, n)
  <2>1. segments' = taken
    BY <1>6, <1>7
  <2> HIDE DEF taken, rest, s
  <2>2. ASSUME NEW j \in 1 .. Len(s)
        PROVE  /\ taken[j].base = s[j].base /\ s[j].base \in Nat /\ s[j].size \in Nat
               /\ taken[j].size \in Nat /\ taken[j].size <= s[j].size
    <3>1. taken[j].base = s[j].base /\ taken[j].size = (IF j = i THEN n ELSE s[j].size)
      BY <1>3
    <3>2. s[j].base \in Nat /\ s[j].size \in Nat /\ n <= s[i].size
      BY <1>1, <1>2
    <3> QED BY <3>1, <3>2
  <2>3. ASSUME NEW j \in 1 .. Len(s) PROVE taken[j].base + taken[j].size <= Total
    <3>1. s[j].base + s[j].size <= Total
      BY <1>5
    <3> QED BY <2>2, <3>1, LevelAssumption
  <2>4. ASSUME NEW j \in 1 .. Len(s), NEW k \in 1 .. Len(s), j # k
        PROVE  \/ taken[j].base + taken[j].size <= taken[k].base
               \/ taken[k].base + taken[k].size <= taken[j].base
    <3>1. \/ s[j].base + s[j].size <= s[k].base
          \/ s[k].base + s[k].size <= s[j].base
      BY <1>5, <2>4
    <3>2. /\ taken[j].base = s[j].base /\ taken[k].base = s[k].base
          /\ s[j].base \in Nat /\ s[k].base \in Nat /\ s[j].size \in Nat /\ s[k].size \in Nat
          /\ taken[j].size \in Nat /\ taken[k].size \in Nat
          /\ taken[j].size <= s[j].size /\ taken[k].size <= s[k].size
      BY <2>2, Zenon
    <3>3. ASSUME NEW b \in Nat, NEW c \in Nat, NEW x \in Nat, NEW y \in Nat, NEW xs \in Nat, NEW ys \in Nat,
                 x <= xs, y <= ys, b + xs <= c \/ c + ys <= b
          PROVE  b + x <= c \/ c + y <= b
      BY <3>3
    <3> QED BY <3>1, <3>2, <3>3, Zenon
  <2>5. LevelInv'
    BY <2>1, <2>3, <2>4, <1>3 DEF LevelInv, SegmentsDisjoint, Apart, End
  <2>6. /\ Len(segments') = Len(s) /\ segments'[i].held
        /\ \A j \in 1 .. Len(s) : s[j].held => segments'[j].held
    BY <2>1, <1>2, <1>3
  <2> QED BY <2>5, <2>6, <1>1, <1>2 DEF s
<1>8. CASE Splits(i, n)
  <2> DEFINE t == Append(taken, rest)
  <2>1. segments' = t
    BY <1>6, <1>8
  <2> HIDE DEF taken, rest, s
  <2>2. /\ t \in Seq(Segment) /\ Len(t) = Len(s) + 1
        /\ \A j \in 1 .. Len(s) : t[j] = taken[j]
        /\ t[Len(s) + 1] = rest
    BY <1>3, <1>4, AppendProperties
  <2> HIDE DEF t
  <2>3. /\ \A j \in 1 .. Len(s) : /\ t[j].base = s[j].base
                                   /\ t[j].size = IF j = i THEN n ELSE s[j].size
        /\ t[Len(s) + 1].base = s[i].base + n /\ t[Len(s) + 1].size = s[i].size - n
    BY <2>2, <1>3, <1>4
  <2>4. ASSUME NEW j \in 1 .. Len(s) + 1 PROVE t[j].base + t[j].size <= Total
    <3>1. CASE j \in 1 .. Len(s)
      <4>1. t[j].base = s[j].base /\ t[j].size = (IF j = i THEN n ELSE s[j].size)
        BY <3>1, <2>3
      <4>2. s[j].base \in Nat /\ s[j].size \in Nat /\ s[j].base + s[j].size <= Total /\ n <= s[i].size
        BY <3>1, <1>1, <1>2, <1>5
      <4> QED BY <4>1, <4>2, LevelAssumption
    <3>2. CASE j = Len(s) + 1
      <4>1. t[j].base = s[i].base + n /\ t[j].size = s[i].size - n
        BY <3>2, <2>3
      <4>2. s[i].base \in Nat /\ s[i].size \in Nat /\ s[i].base + s[i].size <= Total
        BY <1>1, <1>2, <1>5
      <4> QED BY <4>1, <4>2, LevelAssumption
    <3> QED BY <3>1, <3>2, <1>1
  <2>5. ASSUME NEW j \in 1 .. Len(s), NEW k \in 1 .. Len(s), j # k
        PROVE  \/ t[j].base + t[j].size <= t[k].base
               \/ t[k].base + t[k].size <= t[j].base
    <3>1. /\ t[j].base = s[j].base /\ t[j].size = (IF j = i THEN n ELSE s[j].size)
          /\ t[k].base = s[k].base /\ t[k].size = (IF k = i THEN n ELSE s[k].size)
      BY <2>3
    <3>2. \/ s[j].base + s[j].size <= s[k].base
          \/ s[k].base + s[k].size <= s[j].base
      BY <2>5, <1>5
    <3>3. /\ s[j].base \in Nat /\ s[j].size \in Nat /\ s[k].base \in Nat /\ s[k].size \in Nat
          /\ s[i].size \in Nat /\ n <= s[i].size
      BY <1>1, <1>2
    <3> QED BY <3>1, <3>2, <3>3
  <2>6. ASSUME NEW j \in 1 .. Len(s)
        PROVE  \/ t[j].base + t[j].size <= t[Len(s) + 1].base
               \/ t[Len(s) + 1].base + t[Len(s) + 1].size <= t[j].base
    <3>1. t[Len(s) + 1].base = s[i].base + n /\ t[Len(s) + 1].size = s[i].size - n
      BY <2>3, <1>1
    <3>2. t[j].base = s[j].base /\ t[j].size = (IF j = i THEN n ELSE s[j].size)
      BY <2>3, <1>1
    <3>3. j # i => \/ s[j].base + s[j].size <= s[i].base
                   \/ s[i].base + s[i].size <= s[j].base
      BY <1>2, <1>5
    <3> QED BY <3>1, <3>2, <3>3, <1>1, <1>2
  <2>7. ASSUME NEW j \in 1 .. Len(s) + 1, NEW k \in 1 .. Len(s) + 1, j # k
        PROVE  \/ t[j].base + t[j].size <= t[k].base
               \/ t[k].base + t[k].size <= t[j].base
    <3>1. \/ j \in 1 .. Len(s) /\ k \in 1 .. Len(s)
          \/ j \in 1 .. Len(s) /\ k = Len(s) + 1
          \/ k \in 1 .. Len(s) /\ j = Len(s) + 1
      BY <2>7, <1>1
    <3> QED BY <3>1, <2>5, <2>6, <2>7
  <2>8. LevelInv'
    BY <2>1, <2>2, <2>4, <2>7 DEF LevelInv, SegmentsDisjoint, Apart, End
  <2>9. \A j \in 1 .. Len(s) : t[j].held = (j = i \/ s[j].held)
    BY <2>2, <1>3
  <2>10. /\ Len(segments') = Len(s) + 1 /\ segments'[i].held
         /\ \A j \in 1 .. Len(s) : s[j].held => segments'[j].held
    BY <2>1, <2>2, <2>9, <1>2
  <2> QED BY <2>8, <2>10, <1>1, <1>2 DEF s
<1> QED BY <1>7, <1>8

LEMMA FreeKeeps ==
  ASSUME LevelInv, NEW i \in 1 .. Len(segments), Free(i)
  PROVE  /\ LevelInv' /\ Len(segments') = Len(segments)
         /\ \A j \in 1 .. Len(segments) : j # i => segments'[j].held = segments[j].held
<1> DEFINE back == [segments[i] EXCEPT !.held = FALSE]
<1>1. segments \in Seq(Segment)
  BY DEF LevelInv
<1>2. back \in Segment /\ back.base = segments[i].base /\ back.size = segments[i].size
  BY <1>1, SegmentAt DEF Segment
<1>3. segments' = [segments EXCEPT ![i] = back]
  BY DEF Free
<1> HIDE DEF back
<1>4. /\ segments' \in Seq(Segment) /\ Len(segments') = Len(segments)
      /\ \A j \in 1 .. Len(segments) : segments'[j] = IF j = i THEN back ELSE segments[j]
  BY <1>1, <1>2, <1>3, ExceptSeq
<1>5. \A j \in 1 .. Len(segments) :
        segments'[j].base = segments[j].base /\ segments'[j].size = segments[j].size
  BY <1>2, <1>4
<1>6. SegmentsDisjoint'
  BY <1>4, <1>5 DEF LevelInv, SegmentsDisjoint, Apart, End
<1> QED BY <1>4, <1>6 DEF LevelInv
-----------------------------------------------------------------------------
(* The count of active transfers follows a channel that starts or ends.    *)
LEMMA BusyFinite ==
  IsFiniteSet(Busy) /\ Cardinality(Busy) \in Nat
<1>1. IsFiniteSet(Channels)
  BY DmaAssumption, FS_Interval DEF Channels
<1>2. Busy \in SUBSET Channels
  BY DEF Busy
<1>3. IsFiniteSet(Busy)
  BY <1>1, <1>2, FS_Subset
<1> QED BY <1>3, FS_CardinalityType

LEMMA StartKeeps ==
  ASSUME EngineInv, NEW t \in Transfers, Start(t), queue' \in Seq(Transfers)
  PROVE  EngineInv'
<1>1. PICK i \in FirstOpen : channels' = [channels EXCEPT ![i] = [job |-> t, elapsed |-> 0]]
  BY DEF Start
<1>2. i \in Channels /\ i \notin Busy
  BY DEF FirstOpen, Open
<1> DEFINE entry == [job |-> t, elapsed |-> 0]
<1>3. entry \in [job : Transfers \cup {NoTransfer}, elapsed : Nat] /\ entry.job # NoTransfer
  BY DmaAssumption
<1> HIDE DEF entry
<1>4. /\ channels' \in [Channels -> [job : Transfers \cup {NoTransfer}, elapsed : Nat]]
      /\ \A j \in Channels : channels'[j] = IF j = i THEN entry ELSE channels[j]
  BY <1>1, <1>2, <1>3 DEF EngineInv, entry
<1>5. Busy' = Busy \cup {i}
  BY <1>2, <1>3, <1>4 DEF Busy, Channels
<1>6. Cardinality(Busy \cup {i}) = Cardinality(Busy) + 1
  BY <1>2, BusyFinite, FS_AddElement
<1>7. ActiveAgrees'
  BY <1>5, <1>6 DEF EngineInv, ActiveAgrees, Start
<1> QED BY <1>4, <1>7 DEF EngineInv

LEMMA CompleteKeeps ==
  ASSUME EngineInv, Complete
  PROVE  EngineInv'
<1>1. /\ at \in Busy /\ at \in Channels /\ channels' = [channels EXCEPT ![at] = Quiet]
      /\ active' = active - 1 /\ queue' = queue
  BY DEF Complete, Busy, Finished
<1>2. Quiet \in [job : Transfers \cup {NoTransfer}, elapsed : Nat] /\ Quiet.job = NoTransfer
  BY DEF Quiet
<1>3. /\ channels' \in [Channels -> [job : Transfers \cup {NoTransfer}, elapsed : Nat]]
      /\ \A j \in Channels : channels'[j] = IF j = at THEN Quiet ELSE channels[j]
  BY <1>1, <1>2 DEF EngineInv
<1>4. Busy' = Busy \ {at}
  BY <1>1, <1>2, <1>3 DEF Busy, Channels
<1>5. Cardinality(Busy \ {at}) = Cardinality(Busy) - 1
  BY <1>1, BusyFinite, FS_RemoveElement
<1> QED BY <1>1, <1>3, <1>4, <1>5 DEF EngineInv, ActiveAgrees

LEMMA QuietKeeps ==
  ASSUME EngineInv, UNCHANGED <<channels, active>>, queue' \in Seq(Transfers)
  PROVE  EngineInv'
  BY DEF EngineInv, ActiveAgrees, Busy

LEMMA PassKeeps ==
  ASSUME EngineInv, Pass
  PROVE  EngineInv'
<1>1. at \in Channels /\ active' = active /\ queue' = queue
  BY DEF Pass
<1>2. CASE channels' = channels
  BY <1>1, <1>2, QuietKeeps DEF EngineInv
<1>3. CASE channels' = [channels EXCEPT ![at].elapsed = @ + 1]
  <2> DEFINE entry == [channels[at] EXCEPT !.elapsed = channels[at].elapsed + 1]
  <2>1. channels[at] \in [job : Transfers \cup {NoTransfer}, elapsed : Nat]
    BY <1>1 DEF EngineInv
  <2>2. /\ entry \in [job : Transfers \cup {NoTransfer}, elapsed : Nat]
        /\ entry.job = channels[at].job
    BY <2>1
  <2>3. channels' = [channels EXCEPT ![at] = entry]
    BY <1>3
  <2> HIDE DEF entry
  <2>4. /\ channels' \in [Channels -> [job : Transfers \cup {NoTransfer}, elapsed : Nat]]
        /\ \A j \in Channels : channels'[j] = IF j = at THEN entry ELSE channels[j]
    BY <1>1, <2>2, <2>3 DEF EngineInv
  <2>5. \A j \in Channels : channels'[j].job = channels[j].job
    BY <2>2, <2>4
  <2>6. Busy' = Busy
    BY <2>5 DEF Busy, Channels
  <2> QED BY <1>1, <2>4, <2>6 DEF EngineInv, ActiveAgrees
<1> QED BY <1>2, <1>3 DEF Pass

LEMMA EndTickKeeps ==
  ASSUME EngineInv, EndTick
  PROVE  EngineInv'
<1>1. CASE MayPrefetch /\ Start(Head(queue)) /\ queue' = QueueRest
  <2>1. queue # <<>> /\ queue' = Tail(queue) /\ queue \in Seq(Transfers)
    BY <1>1 DEF MayPrefetch, QueueRest, EngineInv
  <2>2. Head(queue) \in Transfers /\ Tail(queue) \in Seq(Transfers)
    BY <2>1, HeadTailProperties
  <2> QED BY <1>1, <2>1, <2>2, StartKeeps
<1>2. CASE UNCHANGED <<channels, active, status, queue>>
  BY <1>2, QuietKeeps DEF EngineInv
<1> QED BY <1>1, <1>2 DEF EndTick

LEMMA DmaResetKeeps ==
  ASSUME DmaReset
  PROVE  EngineInv'
<1>1. /\ channels' = [i \in Channels |-> Quiet] /\ active' = 0 /\ queue' = <<>>
  BY DEF DmaReset, ActiveReset
<1>2. Quiet \in [job : Transfers \cup {NoTransfer}, elapsed : Nat] /\ Quiet.job = NoTransfer
  BY DEF Quiet
<1>3. channels' \in [Channels -> [job : Transfers \cup {NoTransfer}, elapsed : Nat]]
  BY <1>1, <1>2
<1>4. Busy' = {}
  BY <1>1, <1>2 DEF Busy, Channels
<1> QED BY <1>1, <1>3, <1>4, FS_EmptySet, EmptySeq DEF EngineInv, ActiveAgrees
-----------------------------------------------------------------------------
MemoryInv == LevelInv /\ OwnersInv /\ EngineInv

(* A load hands a segment nobody holds to a transfer that had none or has  *)
(* lost its own.                                                           *)
LEMMA LoadKeeps ==
  ASSUME MemoryInv, NEW t \in Transfers, NEW n \in Sizes, Load(t, n)
  PROVE  MemoryInv'
<1>1. n \in Nat
  BY SizesAssumption
<1>2. EngineInv'
  <2>1. queue' = queue /\ queue \in Seq(Transfers)
    BY DEF Load, MemoryInv, EngineInv
  <2>2. CASE Open # {}
    BY <2>1, <2>2, StartKeeps DEF Load, Loading, MemoryInv
  <2>3. CASE Open = {}
    BY <2>1, <2>3, QuietKeeps DEF Load, Loading, MemoryInv
  <2> QED BY <2>2, <2>3
<1>3. CASE FirstFit(n) = {} /\ UNCHANGED <<levelVars, dst>>
  BY <1>2, <1>3 DEF MemoryInv, LevelInv, OwnersInv, levelVars, SegmentsDisjoint, Apart, End
<1>4. ASSUME NEW i \in FirstFit(n), Alloc(i, n), dst' = Target(t, i)
      PROVE  LevelInv' /\ OwnersInv'
  <2>1. /\ LevelInv' /\ i \in 1 .. Len(segments) /\ ~ segments[i].held
        /\ Len(segments') >= Len(segments) /\ segments'[i].held
        /\ \A j \in 1 .. Len(segments) : segments[j].held => segments'[j].held
    BY <1>1, <1>4, AllocKeeps DEF MemoryInv
  <2>2. Len(segments) \in Nat /\ Len(segments') \in Nat
    BY <2>1, LenProperties DEF MemoryInv, LevelInv
  <2>3. /\ dst \in [Transfers -> Nat]
        /\ \A u \in Transfers :
             dst[u] # 0 => dst[u] \in 1 .. Len(segments) /\ segments[dst[u]].held
        /\ \A u, v \in Transfers : dst[u] # 0 /\ dst[u] = dst[v] => u = v
    BY DEF MemoryInv, OwnersInv
  <2>4. \A u \in Transfers : dst[u] # i
    BY <2>1, <2>2, <2>3
  <2>5. /\ dst' \in [Transfers -> Nat]
        /\ \A u \in Transfers : dst'[u] = dst[u] \/ (u = t /\ dst'[u] = i)
    BY <1>4, <2>1, <2>2, <2>3 DEF Target
  <2>6. ASSUME NEW u \in Transfers, dst'[u] # 0
        PROVE  dst'[u] \in 1 .. Len(segments') /\ segments'[dst'[u]].held
    BY <2>1, <2>2, <2>3, <2>5, <2>6
  <2>7. ASSUME NEW u \in Transfers, NEW v \in Transfers, dst'[u] # 0, dst'[u] = dst'[v]
        PROVE  u = v
    BY <2>3, <2>4, <2>5, <2>7
  <2> QED BY <2>1, <2>5, <2>6, <2>7 DEF OwnersInv
<1>5. \/ FirstFit(n) = {} /\ UNCHANGED <<levelVars, dst>>
      \/ \E i \in FirstFit(n) : Alloc(i, n) /\ dst' = Target(t, i)
  BY DEF Load
<1>6. CASE \E i \in FirstFit(n) : Alloc(i, n) /\ dst' = Target(t, i)
  BY <1>2, <1>4, <1>6 DEF MemoryInv
<1> QED BY <1>3, <1>5, <1>6

LEMMA ReleaseKeeps ==
  ASSUME MemoryInv, NEW t \in Transfers, Release(t)
  PROVE  MemoryInv'
<1>1. dst[t] # 0 /\ Free(dst[t]) /\ dst' = [dst EXCEPT ![t] = 0] /\ UNCHANGED dmaVars
  BY DEF Release
<1>2. /\ dst \in [Transfers -> Nat]
      /\ \A u \in Transfers :
           dst[u] # 0 => dst[u] \in 1 .. Len(segments) /\ segments[dst[u]].held
      /\ \A u, v \in Transfers : dst[u] # 0 /\ dst[u] = dst[v] => u = v
  BY DEF MemoryInv, OwnersInv
<1>3. /\ LevelInv' /\ Len(segments') = Len(segments)
      /\ \A j \in 1 .. Len(segments) : j # dst[t] => segments'[j].held = segments[j].held
  BY <1>1, <1>2, FreeKeeps DEF MemoryInv
<1>4. /\ dst' \in [Transfers -> Nat]
      /\ \A u \in Transfers : dst'[u] = IF u = t THEN 0 ELSE dst[u]
  BY <1>1, <1>2
<1>5. OwnersInv'
  BY <1>2, <1>3, <1>4 DEF OwnersInv
<1>6. EngineInv'
  BY <1>1 DEF MemoryInv, EngineInv, ActiveAgrees, Busy, dmaVars
<1> QED BY <1>3, <1>5, <1>6 DEF MemoryInv

LEMMA Untouched ==
  ASSUME MemoryInv, UNCHANGED <<levelVars, dst>>
  PROVE  LevelInv' /\ OwnersInv'
  BY DEF MemoryInv, LevelInv, OwnersInv, levelVars, SegmentsDisjoint, Apart, End

LEMMA MemoryStep == MemoryInv /\ [Next]_vars => MemoryInv'
<1> SUFFICES ASSUME MemoryInv, [Next]_vars PROVE MemoryInv'
  OBVIOUS
<1>1. ASSUME NEW t \in Transfers, Plain(t) PROVE MemoryInv'
  <2>1. queue \in Seq(Transfers) /\ EngineInv
    BY DEF MemoryInv, EngineInv
  <2>2. CASE Submit(t)
    BY <2>1, <2>2, <1>1, Untouched, StartKeeps DEF Submit, Plain, MemoryInv
  <2>3. CASE Prefetch(t)
    <3>1. queue' = Append(queue, t) /\ UNCHANGED <<channels, active>>
      BY <2>3 DEF Prefetch
    <3>2. queue' \in Seq(Transfers)
      BY <2>1, <3>1, AppendProperties
    <3> QED BY <2>1, <3>1, <3>2, <1>1, Untouched, QuietKeeps DEF Plain, MemoryInv
  <2> QED BY <2>2, <2>3, <1>1 DEF Plain
<1>2. ASSUME NEW t \in Transfers, Release(t) PROVE MemoryInv'
  BY <1>2, ReleaseKeeps
<1>3. ASSUME NEW t \in Transfers, NEW n \in Sizes, Load(t, n) PROVE MemoryInv'
  BY <1>3, LoadKeeps
<1>4. CASE EngineStep
  <2>1. LevelInv' /\ OwnersInv' /\ EngineInv /\ queue \in Seq(Transfers)
    BY <1>4, Untouched DEF EngineStep, MemoryInv, EngineInv
  <2>2. CASE Pass
    BY <2>1, <2>2, PassKeeps DEF MemoryInv
  <2>3. CASE Complete
    BY <2>1, <2>3, CompleteKeeps DEF MemoryInv
  <2>4. CASE EndTick
    BY <2>1, <2>4, EndTickKeeps DEF MemoryInv
  <2>5. CASE CallbackReturns \/ Tick \/ WaitAll \/ WaitReturns
    <3>1. UNCHANGED <<channels, active, queue>>
      BY <2>5 DEF CallbackReturns, Tick, WaitAll, WaitReturns
    <3> QED BY <2>1, <3>1, QuietKeeps DEF MemoryInv
  <2> QED BY <2>2, <2>3, <2>4, <2>5, <1>4 DEF EngineStep, Engine
<1>5. CASE Reset
  <2>1. EngineInv'
    BY <1>5, DmaResetKeeps DEF Reset
  <2>2. dst' = [t \in Transfers |-> 0] /\ UNCHANGED levelVars
    BY <1>5 DEF Reset
  <2>3. LevelInv' /\ OwnersInv'
    BY <2>2 DEF MemoryInv, LevelInv, OwnersInv, levelVars, SegmentsDisjoint, Apart, End
  <2> QED BY <2>1, <2>3 DEF MemoryInv
<1>6. CASE UNCHANGED vars
  <2>1. UNCHANGED <<levelVars, dst>> /\ UNCHANGED <<channels, active, queue>>
    BY <1>6 DEF vars, dmaVars
  <2>2. EngineInv'
    BY <2>1, QuietKeeps DEF MemoryInv, EngineInv
  <2> QED BY <2>1, <2>2, Untouched DEF MemoryInv
<1> QED BY <1>1, <1>2, <1>3, <1>4, <1>5, <1>6 DEF Next

LEMMA MemoryInit == Init => MemoryInv
<1> SUFFICES ASSUME Init PROVE MemoryInv
  OBVIOUS
<1>1. LevelInv
  <2> DEFINE whole == [base |-> 0, size |-> Total, held |-> FALSE]
  <2>1. whole \in Segment /\ segments = <<whole>> /\ whole.base + whole.size <= Total
    BY LevelAssumption DEF Init, LevelInit, Segment
  <2> HIDE DEF whole
  <2>2. segments \in Seq(Segment) /\ Len(segments) = 1 /\ segments[1] = whole
    BY <2>1
  <2>3. \A i \in 1 .. Len(segments) : i = 1
    BY <2>2
  <2> QED BY <2>1, <2>2, <2>3 DEF LevelInv, SegmentsDisjoint, End
<1>2. OwnersInv
  BY DEF Init, OwnersInv
<1>3. EngineInv
  <2>1. Quiet \in [job : Transfers \cup {NoTransfer}, elapsed : Nat] /\ Quiet.job = NoTransfer
    BY DEF Quiet
  <2>2. channels = [i \in Channels |-> Quiet] /\ active = 0 /\ queue = <<>>
    BY DEF Init, DmaInit
  <2>3. Busy = {}
    BY <2>1, <2>2 DEF Busy
  <2> QED BY <2>1, <2>2, <2>3, FS_EmptySet, EmptySeq DEF EngineInv, ActiveAgrees
<1> QED BY <1>1, <1>2, <1>3 DEF MemoryInv
-----------------------------------------------------------------------------
(* Where a transfer is: what its status says, channels and queue agree on. *)
StatusInv == status \in [Transfers -> {"new", "queued", "running", "done"}]

ChannelInv ==
  /\ \A t \in Transfers : status[t] = "running" <=> \E i \in Channels : channels[i].job = t
  /\ \A i, j \in Channels :
       channels[i].job = channels[j].job /\ channels[i].job # NoTransfer => i = j

QueueInv ==
  /\ \A t \in Transfers : status[t] = "queued" <=> \E k \in 1 .. Len(queue) : queue[k] = t
  /\ \A j, k \in 1 .. Len(queue) : queue[j] = queue[k] => j = k

PlaceInv == StatusInv /\ ChannelInv /\ QueueInv

(* A transfer that starts takes a channel that had none. *)
LEMMA StartPlaces ==
  ASSUME EngineInv, StatusInv, ChannelInv, NEW t \in Transfers, status[t] # "running", Start(t)
  PROVE  /\ StatusInv' /\ ChannelInv' /\ status'[t] = "running"
         /\ \A u \in Transfers : u # t => status'[u] = status[u]
<1> DEFINE entry == [job |-> t, elapsed |-> 0]
<1>1. PICK i \in FirstOpen : channels' = [channels EXCEPT ![i] = entry]
  BY DEF Start
<1>2. i \in Channels /\ channels[i].job = NoTransfer /\ t # NoTransfer
  BY DmaAssumption DEF FirstOpen, Open, Busy
<1>3. entry.job = t
  OBVIOUS
<1> HIDE DEF entry
<1>4. \A j \in Channels : channels'[j] = IF j = i THEN entry ELSE channels[j]
  BY <1>1 DEF EngineInv
<1>5. /\ channels'[i].job = t
      /\ \A j \in Channels : j # i => channels'[j].job = channels[j].job
  BY <1>2, <1>3, <1>4
<1>6. \A j \in Channels : channels[j].job # t
  BY DEF ChannelInv
<1>7. status' = [status EXCEPT ![t] = "running"]
  BY DEF Start
<1>8. /\ StatusInv' /\ status'[t] = "running"
      /\ \A u \in Transfers : u # t => status'[u] = status[u]
  BY <1>7 DEF StatusInv
<1>9. ASSUME NEW u \in Transfers
      PROVE  status'[u] = "running" <=> \E j \in Channels : channels'[j].job = u
  <2>1. CASE u = t
    BY <1>2, <1>5, <1>8, <2>1
  <2>2. CASE u # t
    <3>1. u # NoTransfer
      BY DmaAssumption
    <3> QED BY <1>2, <1>5, <1>8, <2>2, <3>1 DEF ChannelInv
  <2> QED BY <2>1, <2>2
<1>10. ASSUME NEW j \in Channels, NEW k \in Channels,
              channels'[j].job = channels'[k].job, channels'[j].job # NoTransfer
       PROVE  j = k
  BY <1>5, <1>6, <1>10 DEF ChannelInv
<1>11. Channels' = Channels
  BY DEF Channels
<1> QED BY <1>8, <1>9, <1>10, <1>11 DEF ChannelInv

(* One that starts from outside the queue leaves the queue alone. *)
LEMMA QueueStays ==
  ASSUME QueueInv, NEW t \in Transfers, status[t] # "queued", status'[t] # "queued",
         \A u \in Transfers : u # t => status'[u] = status[u], queue' = queue
  PROVE  QueueInv'
<1>1. \A u \in Transfers : (status'[u] = "queued") <=> (status[u] = "queued")
  OBVIOUS
<1> QED BY <1>1 DEF QueueInv

LEMMA QueueSame ==
  ASSUME QueueInv, UNCHANGED <<status, queue>>
  PROVE  QueueInv'
  BY DEF QueueInv

LEMMA SubmitPlaces ==
  ASSUME EngineInv, PlaceInv, NEW t \in Transfers, status[t] = "new", Start(t), queue' = queue
  PROVE  PlaceInv'
<1>1. StatusInv /\ ChannelInv /\ QueueInv /\ status[t] # "running" /\ status[t] # "queued"
  BY DEF PlaceInv
<1>2. /\ StatusInv' /\ ChannelInv' /\ status'[t] = "running"
      /\ \A u \in Transfers : u # t => status'[u] = status[u]
  BY <1>1, StartPlaces
<1>3. status'[t] # "queued"
  BY <1>2
<1> QED BY <1>1, <1>2, <1>3, QueueStays DEF PlaceInv

LEMMA PrefetchPlaces ==
  ASSUME EngineInv, PlaceInv, NEW t \in Transfers, Prefetch(t)
  PROVE  PlaceInv'
<1>1. /\ queue' = Append(queue, t) /\ queue \in Seq(Transfers) /\ channels' = channels
      /\ status[t] = "new" /\ status' = [status EXCEPT ![t] = "queued"]
  BY DEF Prefetch, EngineInv
<1>2. /\ Len(queue) \in Nat /\ Len(queue') = Len(queue) + 1 /\ queue'[Len(queue) + 1] = t
      /\ \A k \in 1 .. Len(queue) : queue'[k] = queue[k]
  BY <1>1, LenProperties, AppendProperties
<1>3. /\ StatusInv' /\ status'[t] = "queued"
      /\ \A u \in Transfers : u # t => status'[u] = status[u]
  BY <1>1 DEF PlaceInv, StatusInv
<1>4. \A u \in Transfers : (status'[u] = "running") <=> (status[u] = "running")
  BY <1>1, <1>3
<1>5. ChannelInv'
  BY <1>1, <1>4 DEF PlaceInv, ChannelInv, Channels
<1>6. \A k \in 1 .. Len(queue) : queue[k] # t
  BY <1>1 DEF PlaceInv, QueueInv
<1>7. \A k \in 1 .. Len(queue') : k \in 1 .. Len(queue) \/ k = Len(queue) + 1
  BY <1>2
<1>8. ASSUME NEW u \in Transfers
      PROVE  status'[u] = "queued" <=> \E k \in 1 .. Len(queue') : queue'[k] = u
  <2>1. CASE u = t
    <3>1. Len(queue) + 1 \in 1 .. Len(queue')
      BY <1>2
    <3> QED BY <1>2, <1>3, <2>1, <3>1
  <2>2. CASE u # t
    <3>1. status'[u] = "queued" <=> \E k \in 1 .. Len(queue) : queue[k] = u
      BY <1>3, <2>2 DEF PlaceInv, QueueInv
    <3>2. \A k \in 1 .. Len(queue) : k \in 1 .. Len(queue')
      BY <1>2
    <3> QED BY <1>2, <1>7, <2>2, <3>1, <3>2
  <2> QED BY <2>1, <2>2
<1>9. ASSUME NEW j \in 1 .. Len(queue'), NEW k \in 1 .. Len(queue'), queue'[j] = queue'[k]
      PROVE  j = k
  <2>1. \A m, n \in 1 .. Len(queue) : queue[m] = queue[n] => m = n
    BY DEF PlaceInv, QueueInv
  <2> QED BY <1>2, <1>6, <1>7, <1>9, <2>1
<1>10. QueueInv'
  BY <1>8, <1>9 DEF QueueInv
<1> QED BY <1>3, <1>5, <1>10 DEF PlaceInv

LEMMA PassPlaces ==
  ASSUME EngineInv, PlaceInv, Pass
  PROVE  PlaceInv'
<1>1. at \in Channels /\ UNCHANGED <<status, queue>>
  BY DEF Pass
<1>2. \A j \in Channels : channels'[j].job = channels[j].job
  <2>1. CASE channels' = channels
    BY <2>1
  <2>2. CASE channels' = [channels EXCEPT ![at].elapsed = @ + 1]
    <3> DEFINE entry == [channels[at] EXCEPT !.elapsed = channels[at].elapsed + 1]
    <3>1. channels[at] \in [job : Transfers \cup {NoTransfer}, elapsed : Nat]
      BY <1>1 DEF EngineInv
    <3>2. entry.job = channels[at].job
      BY <3>1
    <3>3. channels' = [channels EXCEPT ![at] = entry]
      BY <2>2
    <3> HIDE DEF entry
    <3>4. \A j \in Channels : channels'[j] = IF j = at THEN entry ELSE channels[j]
      BY <1>1, <3>3 DEF EngineInv
    <3> QED BY <3>2, <3>4
  <2> QED BY <2>1, <2>2 DEF Pass
<1>3. ChannelInv'
  BY <1>1, <1>2 DEF PlaceInv, ChannelInv, Channels
<1> QED BY <1>1, <1>3, QueueSame DEF PlaceInv, StatusInv

LEMMA CompletePlaces ==
  ASSUME EngineInv, PlaceInv, Complete
  PROVE  PlaceInv'
<1> DEFINE t == channels[at].job
<1>1. /\ at \in Channels /\ t # NoTransfer /\ channels' = [channels EXCEPT ![at] = Quiet]
      /\ status' = [status EXCEPT ![t] = "done"] /\ queue' = queue
  BY DEF Complete
<1>2. t \in Transfers
  BY <1>1 DEF EngineInv
<1>3. Quiet.job = NoTransfer
  BY DEF Quiet
<1>4. /\ channels'[at].job = NoTransfer
      /\ \A j \in Channels : j # at => channels'[j].job = channels[j].job
  BY <1>1, <1>3 DEF EngineInv
<1>5. status[t] = "running" /\ \A j \in Channels : channels[j].job = t => j = at
  BY <1>1, <1>2 DEF PlaceInv, ChannelInv
<1> HIDE DEF t
<1>6. /\ StatusInv' /\ status'[t] = "done"
      /\ \A u \in Transfers : u # t => status'[u] = status[u]
  BY <1>1, <1>2 DEF PlaceInv, StatusInv
<1>7. ASSUME NEW u \in Transfers
      PROVE  status'[u] = "running" <=> \E j \in Channels : channels'[j].job = u
  <2>1. u # NoTransfer
    BY DmaAssumption
  <2>2. CASE u = t
    BY <1>4, <1>5, <1>6, <2>1, <2>2
  <2>3. CASE u # t
    <3>1. status'[u] = "running" <=> \E j \in Channels : channels[j].job = u
      BY <1>6, <2>3 DEF PlaceInv, ChannelInv
    <3>2. \A j \in Channels : channels[j].job = u => j # at
      BY <2>3 DEF t
    <3> QED BY <1>4, <2>1, <3>1, <3>2
  <2> QED BY <2>2, <2>3
<1>8. ASSUME NEW j \in Channels, NEW k \in Channels,
             channels'[j].job = channels'[k].job, channels'[j].job # NoTransfer
      PROVE  j = k
  BY <1>4, <1>8 DEF PlaceInv, ChannelInv
<1>9. Channels' = Channels
  BY DEF Channels
<1>10. ChannelInv'
  BY <1>7, <1>8, <1>9 DEF ChannelInv
<1>11. status[t] # "queued" /\ status'[t] # "queued" /\ QueueInv
  BY <1>5, <1>6 DEF PlaceInv
<1>12. QueueInv'
  BY <1>1, <1>2, <1>6, <1>11, QueueStays
<1> QED BY <1>6, <1>10, <1>12 DEF PlaceInv

(* The prefetch that starts leaves the front of the queue. *)
LEMMA EndTickPlaces ==
  ASSUME EngineInv, PlaceInv, EndTick
  PROVE  PlaceInv'
<1>1. CASE MayPrefetch /\ Start(Head(queue)) /\ queue' = QueueRest
  <2> DEFINE t == Head(queue)
  <2>1. queue # <<>> /\ queue' = Tail(queue) /\ queue \in Seq(Transfers)
    BY <1>1 DEF MayPrefetch, QueueRest, EngineInv
  <2>2. /\ t \in Transfers /\ t = queue[1] /\ Len(queue) \in Nat /\ Len(queue) >= 1
        /\ Len(queue') = Len(queue) - 1
        /\ \A k \in 1 .. Len(queue) - 1 : queue'[k] = queue[k + 1]
    BY <2>1, HeadTailProperties, EmptySeq, LenProperties
  <2> HIDE DEF t
  <2>3. 1 \in 1 .. Len(queue)
    BY <2>2
  <2>4. status[t] = "queued" /\ \A k \in 1 .. Len(queue) : queue[k] = t => k = 1
    BY <2>2, <2>3 DEF PlaceInv, QueueInv
  <2>5. Start(t)
    BY <1>1 DEF t
  <2>6. /\ StatusInv' /\ ChannelInv' /\ status'[t] = "running"
        /\ \A u \in Transfers : u # t => status'[u] = status[u]
    BY <2>2, <2>4, <2>5, StartPlaces DEF PlaceInv
  <2>7. ASSUME NEW u \in Transfers
        PROVE  status'[u] = "queued" <=> \E k \in 1 .. Len(queue') : queue'[k] = u
    <3>1. \A k \in 1 .. Len(queue') : k + 1 \in 1 .. Len(queue) /\ queue'[k] = queue[k + 1] /\ k + 1 # 1
      BY <2>2
    <3>2. CASE u = t
      BY <2>4, <2>6, <3>1, <3>2
    <3>3. CASE u # t
      <4>1. status'[u] = "queued" <=> \E k \in 1 .. Len(queue) : queue[k] = u
        BY <2>6, <3>3 DEF PlaceInv, QueueInv
      <4>2. ASSUME NEW k \in 1 .. Len(queue), queue[k] = u
            PROVE  \E m \in 1 .. Len(queue') : queue'[m] = u
        <5>1. k # 1
          BY <2>2, <3>3, <4>2
        <5>2. k - 1 \in 1 .. Len(queue') /\ (k - 1) + 1 = k
          BY <2>2, <5>1
        <5>3. queue'[k - 1] = u
          BY <3>1, <4>2, <5>2
        <5> QED BY <5>2, <5>3
      <4> QED BY <3>1, <4>1, <4>2
    <3> QED BY <3>2, <3>3
  <2>8. ASSUME NEW j \in 1 .. Len(queue'), NEW k \in 1 .. Len(queue'), queue'[j] = queue'[k]
        PROVE  j = k
    <3>1. /\ j + 1 \in 1 .. Len(queue) /\ k + 1 \in 1 .. Len(queue)
          /\ queue[j + 1] = queue[k + 1]
      BY <2>2, <2>8
    <3>2. j + 1 = k + 1
      BY <3>1 DEF PlaceInv, QueueInv
    <3> QED BY <3>2
  <2>9. QueueInv'
    BY <2>7, <2>8 DEF QueueInv
  <2> QED BY <2>6, <2>9 DEF PlaceInv
<1>2. CASE UNCHANGED <<channels, active, status, queue>>
  BY <1>2 DEF PlaceInv, StatusInv, ChannelInv, QueueInv, Channels
<1> QED BY <1>1, <1>2 DEF EndTick

LEMMA ResetPlaces ==
  ASSUME DmaReset
  PROVE  PlaceInv'
<1>1. /\ channels' = [i \in Channels |-> Quiet] /\ queue' = <<>>
      /\ status' = [t \in Transfers |-> "new"]
  BY DEF DmaReset
<1>2. \A i \in Channels : channels'[i].job = NoTransfer
  BY <1>1 DEF Quiet
<1>3. 1 .. Len(queue') = {}
  BY <1>1
<1>4. NoTransfer \notin Transfers /\ Channels' = Channels
  BY DmaAssumption DEF Channels
<1>5. StatusInv' /\ \A t \in Transfers : status'[t] # "running" /\ status'[t] # "queued"
  BY <1>1 DEF StatusInv
<1>6. ChannelInv'
  BY <1>2, <1>4, <1>5 DEF ChannelInv
<1>7. QueueInv'
  BY <1>3, <1>5 DEF QueueInv
<1> QED BY <1>5, <1>6, <1>7 DEF PlaceInv

LEMMA PlaceStep == MemoryInv /\ PlaceInv /\ [Next]_vars => PlaceInv'
<1> SUFFICES ASSUME EngineInv, PlaceInv, [Next]_vars PROVE PlaceInv'
  BY DEF MemoryInv
<1>1. ASSUME UNCHANGED <<channels, queue, status>> PROVE PlaceInv'
  BY <1>1 DEF PlaceInv, StatusInv, ChannelInv, QueueInv, Channels
<1>2. ASSUME NEW t \in Transfers, Plain(t) PROVE PlaceInv'
  <2>1. CASE Submit(t)
    BY <2>1, SubmitPlaces DEF Submit
  <2>2. CASE Prefetch(t)
    BY <2>2, PrefetchPlaces
  <2> QED BY <1>2, <2>1, <2>2 DEF Plain
<1>3. ASSUME NEW t \in Transfers, Release(t) PROVE PlaceInv'
  BY <1>1, <1>3 DEF Release, dmaVars
<1>4. ASSUME NEW t \in Transfers, NEW n \in Sizes, Load(t, n) PROVE PlaceInv'
  <2>1. status[t] = "new" /\ queue' = queue
    BY <1>4 DEF Load
  <2>2. CASE Open # {}
    BY <1>4, <2>1, <2>2, SubmitPlaces DEF Load, Loading
  <2>3. CASE Open = {}
    BY <1>1, <1>4, <2>3 DEF Load, Loading
  <2> QED BY <2>2, <2>3
<1>5. CASE EngineStep
  <2>1. CASE Pass
    BY <2>1, PassPlaces
  <2>2. CASE Complete
    BY <2>2, CompletePlaces
  <2>3. CASE EndTick
    BY <2>3, EndTickPlaces
  <2>4. CASE CallbackReturns \/ Tick \/ WaitAll \/ WaitReturns
    BY <1>1, <2>4 DEF CallbackReturns, Tick, WaitAll, WaitReturns
  <2> QED BY <1>5, <2>1, <2>2, <2>3, <2>4 DEF EngineStep, Engine
<1>6. CASE Reset
  BY <1>6, ResetPlaces DEF Reset
<1>7. CASE UNCHANGED vars
  BY <1>1, <1>7 DEF vars, dmaVars
<1> QED BY <1>2, <1>3, <1>4, <1>5, <1>6, <1>7 DEF Next

LEMMA PlaceInit == Init => PlaceInv
<1> SUFFICES ASSUME Init PROVE PlaceInv
  OBVIOUS
<1>1. /\ channels = [i \in Channels |-> Quiet] /\ queue = <<>>
      /\ status = [t \in Transfers |-> "new"]
  BY DEF Init, DmaInit
<1>2. \A i \in Channels : channels[i].job = NoTransfer
  BY <1>1 DEF Quiet
<1>3. 1 .. Len(queue) = {}
  BY <1>1
<1>4. StatusInv /\ \A t \in Transfers : status[t] # "running" /\ status[t] # "queued"
  BY <1>1 DEF StatusInv
<1>5. ChannelInv
  BY <1>2, <1>4, DmaAssumption DEF ChannelInv
<1>6. QueueInv
  BY <1>3, <1>4 DEF QueueInv
<1> QED BY <1>4, <1>5, <1>6 DEF PlaceInv

(* Places that are known one by one are also counted right. *)
LEMMA PlaceCounts ==
  ASSUME EngineInv, PlaceInv
  PROVE  InOnePlace
<1> SUFFICES ASSUME NEW t \in Transfers
             PROVE  /\ Cardinality(Running(t)) = IF status[t] = "running" THEN 1 ELSE 0
                    /\ Cardinality(Queued(t)) = IF status[t] = "queued" THEN 1 ELSE 0
  BY DEF InOnePlace
<1>1. t # NoTransfer
  BY DmaAssumption
<1>2. Cardinality({}) = 0
  BY FS_EmptySet
<1>3. Cardinality(Running(t)) = IF status[t] = "running" THEN 1 ELSE 0
  <2>1. CASE status[t] = "running"
    <3>1. PICK i \in Channels : channels[i].job = t
      BY <2>1 DEF PlaceInv, ChannelInv
    <3>2. Running(t) = {i}
      BY <1>1, <3>1 DEF Running, PlaceInv, ChannelInv
    <3>3. Cardinality({i}) = 1
      BY FS_Singleton
    <3> QED BY <2>1, <3>2, <3>3
  <2>2. CASE status[t] # "running"
    <3>1. Running(t) = {}
      BY <2>2 DEF Running, PlaceInv, ChannelInv
    <3> QED BY <1>2, <2>2, <3>1
  <2> QED BY <2>1, <2>2
<1>4. Cardinality(Queued(t)) = IF status[t] = "queued" THEN 1 ELSE 0
  <2>1. DOMAIN queue = 1 .. Len(queue)
    BY LenProperties DEF EngineInv
  <2>2. CASE status[t] = "queued"
    <3>1. PICK k \in 1 .. Len(queue) : queue[k] = t
      BY <2>2 DEF PlaceInv, QueueInv
    <3>2. Queued(t) = {k}
      BY <2>1, <3>1 DEF Queued, PlaceInv, QueueInv
    <3>3. Cardinality({k}) = 1
      BY FS_Singleton
    <3> QED BY <2>2, <3>2, <3>3
  <2>3. CASE status[t] # "queued"
    <3>1. Queued(t) = {}
      BY <2>1, <2>3 DEF Queued, PlaceInv, QueueInv
    <3> QED BY <1>2, <2>3, <3>1
  <2> QED BY <2>2, <2>3
<1> QED BY <1>3, <1>4
-----------------------------------------------------------------------------
(* How far a tick and a wait are, and what a tick leaves to a wait.        *)
WaitInv ==
  /\ at \in 0 .. NumChannels + 1 /\ calling \in BOOLEAN
  /\ waiting \in {"no", "asked", "ticked"}
  /\ calling => at \in Channels
  /\ waiting # "no" /\ at # 0 => NumChannels > 0
  /\ waiting = "ticked" /\ at = 0 /\ active = 0 => queue = <<>>

LEMMA ActiveType ==
  ASSUME EngineInv
  PROVE  active \in Nat /\ (active > 0 => NumChannels > 0)
<1>1. active = Cardinality(Busy) /\ active \in Nat
  BY BusyFinite DEF EngineInv, ActiveAgrees
<1>2. Busy = {} => active = 0
  BY <1>1, FS_EmptySet
<1>3. Busy # {} => NumChannels > 0
  BY DmaAssumption DEF Busy, Channels
<1> QED BY <1>1, <1>2, <1>3

(* A tick that does not start what is first in the queue found every       *)
(* channel busy, or the queue empty.                                       *)
LEMMA EndTickWaits ==
  ASSUME EngineInv, WaitInv, EndTick
  PROVE  WaitInv'
<1>1. active \in Nat /\ NumChannels \in Nat
  BY ActiveType, DmaAssumption
<1>2. /\ at = NumChannels + 1 /\ at' = 0 /\ calling' = calling
      /\ waiting' = IF waiting = "asked" THEN "ticked" ELSE waiting
  BY DEF EndTick
<1>3. ~ calling
  BY <1>1, <1>2 DEF WaitInv, Channels
<1>4. waiting' = "ticked" => NumChannels > 0
  BY <1>1, <1>2 DEF WaitInv
<1>5. ASSUME waiting' = "ticked", active' = 0 PROVE queue' = <<>>
  <2>1. CASE Start(Head(queue))
    BY <1>1, <1>5, <2>1 DEF Start
  <2>2. CASE ~ MayPrefetch /\ UNCHANGED <<channels, active, status, queue>>
    <3>1. CASE Open = {}
      <4>1. Busy = Channels
        BY <3>1 DEF Open, Busy
      <4>2. active = NumChannels
        BY <1>1, <4>1, FS_Interval DEF EngineInv, ActiveAgrees, Channels
      <4> QED BY <1>1, <1>4, <1>5, <2>2, <4>2
    <3> QED BY <2>2, <3>1 DEF MayPrefetch
  <2> QED BY <2>1, <2>2 DEF EndTick
<1>6. waiting' \in {"no", "asked", "ticked"}
  BY <1>2 DEF WaitInv
<1>7. at' \in 0 .. NumChannels + 1
  BY <1>1, <1>2
<1> QED BY <1>2, <1>3, <1>5, <1>6, <1>7 DEF WaitInv

(* What a caller does meanwhile: outside ticks only if nobody waits. *)
LEMMA CallWaits ==
  ASSUME WaitInv, MayCall, UNCHANGED <<at, calling, waiting>>
  PROVE  WaitInv'
<1>1. at = 0 => waiting = "no"
  BY DmaAssumption DEF MayCall, WaitInv, Channels
<1> QED BY <1>1 DEF WaitInv, Channels

LEMMA WaitStep == MemoryInv /\ WaitInv /\ [Next]_vars => WaitInv'
<1> SUFFICES ASSUME EngineInv, WaitInv, [Next]_vars PROVE WaitInv'
  BY DEF MemoryInv
<1>1. active \in Nat /\ NumChannels \in Nat /\ (active > 0 => NumChannels > 0)
  BY ActiveType, DmaAssumption
<1>2. ASSUME NEW t \in Transfers, Plain(t) PROVE WaitInv'
  BY <1>2, CallWaits DEF Plain, Submit, Prefetch
<1>3. ASSUME NEW t \in Transfers, Release(t) PROVE WaitInv'
  BY <1>3, CallWaits DEF Release, dmaVars
<1>4. ASSUME NEW t \in Transfers, NEW n \in Sizes, Load(t, n) PROVE WaitInv'
  BY <1>4, CallWaits DEF Load
<1>5. CASE EngineStep
  <2>1. CASE Pass
    BY <1>1, <2>1 DEF Pass, WaitInv, Channels
  <2>2. CASE Complete
    BY <1>1, <2>2 DEF Complete, WaitInv, Channels
  <2>3. CASE EndTick
    BY <2>3, EndTickWaits
  <2>4. CASE CallbackReturns
    <3>1. calling' = FALSE /\ at \in Channels /\ at' = at + 1 /\ waiting' = waiting
      BY <2>4 DEF CallbackReturns, WaitInv
    <3>2. calling' \in BOOLEAN /\ ~ calling'
      BY <3>1
    <3>3. waiting' \in {"no", "asked", "ticked"}
      BY <3>1 DEF WaitInv
    <3>4. at' \in 0 .. NumChannels + 1 /\ at' # 0 /\ NumChannels > 0
      BY <1>1, <3>1 DEF Channels
    <3> QED BY <3>2, <3>3, <3>4 DEF WaitInv
  <2>5. CASE Tick
    BY <1>1, <2>5 DEF Tick, WaitInv, Channels
  <2>6. CASE WaitAll \/ WaitReturns
    BY <1>1, <2>6 DEF WaitAll, WaitReturns, WaitInv, Channels
  <2> QED BY <1>5, <2>1, <2>2, <2>3, <2>4, <2>5, <2>6 DEF EngineStep, Engine
<1>6. CASE Reset
  BY <1>6 DEF Reset, DmaReset, WaitInv, Channels
<1>7. CASE UNCHANGED vars
  BY <1>7 DEF vars, dmaVars, WaitInv, Channels
<1> QED BY <1>2, <1>3, <1>4, <1>5, <1>6, <1>7 DEF Next

LEMMA WaitInit == Init => WaitInv
<1> SUFFICES ASSUME Init PROVE WaitInv
  OBVIOUS
<1>1. at = 0 /\ calling = FALSE /\ waiting = "no"
  BY DEF Init, DmaInit
<1>2. calling \in BOOLEAN /\ ~ calling
  BY <1>1
<1>3. at \in 0 .. NumChannels + 1
  BY <1>1, DmaAssumption
<1> QED BY <1>1, <1>2, <1>3 DEF WaitInv

(* Only WaitReturns ends a wait. *)
LEMMA WaitLeaves ==
  ASSUME WaitInv, [Next]_vars, waiting = "ticked", waiting' = "no"
  PROVE  queue = <<>>
<1>1. waiting' # waiting
  OBVIOUS
<1>2. CASE WaitReturns
  BY <1>2 DEF WaitReturns, WaitInv
<1>3. CASE EndTick
  BY <1>3 DEF EndTick
<1>4. CASE Pass \/ Complete \/ CallbackReturns \/ Tick \/ WaitAll
  BY <1>1, <1>4 DEF Pass, Complete, CallbackReturns, Tick, WaitAll
<1>5. CASE Reset
  BY <1>1, <1>5 DEF Reset, DmaReset
<1>6. ASSUME NEW t \in Transfers, Plain(t) \/ Release(t) PROVE FALSE
  BY <1>1, <1>6 DEF Plain, Submit, Prefetch, Release, dmaVars
<1>7. ASSUME NEW t \in Transfers, NEW n \in Sizes, Load(t, n) PROVE FALSE
  BY <1>1, <1>7 DEF Load
<1>8. ~ UNCHANGED vars
  BY <1>1 DEF vars, dmaVars
<1> QED BY <1>2, <1>3, <1>4, <1>5, <1>6, <1>7, <1>8 DEF Next, EngineStep, Engine
-----------------------------------------------------------------------------
(* What is handed out is a sum over the table; the sums of two tables that *)
(* differ at one segment differ by what changed there.                     *)
Weigh(s) == [i \in 1 .. Len(s) |-> HeldBytes(s, i)]

Weights(w, n) == w \in [1 .. n -> Nat]

Moved(g, h, w, v, n, i) == h[n] = g[n] + v[i] - w[i]

SameBut(v, w, n, i) == \A j \in 1 .. n : j # i => v[j] = w[j]

IsSum(g, w, n) == g = [i \in 0 .. n |-> IF i = 0 THEN 0 ELSE g[i - 1] + w[i]]

(* A set of numbers that is not empty has a least one. *)
LEMMA LeastElement ==
  ASSUME NEW T \in SUBSET Nat, T # {}
  PROVE  \E m \in T : \A k \in T : m <= k
<1> DEFINE R == {ss \in Nat \X Nat : ss[1] < ss[2]}
<1>1. IsWellFoundedOn(R, Nat)
  BY NatLessThanWellFounded DEF OpToRel
<1> HIDE DEF R
<1>2. PICK m \in T : \A k \in T : ~ (<<k, m>> \in R)
  BY <1>1, WFMin
<1>3. ASSUME NEW k \in T PROVE m <= k
  <2>1. ~ (<<k, m>> \in R)
    BY <1>2
  <2>2. k \in Nat /\ m \in Nat
    OBVIOUS
  <2> QED BY <2>1, <2>2 DEF R
<1> QED BY <1>3

(* What holds of 0 and of every successor holds of every number. *)
LEMMA Climb ==
  ASSUME NEW T \in SUBSET Nat, 0 \in T, \A n \in T : n + 1 \in T
  PROVE  \A n \in Nat : n \in T
<1> SUFFICES ASSUME Nat \ T # {} PROVE FALSE
  OBVIOUS
<1>1. PICK m \in Nat \ T : \A k \in Nat \ T : m <= k
  BY LeastElement
<1>2. m # 0 /\ m - 1 \in Nat
  BY <1>1
<1>3. m - 1 \in T
  BY <1>1, <1>2
<1>4. (m - 1) + 1 \in T
  BY <1>3
<1> QED BY <1>1, <1>4

LEMMA SumParts ==
  ASSUME NEW n \in Nat, NEW w \in [1 .. n -> Nat], NEW g, IsSum(g, w, n)
  PROVE  /\ g[0] = 0 /\ \A i \in 1 .. n : g[i] = g[i - 1] + w[i]
         /\ \A i \in 0 .. n : g[i] \in Nat
<1>1. \A i \in 0 .. n : g[i] = IF i = 0 THEN 0 ELSE g[i - 1] + w[i]
  BY DEF IsSum
<1>2. g[0] = 0 /\ \A i \in 1 .. n : g[i] = g[i - 1] + w[i]
  BY <1>1
<1> DEFINE T == {k \in Nat : k <= n => g[k] \in Nat}
<1>3. 0 \in T
  BY <1>2
<1>4. ASSUME NEW k \in T PROVE k + 1 \in T
  <2> SUFFICES ASSUME k + 1 <= n PROVE g[k + 1] \in Nat
    OBVIOUS
  <2>1. k \in Nat /\ g[k] \in Nat /\ k + 1 \in 1 .. n /\ (k + 1) - 1 = k
    OBVIOUS
  <2>2. g[k + 1] = g[k] + w[k + 1] /\ w[k + 1] \in Nat
    BY <1>2, <2>1
  <2> QED BY <2>1, <2>2
<1>5. T \in SUBSET Nat
  OBVIOUS
<1> HIDE DEF T
<1>6. \A k \in Nat : k \in T
  BY <1>3, <1>4, <1>5, Climb
<1> QED BY <1>2, <1>6 DEF T

LEMMA SumExists ==
  ASSUME NEW n \in Nat, NEW w \in [1 .. n -> Nat]
  PROVE  \E g : IsSum(g, w, n)
<1> DEFINE T == {k \in Nat : k <= n => \E g : IsSum(g, w, k)}
<1>1. 0 \in T
  <2> DEFINE g == [i \in 0 .. 0 |-> 0]
  <2>1. g = [i \in 0 .. 0 |-> IF i = 0 THEN 0 ELSE g[i - 1] + w[i]]
    OBVIOUS
  <2>2. IsSum(g, w, 0)
    BY <2>1 DEF IsSum
  <2> QED BY <2>2
<1>2. ASSUME NEW k \in T PROVE k + 1 \in T
  <2> SUFFICES ASSUME k + 1 <= n PROVE \E g : IsSum(g, w, k + 1)
    OBVIOUS
  <2>1. k \in Nat
    OBVIOUS
  <2>2. PICK g : IsSum(g, w, k)
    BY <2>1
  <2> DEFINE h == [i \in 0 .. k + 1 |-> IF i = k + 1 THEN g[k] + w[k + 1] ELSE g[i]]
  <2>3. \A i \in 0 .. k : g[i] = IF i = 0 THEN 0 ELSE g[i - 1] + w[i]
    BY <2>2 DEF IsSum
  <2>4. \A i \in 0 .. k + 1 : h[i] = IF i = 0 THEN 0 ELSE h[i - 1] + w[i]
    BY <2>1, <2>3
  <2>5. h = [i \in 0 .. k + 1 |-> IF i = 0 THEN 0 ELSE h[i - 1] + w[i]]
    BY <2>4
  <2> HIDE DEF h
  <2> QED BY <2>5 DEF IsSum
<1>3. T \in SUBSET Nat
  OBVIOUS
<1> HIDE DEF T
<1>4. \A k \in Nat : k \in T
  BY <1>1, <1>2, <1>3, Climb
<1> QED BY <1>4 DEF T

LEMMA SumMoves ==
  ASSUME NEW n \in Nat, NEW m \in Nat, n <= m, NEW w, NEW v, NEW g, NEW h,
         Weights(w, n), Weights(v, m), IsSum(g, w, n), IsSum(h, v, m),
         NEW i \in 1 .. n, SameBut(v, w, n, i)
  PROVE  Moved(g, h, w, v, n, i)
<1> USE DEF Weights
<1>1. /\ g[0] = 0 /\ \A j \in 1 .. n : g[j] = g[j - 1] + w[j]
      /\ \A j \in 0 .. n : g[j] \in Nat
  BY SumParts
<1>2. /\ h[0] = 0 /\ \A j \in 1 .. m : h[j] = h[j - 1] + v[j]
      /\ \A j \in 0 .. m : h[j] \in Nat
  BY SumParts
<1> DEFINE T == {k \in Nat : k <= n => /\ k < i => h[k] = g[k]
                                       /\ k >= i => h[k] = g[k] + v[i] - w[i]}
<1>3. 0 \in T
  BY <1>1, <1>2
<1>4. ASSUME NEW k \in T PROVE k + 1 \in T
  <2> SUFFICES ASSUME k + 1 <= n
               PROVE  /\ k + 1 < i => h[k + 1] = g[k + 1]
                      /\ k + 1 >= i => h[k + 1] = g[k + 1] + v[i] - w[i]
    OBVIOUS
  <2>1. /\ k \in Nat
        /\ k < i => h[k] = g[k]
        /\ k >= i => h[k] = g[k] + v[i] - w[i]
    OBVIOUS
  <2> HIDE DEF T
  <2>2. k \in 0 .. n /\ k \in 0 .. m /\ k + 1 \in 1 .. n /\ k + 1 \in 1 .. m /\ (k + 1) - 1 = k
    BY <2>1
  <2>3. g[k + 1] = g[k] + w[k + 1] /\ h[k + 1] = h[k] + v[k + 1]
    BY <1>1, <1>2, <2>2
  <2>4. /\ g[k] \in Nat /\ h[k] \in Nat /\ w[k + 1] \in Nat /\ v[k + 1] \in Nat
        /\ w[i] \in Nat /\ v[i] \in Nat
    <3>1. i \in 1 .. m
      OBVIOUS
    <3> QED BY <1>1, <1>2, <2>2, <3>1
  <2>5. CASE k + 1 = i
    <3>1. v[k + 1] = v[i] /\ w[k + 1] = w[i] /\ k < i /\ ~ (k + 1 < i)
      BY <2>1, <2>5
    <3>2. h[k] = g[k]
      BY <2>1, <3>1
    <3>3. h[k + 1] = g[k + 1] + v[i] - w[i]
      BY <2>3, <2>4, <3>1, <3>2
    <3> QED BY <3>1, <3>3
  <2>6. CASE k + 1 # i
    <3>1. v[k + 1] = w[k + 1]
      BY <2>2, <2>6 DEF SameBut
    <3>2. CASE k + 1 < i
      <4>1. k < i /\ ~ (k + 1 >= i)
        BY <2>1, <3>2
      <4>2. h[k] = g[k]
        BY <2>1, <4>1
      <4> QED BY <2>3, <3>1, <4>1, <4>2
    <3>3. CASE ~ (k + 1 < i)
      <4>1. k >= i
        BY <2>1, <2>6, <3>3
      <4>2. h[k] = g[k] + v[i] - w[i]
        BY <2>1, <4>1
      <4>3. h[k + 1] = g[k + 1] + v[i] - w[i]
        BY <2>3, <2>4, <3>1, <4>2
      <4> QED BY <3>3, <4>3
    <3> QED BY <3>2, <3>3
  <2> QED BY <2>5, <2>6
<1>5. T \in SUBSET Nat
  OBVIOUS
<1> HIDE DEF T
<1>6. n \in T
  BY <1>3, <1>4, <1>5, Climb
<1> QED BY <1>6 DEF T, Moved

(* HandedOut is such a sum. *)
LEMMA HandedOutSum ==
  ASSUME NEW s \in Seq(Segment)
  PROVE  /\ Len(s) \in Nat /\ Weigh(s) \in [1 .. Len(s) -> Nat]
         /\ \E g : IsSum(g, Weigh(s), Len(s)) /\ HandedOut(s) = g[Len(s)]
         /\ HandedOut(s) \in Nat
<1> DEFINE w == Weigh(s)
           n == Len(s)
<1>1. n \in Nat /\ \A i \in 1 .. n : s[i] \in Segment
  BY ElementOfSeq, LenProperties
<1>2. w \in [1 .. n -> Nat] /\ \A i \in 1 .. n : w[i] = HeldBytes(s, i)
  BY <1>1 DEF Weigh, HeldBytes, Segment
<1> DEFINE upto == CHOOSE g : g = [i \in 0 .. n |-> IF i = 0 THEN 0 ELSE g[i - 1] + HeldBytes(s, i)]
<1>3. HandedOut(s) = upto[n]
  BY DEF HandedOut
<1> HIDE DEF w, n
<1>4. PICK g : IsSum(g, w, n)
  BY <1>1, <1>2, SumExists
<1>5. g = [i \in 0 .. n |-> IF i = 0 THEN 0 ELSE g[i - 1] + HeldBytes(s, i)]
  BY <1>1, <1>2, <1>4 DEF IsSum
<1>6. upto = [i \in 0 .. n |-> IF i = 0 THEN 0 ELSE upto[i - 1] + HeldBytes(s, i)]
  BY <1>5
<1> HIDE DEF upto
<1>7. IsSum(upto, w, n)
  BY <1>1, <1>2, <1>6 DEF IsSum
<1>8. n \in 0 .. n
  BY <1>1
<1>9. upto[n] \in Nat
  BY <1>1, <1>2, <1>7, <1>8, SumParts
<1> QED BY <1>1, <1>2, <1>3, <1>7, <1>9 DEF w, n

(* One segment changes, and at most a free one is added behind. *)
LEMMA HandedOutMoves ==
  ASSUME NEW s \in Seq(Segment), NEW r \in Seq(Segment), NEW i \in 1 .. Len(s),
         \/ Len(r) = Len(s)
         \/ Len(r) = Len(s) + 1 /\ HeldBytes(r, Len(s) + 1) = 0,
         \A j \in 1 .. Len(s) : j # i => HeldBytes(r, j) = HeldBytes(s, j)
  PROVE  HandedOut(r) = HandedOut(s) + HeldBytes(r, i) - HeldBytes(s, i)
<1> DEFINE n == Len(s)
           m == Len(r)
           w == Weigh(s)
           v == Weigh(r)
<1>1. /\ n \in Nat /\ w \in [1 .. n -> Nat] /\ m \in Nat /\ v \in [1 .. m -> Nat]
      /\ \E g : IsSum(g, w, n) /\ HandedOut(s) = g[n]
      /\ \E h : IsSum(h, v, m) /\ HandedOut(r) = h[m]
  BY HandedOutSum
<1>2. n <= m /\ i \in 1 .. n /\ i \in 1 .. m
  BY <1>1
<1>3. /\ \A j \in 1 .. n : w[j] = HeldBytes(s, j)
      /\ \A j \in 1 .. m : v[j] = HeldBytes(r, j)
  BY DEF Weigh
<1>4. SameBut(v, w, n, i)
  BY <1>1, <1>2, <1>3 DEF SameBut
<1>5. m = n \/ (m = n + 1 /\ v[n + 1] = 0)
  BY <1>1, <1>3
<1> HIDE DEF n, m, w, v
<1>6. PICK g : IsSum(g, w, n) /\ HandedOut(s) = g[n]
  BY <1>1
<1>7. PICK h : IsSum(h, v, m) /\ HandedOut(r) = h[m]
  BY <1>1
<1>8. h[n] = g[n] + v[i] - w[i]
  <2>1. n \in Nat /\ m \in Nat /\ w \in [1 .. n -> Nat] /\ v \in [1 .. m -> Nat]
    BY <1>1
  <2>2. IsSum(g, w, n) /\ IsSum(h, v, m)
    BY <1>6, <1>7
  <2>3. Weights(w, n) /\ Weights(v, m)
    BY <2>1 DEF Weights
  <2>4. Moved(g, h, w, v, n, i)
    BY <1>2, <1>4, <2>1, <2>2, <2>3, SumMoves
  <2> QED BY <2>4 DEF Moved
<1>9. h[m] = h[n]
  <2>1. CASE m = n + 1 /\ v[n + 1] = 0
    <3>1. /\ \A j \in 1 .. m : h[j] = h[j - 1] + v[j]
          /\ \A j \in 0 .. m : h[j] \in Nat
      BY <1>1, <1>7, SumParts
    <3>2. m \in 1 .. m /\ n \in 0 .. m /\ m - 1 = n /\ v[m] = 0
      BY <1>1, <2>1
    <3> QED BY <3>1, <3>2
  <2> QED BY <1>5, <2>1
<1> QED BY <1>2, <1>3, <1>6, <1>7, <1>8, <1>9

(* The level's count, and its table no longer than BUF_MAX_SEGMENTS. *)
LedgerInv == freeBytes \in Nat /\ FreeBytesExact /\ Len(segments) <= MaxSegments

LEMMA AllocLedger ==
  ASSUME LevelInv, LedgerInv, NEW n \in Nat, CanFit(n), NEW i \in FirstFit(n), Alloc(i, n)
  PROVE  LedgerInv'
<1> DEFINE taken == Taken(i, n)
           rest == Rest(i, n)
           s == segments
           r == segments'
<1>1. /\ s \in Seq(Segment) /\ Len(s) \in Nat /\ DOMAIN s = 1 .. Len(s)
      /\ \A j \in 1 .. Len(s) : s[j].base \in Nat /\ s[j].size \in Nat /\ s[j].held \in BOOLEAN
  BY SegmentAt DEF LevelInv
<1>2. i \in 1 .. Len(s) /\ ~ s[i].held /\ s[i].size >= n
  BY <1>1 DEF FirstFit, Fits
<1>3. /\ taken \in Seq(Segment) /\ Len(taken) = Len(s)
      /\ \A j \in 1 .. Len(s) : /\ taken[j].base = s[j].base
                                /\ taken[j].size = IF j = i THEN n ELSE s[j].size
                                /\ taken[j].held = (j = i \/ s[j].held)
  BY <1>1, <1>2, TakenLemma
<1>4. rest \in Segment /\ rest.held = FALSE
  BY <1>1, <1>2 DEF Rest, Segment
<1>5. r = (IF Splits(i, n) THEN Append(taken, rest) ELSE taken) /\ freeBytes' = freeBytes - n
  BY DEF Alloc
<1>6. Splits(i, n) => Len(s) < MaxSegments
  BY DEF Splits
<1>7. HeldBytes(s, i) = 0
  BY <1>2 DEF HeldBytes
<1> HIDE DEF taken, rest, s
<1>8. HeldBytes(taken, i) = n /\ \A j \in 1 .. Len(s) : j # i => HeldBytes(taken, j) = HeldBytes(s, j)
  BY <1>2, <1>3 DEF HeldBytes
<1>9. /\ r \in Seq(Segment) /\ \A j \in 1 .. Len(s) : r[j] = taken[j]
      /\ \/ Len(r) = Len(s)
         \/ Len(r) = Len(s) + 1 /\ HeldBytes(r, Len(s) + 1) = 0
      /\ Len(r) <= MaxSegments
  <2>1. CASE Splits(i, n)
    <3>1. r = Append(taken, rest)
      BY <1>5, <2>1
    <3>2. /\ r \in Seq(Segment) /\ Len(r) = Len(s) + 1 /\ r[Len(s) + 1] = rest
          /\ \A j \in 1 .. Len(s) : r[j] = taken[j]
      BY <1>3, <1>4, <3>1, AppendProperties
    <3>3. HeldBytes(r, Len(s) + 1) = 0
      BY <1>4, <3>2 DEF HeldBytes
    <3>4. Len(r) <= MaxSegments
      BY <1>1, <1>6, <2>1, <3>2, LevelAssumption
    <3> HIDE DEF r
    <3> QED BY <3>2, <3>3, <3>4
  <2>2. CASE ~ Splits(i, n)
    <3>1. r = taken
      BY <1>5, <2>2
    <3> QED BY <1>3, <3>1 DEF LedgerInv, s
  <2> QED BY <2>1, <2>2
<1> HIDE DEF r
<1>10. HeldBytes(r, i) = n /\ \A j \in 1 .. Len(s) : j # i => HeldBytes(r, j) = HeldBytes(s, j)
  BY <1>2, <1>8, <1>9 DEF HeldBytes
<1>11. HandedOut(r) = HandedOut(s) + HeldBytes(r, i) - HeldBytes(s, i)
  BY <1>1, <1>2, <1>9, <1>10, HandedOutMoves
<1>12. freeBytes \in Nat /\ freeBytes >= n /\ freeBytes = Total - HandedOut(s)
  BY DEF LedgerInv, FreeBytesExact, CanFit, s
<1>13. HandedOut(s) \in Nat
  BY <1>1, HandedOutSum
<1>14. freeBytes' \in Nat /\ freeBytes' = Total - HandedOut(r)
  BY <1>5, <1>7, <1>10, <1>11, <1>12, <1>13, LevelAssumption
<1> QED BY <1>9, <1>14 DEF LedgerInv, FreeBytesExact, r

LEMMA FreeLedger ==
  ASSUME LevelInv, LedgerInv, NEW i \in 1 .. Len(segments), segments[i].held, Free(i)
  PROVE  LedgerInv'
<1> DEFINE back == [segments[i] EXCEPT !.held = FALSE]
           s == segments
           r == segments'
<1>1. /\ s \in Seq(Segment) /\ Len(s) \in Nat
      /\ \A j \in 1 .. Len(s) : s[j].size \in Nat
  BY SegmentAt DEF LevelInv
<1>2. back \in Segment /\ back.held = FALSE
  BY <1>1, SegmentAt DEF Segment
<1>3. r = [s EXCEPT ![i] = back] /\ freeBytes' = freeBytes + s[i].size
  BY DEF Free
<1> HIDE DEF back
<1>4. /\ r \in Seq(Segment) /\ Len(r) = Len(s)
      /\ \A j \in 1 .. Len(s) : r[j] = IF j = i THEN back ELSE s[j]
  BY <1>1, <1>2, <1>3, ExceptSeq
<1>5. HeldBytes(s, i) = s[i].size /\ HeldBytes(r, i) = 0
  BY <1>2, <1>4 DEF HeldBytes
<1>6. \A j \in 1 .. Len(s) : j # i => HeldBytes(r, j) = HeldBytes(s, j)
  BY <1>4 DEF HeldBytes
<1> HIDE DEF s, r
<1>7. i \in 1 .. Len(s)
  BY DEF s
<1>8. HandedOut(r) = HandedOut(s) + HeldBytes(r, i) - HeldBytes(s, i)
  BY <1>1, <1>4, <1>6, <1>7, HandedOutMoves
<1>9. freeBytes \in Nat /\ freeBytes = Total - HandedOut(s) /\ Len(s) <= MaxSegments
  BY DEF LedgerInv, FreeBytesExact, s
<1>10. HandedOut(s) \in Nat
  BY <1>1, HandedOutSum
<1>11. freeBytes' \in Nat /\ freeBytes' = Total - HandedOut(r)
  BY <1>1, <1>3, <1>5, <1>7, <1>8, <1>9, <1>10, LevelAssumption
<1> QED BY <1>4, <1>9, <1>11 DEF LedgerInv, FreeBytesExact, r

LEMMA LedgerStep == MemoryInv /\ LedgerInv /\ [Next]_vars => LedgerInv'
<1> SUFFICES ASSUME MemoryInv, LedgerInv, [Next]_vars PROVE LedgerInv'
  OBVIOUS
<1>1. ASSUME UNCHANGED levelVars PROVE LedgerInv'
  BY <1>1 DEF LedgerInv, FreeBytesExact, levelVars
<1>2. ASSUME NEW t \in Transfers, Plain(t) PROVE LedgerInv'
  BY <1>1, <1>2 DEF Plain
<1>3. ASSUME NEW t \in Transfers, Release(t) PROVE LedgerInv'
  <2>1. dst[t] \in 1 .. Len(segments) /\ segments[dst[t]].held /\ Free(dst[t])
    BY <1>3 DEF Release, MemoryInv, OwnersInv
  <2> QED BY <2>1, FreeLedger DEF MemoryInv
<1>4. ASSUME NEW t \in Transfers, NEW n \in Sizes, Load(t, n) PROVE LedgerInv'
  <2>1. n \in Nat /\ CanFit(n)
    BY <1>4, SizesAssumption DEF Load
  <2>2. CASE \E i \in FirstFit(n) : Alloc(i, n) /\ dst' = Target(t, i)
    <3>1. PICK i \in FirstFit(n) : Alloc(i, n)
      BY <2>2
    <3> QED BY <2>1, <3>1, AllocLedger DEF MemoryInv
  <2>3. CASE UNCHANGED <<levelVars, dst>>
    BY <1>1, <2>3
  <2> QED BY <1>4, <2>2, <2>3 DEF Load
<1>5. CASE EngineStep
  BY <1>1, <1>5 DEF EngineStep
<1>6. CASE Reset
  BY <1>1, <1>6 DEF Reset
<1>7. CASE UNCHANGED vars
  BY <1>1, <1>7 DEF vars
<1> QED BY <1>2, <1>3, <1>4, <1>5, <1>6, <1>7 DEF Next

LEMMA LedgerInit == Init => LedgerInv
<1> SUFFICES ASSUME Init PROVE LedgerInv
  OBVIOUS
<1> DEFINE whole == [base |-> 0, size |-> Total, held |-> FALSE]
           s == <<whole>>
<1>1. whole \in Segment /\ whole.held = FALSE
  BY LevelAssumption DEF Segment
<1>2. segments = s /\ freeBytes = Total
  BY DEF Init, LevelInit
<1> HIDE DEF whole
<1>3. s \in Seq(Segment) /\ Len(s) = 1 /\ s[1] = whole
  BY <1>1
<1>4. HeldBytes(s, 1) = 0
  BY <1>1, <1>3 DEF HeldBytes
<1> HIDE DEF s
<1>5. HandedOut(s) = 0
  <2>1. PICK g : IsSum(g, Weigh(s), 1) /\ HandedOut(s) = g[1]
    BY <1>3, HandedOutSum
  <2>2. Weigh(s) \in [1 .. 1 -> Nat] /\ Weigh(s)[1] = 0
    BY <1>3, <1>4, HandedOutSum DEF Weigh
  <2>3. g[0] = 0 /\ \A i \in 1 .. 1 : g[i] = g[i - 1] + Weigh(s)[i]
    BY <2>1, <2>2, SumParts
  <2>4. g[1] = g[1 - 1] + Weigh(s)[1] /\ 1 - 1 = 0
    BY <2>3
  <2> QED BY <2>1, <2>2, <2>3, <2>4
<1> QED BY <1>2, <1>3, <1>5, LevelAssumption DEF LedgerInv, FreeBytesExact
-----------------------------------------------------------------------------
HierarchyInv == MemoryInv /\ PlaceInv /\ WaitInv /\ LedgerInv

(* Everything the engine and the level keep together, step by step.        *)
THEOREM HierarchyInvariant == Spec => []HierarchyInv
<1>1. Init => HierarchyInv
  BY MemoryInit, PlaceInit, WaitInit, LedgerInit DEF HierarchyInv
<1>2. HierarchyInv /\ [Next]_vars => HierarchyInv'
  BY MemoryStep, PlaceStep, WaitStep, LedgerStep DEF HierarchyInv
<1> QED BY <1>1, <1>2, PTL DEF Spec

(* buf_level_alloc and buf_level_free: segments are disjoint, loads hold   *)
(* different ones, and free_bytes is exactly what is not handed out.       *)
THEOREM MemoryIsSound == Spec => []MemorySound
<1>1. HierarchyInv => LoadsApart
  <2> SUFFICES ASSUME HierarchyInv, NEW t \in Transfers, NEW u \in Transfers,
                      t # u, dst[t] # 0, dst[u] # 0
               PROVE  Apart(dst[t], dst[u])
    BY DEF LoadsApart
  <2>1. dst[t] \in 1 .. Len(segments) /\ dst[u] \in 1 .. Len(segments) /\ dst[t] # dst[u]
    BY DEF HierarchyInv, MemoryInv, OwnersInv
  <2> QED BY <2>1 DEF HierarchyInv, MemoryInv, LevelInv, SegmentsDisjoint
<1>2. HierarchyInv => MemorySound
  BY <1>1 DEF HierarchyInv, MemoryInv, LevelInv, LedgerInv, MemorySound
<1> QED BY <1>2, HierarchyInvariant, PTL

(* dma_submit, dma_prefetch, dma_tick, dma_wait_all, dma_reset: a transfer *)
(* is in one place, active_transfers counts the busy channels at every     *)
(* point of a tick and in every callback, and a wait that had to wait      *)
(* leaves no prefetch queued.                                              *)
THEOREM DmaIsSound == Spec => DmaSound
<1>1. HierarchyInv => TypeOK
  <2> SUFFICES ASSUME HierarchyInv PROVE TypeOK
    OBVIOUS
  <2>1. LevelTypeOK
    BY DEF HierarchyInv, MemoryInv, LevelInv, LedgerInv, LevelTypeOK
  <2>2. active \in Nat
    BY ActiveType DEF HierarchyInv, MemoryInv
  <2>3. DmaTypeOK
    BY <2>2 DEF HierarchyInv, MemoryInv, EngineInv, PlaceInv, StatusInv, WaitInv, DmaTypeOK
  <2>4. Len(segments) \in Nat /\ Len(segments) <= MaxSegments
    BY LenProperties DEF HierarchyInv, MemoryInv, LevelInv, LedgerInv
  <2>5. dst \in [Transfers -> Nat] /\ \A t \in Transfers : dst[t] # 0 => dst[t] \in 1 .. Len(segments)
    BY DEF HierarchyInv, MemoryInv, OwnersInv
  <2>6. \A t \in Transfers : dst[t] \in 0 .. MaxSegments
    BY <2>4, <2>5, LevelAssumption
  <2>7. dst \in [Transfers -> 0 .. MaxSegments]
    BY <2>5, <2>6
  <2> QED BY <2>1, <2>3, <2>7 DEF TypeOK
<1>2. HierarchyInv => InOnePlace /\ ActiveAgrees
  BY PlaceCounts DEF HierarchyInv, MemoryInv, EngineInv
<1>3. HierarchyInv /\ [Next]_vars => [waiting = "ticked" /\ waiting' = "no" => queue = <<>>]_dmaVars
  BY WaitLeaves DEF HierarchyInv
<1> QED BY <1>1, <1>2, <1>3, HierarchyInvariant, PTL DEF Spec, DmaSound, PrefetchesDrained
-----------------------------------------------------------------------------
(* The systolic array.                                                       *)
Cell == [w : Int, x : Int, acc : Int, wv : BOOLEAN, xv : BOOLEAN]

(* The neighbours of an element, by row and column.                          *)
LEMMA CellPlaces ==
  ASSUME SystolicAssumption, NEW i \in Cells
  PROVE  /\ i \in Nat /\ Rows * Cols \in Nat /\ i < Rows * Cols
         /\ RowOf(i) \in 0 .. Rows - 1 /\ ColOf(i) \in 0 .. Cols - 1
         /\ i = RowOf(i) * Cols + ColOf(i)
<1>1. Rows \in Nat \ {0} /\ Cols \in Nat \ {0}
  BY DEF SystolicAssumption
<1>2. Rows * Cols \in Nat
  BY <1>1
<1>3. i \in Nat /\ i < Rows * Cols
  BY <1>2 DEF Cells
<1>4. RowOf(i) \in Nat /\ ColOf(i) \in 0 .. Cols - 1 /\ i = RowOf(i) * Cols + ColOf(i)
  BY <1>1, <1>3 DEF RowOf, ColOf
<1>5. RowOf(i) < Rows
  <2> SUFFICES ASSUME RowOf(i) >= Rows PROVE FALSE
    BY <1>1, <1>4
  <2>1. RowOf(i) * Cols >= Rows * Cols
    BY <1>1, <1>4
  <2> QED BY <1>1, <1>2, <1>3, <1>4, <2>1
<1> QED BY <1>1, <1>2, <1>3, <1>4, <1>5

LEMMA CellNeighbours ==
  ASSUME SystolicAssumption, NEW i \in Cells
  PROVE  /\ ColOf(i) + 1 < Cols => i + 1 \in Cells /\ ColOf(i + 1) = ColOf(i) + 1
         /\ RowOf(i) + 1 < Rows => i + Cols \in Cells /\ RowOf(i + Cols) = RowOf(i) + 1
         /\ ColOf(i) > 0 => i - 1 \in Cells /\ RowOf(i - 1) = RowOf(i) /\ ColOf(i - 1) + 1 = ColOf(i)
         /\ RowOf(i) > 0 => i - Cols \in Cells /\ RowOf(i - Cols) + 1 = RowOf(i)
<1>1. Rows \in Nat \ {0} /\ Cols \in Nat \ {0}
  BY DEF SystolicAssumption
<1>2. PICK r \in Nat, c \in Nat, n \in Nat : r = RowOf(i) /\ c = ColOf(i) /\ n = Rows * Cols
  BY <1>1, CellPlaces
<1>3. i \in Nat /\ i < n /\ i = r * Cols + c /\ c < Cols /\ r < Rows
  BY <1>1, <1>2, CellPlaces
<1>4. c + 1 < Cols => i + 1 \in Cells /\ ColOf(i + 1) = c + 1
  <2> SUFFICES ASSUME c + 1 < Cols PROVE i + 1 < n /\ ColOf(i + 1) = c + 1
    BY <1>2, <1>3 DEF Cells
  <2>1. (r + 1) * Cols <= n
    BY <1>1, <1>2, <1>3
  <2>2. (r + 1) * Cols = r * Cols + Cols
    BY <1>1
  <2>3. i + 1 < n
    BY <1>1, <1>2, <1>3, <2>1, <2>2
  <2>4. i % Cols = c
    BY <1>2 DEF ColOf
  <2>5. (i + 1) % Cols = c + 1
    BY <1>1, <1>3, <2>4
  <2> QED BY <2>3, <2>5 DEF ColOf
<1>5. r + 1 < Rows => i + Cols \in Cells /\ RowOf(i + Cols) = r + 1
  <2> SUFFICES ASSUME r + 1 < Rows PROVE i + Cols < n /\ RowOf(i + Cols) = r + 1
    BY <1>1, <1>2, <1>3 DEF Cells
  <2>1. (r + 2) * Cols <= n
    BY <1>1, <1>2, <1>3
  <2>2. (r + 2) * Cols = r * Cols + 2 * Cols
    BY <1>1
  <2>3. i + Cols = (r + 1) * Cols + c
    BY <1>1, <1>3
  <2>4. i + Cols \in Nat /\ r + 1 \in Nat
    BY <1>1, <1>3
  <2>5. (i + Cols) \div Cols = r + 1
    BY <1>1, <1>3, <2>3, <2>4
  <2>6. PICK a \in Nat : a = r * Cols
    BY <1>1, <1>2
  <2>7. i + Cols < n
    BY <1>1, <1>2, <1>3, <2>1, <2>2, <2>6
  <2> QED BY <2>5, <2>7 DEF RowOf
<1>6. c > 0 => i - 1 \in Cells /\ RowOf(i - 1) = r /\ ColOf(i - 1) + 1 = c
  <2> SUFFICES ASSUME c > 0 PROVE i - 1 \in Cells /\ RowOf(i - 1) = r /\ ColOf(i - 1) + 1 = c
    OBVIOUS
  <2>1. i - 1 \in Nat /\ i - 1 = r * Cols + (c - 1)
    BY <1>1, <1>3
  <2>2. i - 1 \in Cells
    BY <1>2, <1>3, <2>1 DEF Cells
  <2>3. (i - 1) \div Cols = r
    BY <1>1, <1>3, <2>1
  <2>4. (i - 1) % Cols = c - 1
    BY <1>1, <1>3, <2>1, <2>3
  <2> QED BY <1>3, <2>2, <2>3, <2>4 DEF RowOf, ColOf
<1>7. r > 0 => i - Cols \in Cells /\ RowOf(i - Cols) + 1 = r
  <2> SUFFICES ASSUME r > 0 PROVE i - Cols \in Cells /\ RowOf(i - Cols) = r - 1
    OBVIOUS
  <2>1. i - Cols = (r - 1) * Cols + c
    BY <1>1, <1>3
  <2>2. i - Cols \in Nat
    <3>1. (r - 1) * Cols \in Nat
      BY <1>1
    <3> QED BY <2>1, <3>1
  <2>3. i - Cols \in Cells
    BY <1>1, <1>2, <1>3, <2>2 DEF Cells
  <2>4. (i - Cols) \div Cols = r - 1
    BY <1>1, <1>3, <2>1, <2>2
  <2> QED BY <2>3, <2>4 DEF RowOf
<1> QED BY <1>2, <1>4, <1>5, <1>6, <1>7

-----------------------------------------------------------------------------
(* The scan, element by element.                                             *)
Visited(f, n) == IF n = 0 THEN [pe |-> pe, macs |-> 0] ELSE Visit(f[n - 1], Scan[n])

LEMMA ScanExists == \A k \in Nat : \E f : f = [n \in 0 .. k |-> Visited(f, n)]
<1> DEFINE T == {k \in Nat : \E f : f = [n \in 0 .. k |-> Visited(f, n)]}
<1>1. 0 \in T
  <2> DEFINE f == [n \in 0 .. 0 |-> [pe |-> pe, macs |-> 0]]
  <2>1. f = [n \in 0 .. 0 |-> Visited(f, n)]
    BY DEF Visited
  <2> QED BY <2>1
<1>2. ASSUME NEW k \in T PROVE k + 1 \in T
  <2>1. PICK g : g = [n \in 0 .. k |-> Visited(g, n)]
    OBVIOUS
  <2>2. k \in Nat
    OBVIOUS
  <2> DEFINE f == [n \in 0 .. k + 1 |-> IF n = k + 1 THEN Visited(g, k + 1) ELSE g[n]]
  <2>3. \A n \in 0 .. k : g[n] = Visited(g, n)
    BY <2>1, Zenon
  <2>4. ASSUME NEW n \in 0 .. k + 1 PROVE f[n] = Visited(f, n)
    <3>1. f[n] = Visited(g, n)
      <4>1. CASE n = k + 1
        BY <4>1
      <4>2. CASE n # k + 1
        <5>1. n \in 0 .. k
          BY <2>2, <4>2
        <5> QED BY <2>3, <4>2, <5>1
      <4> QED BY <4>1, <4>2
    <3>2. CASE n = 0
      BY <3>1, <3>2 DEF Visited
    <3>3. CASE n # 0
      <4>1. n - 1 \in 0 .. k + 1 /\ n - 1 # k + 1
        BY <2>2, <3>3
      <4>2. f[n - 1] = g[n - 1]
        BY <4>1
      <4> QED BY <3>1, <3>3, <4>2 DEF Visited
    <3> QED BY <3>2, <3>3
  <2>5. f = [n \in 0 .. k + 1 |-> Visited(f, n)]
    BY <2>4
  <2>6. \E h : h = [n \in 0 .. k + 1 |-> Visited(h, n)]
    BY <2>5
  <2> QED BY <2>2, <2>6
<1>3. T \in SUBSET Nat
  OBVIOUS
<1> HIDE DEF T
<1>4. \A k \in Nat : k \in T
  BY <1>1, <1>2, <1>3, Climb
<1> QED BY <1>4 DEF T

LEMMA ScanUnfolds ==
  ASSUME SystolicAssumption
  PROVE  \E f : /\ Stepped = f[Rows * Cols]
                /\ f[0] = [pe |-> pe, macs |-> 0]
                /\ \A n \in 1 .. Rows * Cols : f[n] = Visit(f[n - 1], n - 1)
<1> DEFINE g == CHOOSE h : h = [n \in 0 .. Rows * Cols |-> Visited(h, n)]
<1>1. Rows * Cols \in Nat
  BY DEF SystolicAssumption
<1>2. \E h : h = [n \in 0 .. Rows * Cols |-> Visited(h, n)]
  BY <1>1, ScanExists
<1>3. g = [n \in 0 .. Rows * Cols |-> Visited(g, n)]
  BY <1>2, Zenon
<1>4. Stepped = g[Rows * Cols]
  BY Zenon DEF Stepped, Visited
<1> HIDE DEF g
<1>5. \A n \in 0 .. Rows * Cols : g[n] = Visited(g, n)
  BY <1>3, Zenon
<1>6. g[0] = [pe |-> pe, macs |-> 0]
  BY <1>1, <1>5 DEF Visited
<1>7. ASSUME NEW n \in 1 .. Rows * Cols PROVE g[n] = Visit(g[n - 1], n - 1)
  <2>1. n \in 0 .. Rows * Cols /\ n # 0
    BY <1>1
  <2>2. Scan[n] = n - 1
    BY DEF Scan
  <2> QED BY <1>5, <2>1, <2>2 DEF Visited
<1> QED BY <1>4, <1>6, <1>7

(* What a neighbour has of an element that was visited.                      *)
SumOf(s, i) == s.pe[i].acc + s.pe[i].w * s.pe[i].x
Handing(s, i, j) ==
  LET q == s.pe[j] IN
  [w |-> IF j \in WeightTo(i) THEN s.pe[i].w ELSE q.w, wv |-> q.wv \/ j \in WeightTo(i),
   x |-> IF j \in InputTo(i) THEN s.pe[i].x ELSE q.x, xv |-> q.xv \/ j \in InputTo(i),
   acc |-> IF j \in SumTo(i) THEN q.acc + SumOf(s, i) ELSE q.acc]

Cells0(s) == DOMAIN s = {"pe", "macs"} /\ s.pe \in [Cells -> Cell] /\ s.macs \in Nat

LEMMA VisitGives ==
  ASSUME SystolicAssumption, NEW s, Cells0(s), NEW i \in Cells
  PROVE  /\ ~Ready(s.pe[i]) => Visit(s, i) = s
         /\ Ready(s.pe[i]) =>
              /\ DOMAIN Visit(s, i) = {"pe", "macs"} /\ Visit(s, i).macs = s.macs + 1
              /\ Visit(s, i).pe = [j \in Cells |-> Visit(s, i).pe[j]]
              /\ Visit(s, i).pe[i] = [s.pe[i] EXCEPT !.acc = SumOf(s, i)]
              /\ \A j \in Right(i) \cup Below(i) : j \in Cells /\ j > i /\ Visit(s, i).pe[j] = Handing(s, i, j)
              /\ \A j \in Cells : j # i /\ j \notin Right(i) \cup Below(i) => Visit(s, i).pe[j] = s.pe[j]
<1>1. ~Ready(s.pe[i]) => Visit(s, i) = s
  BY DEF Visit
<1> SUFFICES ASSUME Ready(s.pe[i])
             PROVE  /\ DOMAIN Visit(s, i) = {"pe", "macs"} /\ Visit(s, i).macs = s.macs + 1
                    /\ Visit(s, i).pe = [j \in Cells |-> Visit(s, i).pe[j]]
                    /\ Visit(s, i).pe[i] = [s.pe[i] EXCEPT !.acc = SumOf(s, i)]
                    /\ \A j \in Right(i) \cup Below(i) : j \in Cells /\ j > i /\ Visit(s, i).pe[j] = Handing(s, i, j)
                    /\ \A j \in Cells : j # i /\ j \notin Right(i) \cup Below(i) => Visit(s, i).pe[j] = s.pe[j]
  BY <1>1
<1> DEFINE sum == s.pe[i].acc + s.pe[i].w * s.pe[i].x
           Handed(q, j) ==
             [w |-> IF j \in WeightTo(i) THEN s.pe[i].w ELSE q.w, wv |-> q.wv \/ j \in WeightTo(i),
              x |-> IF j \in InputTo(i) THEN s.pe[i].x ELSE q.x, xv |-> q.xv \/ j \in InputTo(i),
              acc |-> IF j \in SumTo(i) THEN q.acc + sum ELSE q.acc]
           own == [s.pe EXCEPT ![i].acc = sum]
           east == IF Right(i) = {} THEN own ELSE [own EXCEPT ![i + 1] = Handed(own[i + 1], i + 1)]
           south == IF Below(i) = {} THEN east ELSE [east EXCEPT ![i + Cols] = Handed(east[i + Cols], i + Cols)]
<1>2. Visit(s, i) = [pe |-> south, macs |-> s.macs + 1]
  BY DEF Visit
<1>3. /\ i \in Nat /\ Cols \in Nat \ {0} /\ ColOf(i) \in 0 .. Cols - 1
      /\ Right(i) \subseteq {i + 1} /\ Below(i) \subseteq {i + Cols}
      /\ Right(i) # {} => i + 1 \in Cells /\ Cols > 1 /\ Right(i) = {i + 1}
      /\ Below(i) # {} => i + Cols \in Cells /\ Below(i) = {i + Cols}
  BY CellPlaces, CellNeighbours DEF Right, Below, SystolicAssumption
<1>4. s.pe \in [Cells -> Cell]
  BY DEF Cells0
<1>5. /\ DOMAIN own = Cells /\ DOMAIN east = Cells /\ DOMAIN south = Cells
      /\ south = [j \in Cells |-> south[j]]
  <2>1. DOMAIN own = Cells /\ own = [j \in Cells |-> own[j]]
    BY <1>4
  <2> HIDE DEF own
  <2>2. DOMAIN east = Cells /\ east = [j \in Cells |-> east[j]]
    BY <2>1
  <2> HIDE DEF east
  <2> QED BY <2>1, <2>2
<1>6. own[i] = [s.pe[i] EXCEPT !.acc = sum] /\ \A j \in Cells : j # i => own[j] = s.pe[j]
  BY <1>4
<1> HIDE DEF own, Handed
<1>7. \A j \in Cells : j \notin Right(i) => east[j] = own[j]
  BY <1>3, <1>5
<1>8. ASSUME NEW j \in Right(i) PROVE east[j] = Handed(s.pe[j], j)
  <2>1. Right(i) # {} /\ j = i + 1 /\ j \in Cells /\ j # i
    BY <1>3
  <2>2. own[j] = s.pe[j]
    BY <1>6, <2>1, Zenon
  <2>3. east = [own EXCEPT ![j] = Handed(own[j], j)]
    BY <2>1, Zenon DEF east
  <2>4. east[j] = Handed(own[j], j)
    BY <1>5, <2>1, <2>3
  <2> QED BY <2>2, <2>4, Zenon
<1> HIDE DEF east
<1>9. \A j \in Cells : j \notin Below(i) => south[j] = east[j]
  BY <1>3, <1>5
<1>10. \A j \in Below(i) : j \notin Right(i) /\ j # i /\ j \in Cells
  BY <1>3
<1>11. \A j \in Below(i) : south[j] = Handed(s.pe[j], j)
  BY <1>3, <1>5, <1>6, <1>7, <1>10
<1> HIDE DEF south
<1>12. \A j \in Right(i) : j # i /\ j \in Cells /\ j \notin Below(i)
  BY <1>3
<1>13. \A j : Handed(s.pe[j], j) = Handing(s, i, j)
  BY DEF Handed, Handing, SumOf
<1>14. \A j \in Right(i) \cup Below(i) : j \in Cells /\ j > i /\ south[j] = Handing(s, i, j)
  BY <1>3, <1>8, <1>9, <1>10, <1>11, <1>12, <1>13
<1>15. i \notin Right(i) /\ i \notin Below(i)
  BY <1>10, <1>12
<1>16. south[i] = [s.pe[i] EXCEPT !.acc = SumOf(s, i)]
  BY <1>6, <1>7, <1>9, <1>15 DEF SumOf
<1> QED BY <1>2, <1>5, <1>6, <1>7, <1>9, <1>14, <1>16

(* Of the elements visited those that are ready have multiplied, and what a   *)
(* later visit hands on does not reach them.                                 *)
Counted(s, n) == s.macs = Cardinality({j \in Cells : j < n /\ Ready(s.pe[j])})

LEMMA VisitTypes ==
  ASSUME SystolicAssumption, NEW s, Cells0(s), NEW i \in Cells
  PROVE  Cells0(Visit(s, i))
<1>1. CASE ~Ready(s.pe[i])
  BY <1>1, VisitGives
<1>2. CASE Ready(s.pe[i])
  <2> DEFINE t == Visit(s, i)
  <2>1. /\ DOMAIN t = {"pe", "macs"} /\ t.macs = s.macs + 1 /\ t.pe = [j \in Cells |-> t.pe[j]]
        /\ t.pe[i] = [s.pe[i] EXCEPT !.acc = SumOf(s, i)]
        /\ \A j \in Right(i) \cup Below(i) : j \in Cells /\ j > i /\ t.pe[j] = Handing(s, i, j)
        /\ \A j \in Cells : j # i /\ j \notin Right(i) \cup Below(i) => t.pe[j] = s.pe[j]
    BY <1>2, VisitGives
  <2>2. s.macs \in Nat /\ s.pe \in [Cells -> Cell]
    BY DEF Cells0
  <2>3. SumOf(s, i) \in Int
    <3>1. s.pe[i].acc \in Int /\ s.pe[i].w \in Int /\ s.pe[i].x \in Int
      BY <2>2 DEF Cell
    <3> QED BY <3>1 DEF SumOf
  <2> HIDE DEF t
  <2>4. t.pe[i] \in Cell
    <3>1. PICK v \in Int : v = SumOf(s, i)
      BY <2>3
    <3> QED BY <2>1, <2>2, <3>1 DEF Cell
  <2>5. ASSUME NEW j \in Right(i) \cup Below(i) PROVE Handing(s, i, j) \in Cell
    <3>1. PICK p \in Cell, q \in Cell, v \in Int : p = s.pe[i] /\ q = s.pe[j] /\ v = SumOf(s, i)
      BY <2>1, <2>2, <2>3
    <3>2. /\ p.w \in Int /\ p.x \in Int /\ q.w \in Int /\ q.x \in Int /\ q.acc \in Int
          /\ q.wv \in BOOLEAN /\ q.xv \in BOOLEAN
      BY DEF Cell
    <3>3. Handing(s, i, j) =
            [w |-> IF j \in WeightTo(i) THEN p.w ELSE q.w, wv |-> q.wv \/ j \in WeightTo(i),
             x |-> IF j \in InputTo(i) THEN p.x ELSE q.x, xv |-> q.xv \/ j \in InputTo(i),
             acc |-> IF j \in SumTo(i) THEN q.acc + v ELSE q.acc]
      BY <3>1 DEF Handing
    <3>4. (q.wv \/ j \in WeightTo(i)) \in BOOLEAN /\ (q.xv \/ j \in InputTo(i)) \in BOOLEAN
      OBVIOUS
    <3>5. q.acc + v \in Int
      BY <3>2
    <3> QED BY <3>2, <3>3, <3>4, <3>5 DEF Cell
  <2>6. \A j \in Cells : t.pe[j] \in Cell
    BY <2>1, <2>2, <2>4, <2>5
  <2>7. t.pe \in [Cells -> Cell]
    <3>1. PICK g : g = t.pe
      OBVIOUS
    <3>2. g = [j \in Cells |-> g[j]]
      BY <2>1, <3>1
    <3> QED BY <2>6, <3>1, <3>2
  <2>8. Cells0(t)
    BY <2>1, <2>2, <2>7 DEF Cells0
  <2> QED BY <2>8 DEF t
<1> QED BY <1>1, <1>2

LEMMA VisitCounts ==
  ASSUME SystolicAssumption, NEW s, Cells0(s), NEW i \in Cells, Counted(s, i)
  PROVE  Counted(Visit(s, i), i + 1)
<1> DEFINE t == Visit(s, i)
           before == {j \in Cells : j < i /\ Ready(s.pe[j])}
           after == {j \in Cells : j < i + 1 /\ Ready(t.pe[j])}
<1>1. i \in Nat /\ IsFiniteSet(Cells) /\ \A j \in Cells : j \in Nat
  <2>1. Rows * Cols \in Nat
    BY CellPlaces
  <2>2. IsFiniteSet(0 .. Rows * Cols - 1)
    BY <2>1, FS_Interval
  <2> QED BY <2>1, <2>2 DEF Cells
<1>2. IsFiniteSet(before)
  BY <1>1, FS_Subset
<1>3. s.macs = Cardinality(before)
  BY DEF Counted
<1>4. CASE ~Ready(s.pe[i])
  <2>1. t = s
    BY <1>4, VisitGives
  <2> HIDE DEF t
  <2>2. after = before
    <3>1. \A j \in Cells : j < i + 1 <=> j < i \/ j = i
      BY <1>1
    <3>2. \A j \in Cells : Ready(t.pe[j]) <=> Ready(s.pe[j])
      BY <2>1
    <3> QED BY <1>4, <3>1, <3>2
  <2>3. t.macs = Cardinality(after)
    BY <1>3, <2>1, <2>2
  <2> QED BY <2>3 DEF Counted, t
<1>5. CASE Ready(s.pe[i])
  <2>1. /\ t.macs = s.macs + 1
        /\ t.pe[i] = [s.pe[i] EXCEPT !.acc = SumOf(s, i)]
        /\ \A j \in Right(i) \cup Below(i) : j > i
        /\ \A j \in Cells : j # i /\ j \notin Right(i) \cup Below(i) => t.pe[j] = s.pe[j]
    BY <1>5, VisitGives
  <2>2. Ready(t.pe[i])
    <3>1. s.pe[i] \in Cell
      BY DEF Cells0
    <3>2. t.pe[i].wv = s.pe[i].wv /\ t.pe[i].xv = s.pe[i].xv
      BY <2>1, <3>1 DEF Cell
    <3> QED BY <1>5, <3>2 DEF Ready
  <2>3. \A j \in Cells : j < i => t.pe[j] = s.pe[j]
    BY <1>1, <2>1
  <2>4. \A j \in Cells : j < i + 1 <=> j < i \/ j = i
    BY <1>1
  <2> HIDE DEF t
  <2>5. after = before \cup {i}
    BY <1>1, <2>2, <2>3, <2>4
  <2>6. i \notin before
    BY <1>1
  <2> HIDE DEF before, after
  <2>7. Cardinality(after) = Cardinality(before) + 1
    BY <1>2, <2>5, <2>6, FS_AddElement
  <2>8. t.macs = Cardinality(after)
    BY <1>3, <2>1, <2>7
  <2> QED BY <2>8 DEF Counted, t, after
<1> QED BY <1>4, <1>5

(* At the end of the scan, whatever was handed on.                           *)
LEMMA ScanCounts ==
  ASSUME SystolicAssumption, pe \in [Cells -> Cell]
  PROVE  Cells0(Stepped) /\ OneProductEach(Stepped)
<1>1. PICK f : /\ Stepped = f[Rows * Cols] /\ f[0] = [pe |-> pe, macs |-> 0]
               /\ \A n \in 1 .. Rows * Cols : f[n] = Visit(f[n - 1], n - 1)
  BY ScanUnfolds
<1>2. Rows * Cols \in Nat
  BY DEF SystolicAssumption
<1> DEFINE T == {n \in Nat : n <= Rows * Cols => Cells0(f[n]) /\ Counted(f[n], n)}
<1>3. 0 \in T
  <2>1. Cells0(f[0])
    BY <1>1 DEF Cells0
  <2>2. {j \in Cells : j < 0 /\ Ready(f[0].pe[j])} = {}
    BY <1>2 DEF Cells
  <2>3. Counted(f[0], 0)
    BY <1>1, <2>2, FS_EmptySet DEF Counted
  <2> QED BY <2>1, <2>3
<1>4. ASSUME NEW n \in T PROVE n + 1 \in T
  <2> SUFFICES ASSUME n + 1 <= Rows * Cols PROVE Cells0(f[n + 1]) /\ Counted(f[n + 1], n + 1)
    OBVIOUS
  <2>1. n \in Nat /\ n \in Cells /\ n + 1 \in 1 .. Rows * Cols /\ (n + 1) - 1 = n
    BY <1>2 DEF Cells
  <2>2. f[n + 1] = Visit(f[n], n)
    BY <1>1, <2>1
  <2>3. Cells0(f[n]) /\ Counted(f[n], n)
    BY <1>2, <2>1
  <2> QED BY <2>1, <2>2, <2>3, VisitTypes, VisitCounts
<1>5. T \in SUBSET Nat
  OBVIOUS
<1> HIDE DEF T
<1>6. Rows * Cols \in T
  BY <1>2, <1>3, <1>4, <1>5, Climb
<1>7. Cells0(Stepped) /\ Counted(Stepped, Rows * Cols)
  BY <1>1, <1>2, <1>6 DEF T
<1>8. {j \in Cells : j < Rows * Cols /\ Ready(Stepped.pe[j])} = {j \in Cells : Ready(Stepped.pe[j])}
  BY <1>2 DEF Cells
<1> QED BY <1>7, <1>8 DEF Counted, OneProductEach

-----------------------------------------------------------------------------
(* Weight-stationary: the input of an element's row.                         *)
Fed(i) == {j \in Cells : RowOf(j) = RowOf(i) /\ j <= i /\ pe[j].xv /\ \A h \in j .. i : pe[h].wv}

LEMMA FirstIs ==
  ASSUME SystolicAssumption, NEW i \in Cells
  PROVE  /\ Fed(i) = {} => First(i) = -1
         /\ Fed(i) # {} => First(i) \in Fed(i) /\ \A h \in Fed(i) : First(i) <= h
<1>1. First(i) = IF Fed(i) = {} THEN -1 ELSE CHOOSE j \in Fed(i) : \A h \in Fed(i) : j <= h
  BY Zenon DEF First, Fed
<1>2. Fed(i) \in SUBSET Nat
  BY CellPlaces DEF Fed
<1>3. Fed(i) # {} => \E j \in Fed(i) : \A h \in Fed(i) : j <= h
  BY <1>2, LeastElement
<1> QED BY <1>1, <1>3

(* An element takes its row's input from its neighbour, or, where none comes, *)
(* starts with its own.                                                      *)
LEMMA FirstMoves ==
  ASSUME SystolicAssumption, NEW i \in Cells
  PROVE  /\ First(i) \in Cells \cup {-1}
         /\ First(i) # -1 => First(i) \in Nat
         /\ ~pe[i].wv => First(i) = -1
         /\ pe[i].wv /\ ColOf(i) > 0 /\ First(i - 1) # -1 => First(i) = First(i - 1)
         /\ pe[i].wv /\ ~(ColOf(i) > 0 /\ First(i - 1) # -1) => First(i) = IF pe[i].xv THEN i ELSE -1
<1>1. i \in Nat /\ Fed(i) \subseteq Cells /\ \A j \in Cells : j \in Nat
  BY CellPlaces DEF Fed
<1>2. First(i) \in Cells \cup {-1} /\ (First(i) # -1 => First(i) \in Nat)
  BY <1>1, FirstIs
<1>3. ASSUME ~pe[i].wv PROVE First(i) = -1
  <2>1. \A j \in Fed(i) : j \in Nat /\ j <= i /\ i \in j .. i
    BY <1>1 DEF Fed
  <2>2. Fed(i) = {}
    BY <1>3, <2>1 DEF Fed
  <2> QED BY <2>2, FirstIs
<1>4. ASSUME ColOf(i) > 0, pe[i].wv
      PROVE  Fed(i) = Fed(i - 1) \cup (IF pe[i].xv THEN {i} ELSE {})
  <2>1. i - 1 \in Cells /\ RowOf(i - 1) = RowOf(i)
    BY <1>4, CellNeighbours
  <2>2. \A j \in Cells : (j <= i <=> j <= i - 1 \/ j = i) /\ (j <= i - 1 => j .. i = (j .. i - 1) \cup {i})
    BY <1>1
  <2>3. i .. i = {i}
    BY <1>1
  <2>4. ASSUME NEW j \in Cells PROVE j \in Fed(i) <=> j \in Fed(i - 1) \cup (IF pe[i].xv THEN {i} ELSE {})
    <3>1. CASE j = i
      <4>1. j \notin Fed(i - 1)
        BY <1>1, <3>1 DEF Fed
      <4>2. j \in Fed(i) <=> pe[i].xv
        BY <1>1, <1>4, <2>3, <3>1 DEF Fed
      <4> QED BY <3>1, <4>1, <4>2
    <3>2. CASE j # i
      BY <1>4, <2>1, <2>2, <3>2 DEF Fed
    <3> QED BY <3>1, <3>2
  <2>5. Fed(i) \subseteq Cells /\ Fed(i - 1) \subseteq Cells
    BY DEF Fed
  <2> QED BY <2>4, <2>5
<1>5. ASSUME pe[i].wv, ColOf(i) > 0, First(i - 1) # -1 PROVE First(i) = First(i - 1)
  <2>1. i - 1 \in Cells
    BY <1>5, CellNeighbours
  <2>2. /\ Fed(i - 1) # {} /\ First(i - 1) \in Fed(i - 1) /\ \A h \in Fed(i - 1) : First(i - 1) <= h
    BY <1>5, <2>1, FirstIs
  <2>3. First(i - 1) \in Fed(i) /\ Fed(i) # {}
    BY <1>4, <1>5, <2>2
  <2>4. First(i) \in Fed(i) /\ \A h \in Fed(i) : First(i) <= h
    BY <2>3, FirstIs
  <2>5. First(i - 1) \in Nat /\ First(i) \in Nat /\ First(i - 1) <= i - 1
    BY <1>1, <2>2, <2>3, <2>4 DEF Fed
  <2>6. First(i) <= First(i - 1)
    BY <2>3, <2>4
  <2>7. First(i) # i
    BY <1>1, <2>5, <2>6
  <2>8. First(i) \in Fed(i - 1)
    BY <1>4, <1>5, <2>4, <2>7
  <2>9. First(i - 1) <= First(i)
    BY <2>2, <2>8
  <2> QED BY <2>5, <2>6, <2>9
<1>6. ASSUME pe[i].wv, ~(ColOf(i) > 0 /\ First(i - 1) # -1)
      PROVE  First(i) = IF pe[i].xv THEN i ELSE -1
  <2>1. Fed(i) = IF pe[i].xv THEN {i} ELSE {}
    <3>1. CASE ColOf(i) > 0
      <4>1. i - 1 \in Cells
        BY <3>1, CellNeighbours
      <4>2. Fed(i - 1) = {}
        <5> SUFFICES ASSUME Fed(i - 1) # {} PROVE FALSE
          OBVIOUS
        <5>1. First(i - 1) \in Fed(i - 1)
          BY <4>1, FirstIs
        <5>2. First(i - 1) \in Nat
          BY <1>1, <5>1 DEF Fed
        <5> QED BY <1>6, <3>1, <5>2
      <4> QED BY <1>4, <1>6, <3>1, <4>2
    <3>2. CASE ~(ColOf(i) > 0)
      <4>1. ASSUME NEW j \in Cells, RowOf(j) = RowOf(i), j <= i PROVE j = i
        <5>1. PICK a : a = RowOf(i) * Cols
          OBVIOUS
        <5>2. i = a + ColOf(i) /\ j = a + ColOf(j) /\ ColOf(i) = 0 /\ ColOf(j) \in Nat /\ i \in Nat /\ j \in Nat
          BY <3>2, <4>1, <5>1, CellPlaces DEF SystolicAssumption
        <5>3. a \in Int
          BY <5>1, CellPlaces DEF SystolicAssumption
        <5> QED BY <4>1, <5>2, <5>3
      <4>2. i .. i = {i} /\ i <= i
        BY <1>1
      <4>3. i \in Fed(i) <=> pe[i].xv
        BY <1>6, <4>2 DEF Fed
      <4>4. \A j \in Fed(i) : j = i
        BY <4>1 DEF Fed
      <4> QED BY <4>3, <4>4
    <3> QED BY <3>1, <3>2
  <2> QED BY <2>1, FirstIs
<1> QED BY <1>2, <1>3, <1>5, <1>6

(* How far the scan has come with inputs and sums once n elements are done.  *)
Rowwise(s, n) ==
  \A i \in Cells :
    /\ s.pe[i].w = pe[i].w /\ s.pe[i].wv = pe[i].wv
    /\ i < n =>
         /\ Ready(s.pe[i]) <=> First(i) # -1
         /\ s.pe[i].acc = pe[i].acc + Above(s, i) + Own(i)
    /\ i >= n =>
         /\ s.pe[i].acc = pe[i].acc + (IF i - Cols < n THEN Above(s, i) ELSE 0)
         /\ IF i = n /\ ColOf(i) > 0 /\ First(i - 1) # -1
            THEN s.pe[i].xv /\ s.pe[i].x = pe[First(i - 1)].x
            ELSE s.pe[i].xv = pe[i].xv /\ s.pe[i].x = pe[i].x

LEMMA OwnIs ==
  ASSUME SystolicAssumption, NEW s, Cells0(s), pe \in [Cells -> Cell], NEW i \in Cells
  PROVE  /\ First(i) = -1 => Own(i) = 0
         /\ First(i) # -1 => Own(i) = pe[i].w * pe[First(i)].x
         /\ Own(i) \in Int /\ Above(s, i) \in Int
         /\ RowOf(i) > 0 => Above(s, i) = IF First(i - Cols) = -1 THEN 0 ELSE s.pe[i - Cols].acc
         /\ ~(RowOf(i) > 0) => Above(s, i) = 0
<1>1. First(i) \in Cells \cup {-1} /\ (First(i) # -1 => First(i) \in Nat)
  BY FirstMoves
<1>2. First(i) < 0 <=> First(i) = -1
  BY <1>1
<1>3. /\ First(i) = -1 => Own(i) = 0
      /\ First(i) # -1 => Own(i) = pe[i].w * pe[First(i)].x
  BY <1>2 DEF Own
<1>4. First(i) # -1 => pe[i].w * pe[First(i)].x \in Int
  <2> SUFFICES ASSUME First(i) # -1 PROVE pe[i].w * pe[First(i)].x \in Int
    OBVIOUS
  <2>1. pe[i].w \in Int /\ pe[First(i)].x \in Int
    BY <1>1 DEF Cell
  <2> QED BY <2>1
<1>5. RowOf(i) \in Nat
  BY CellPlaces DEF SystolicAssumption
<1>6. CASE RowOf(i) > 0
  <2>1. i - Cols \in Cells
    BY <1>6, CellNeighbours
  <2>2. First(i - Cols) < 0 <=> First(i - Cols) = -1
    BY <2>1, FirstMoves
  <2>3. Above(s, i) = IF First(i - Cols) = -1 THEN 0 ELSE s.pe[i - Cols].acc
    BY <1>6, <1>5, <2>2 DEF Above
  <2>4. s.pe[i - Cols].acc \in Int
    BY <2>1 DEF Cells0, Cell
  <2> QED BY <1>3, <1>4, <1>6, <2>3, <2>4
<1>7. CASE ~(RowOf(i) > 0)
  <2>1. Above(s, i) = 0
    BY <1>5, <1>7 DEF Above
  <2> QED BY <1>3, <1>4, <1>7, <2>1
<1> QED BY <1>6, <1>7

(* The visit of an element finds its row's input and its column's sum.       *)
LEMMA VisitFinds ==
  ASSUME SystolicAssumption, pe \in [Cells -> Cell], NEW s, Cells0(s), NEW n \in Cells, Rowwise(s, n)
  PROVE  /\ Ready(s.pe[n]) <=> First(n) # -1
         /\ First(n) # -1 => s.pe[n].x = pe[First(n)].x
         /\ s.pe[n].acc = pe[n].acc + Above(s, n)
         /\ First(n) # -1 => SumOf(s, n) = pe[n].acc + Above(s, n) + Own(n)
<1>1. n \in Nat /\ Cols \in Nat \ {0} /\ n - Cols < n /\ n >= n
  BY CellPlaces DEF SystolicAssumption
<1>2. /\ s.pe[n].w = pe[n].w /\ s.pe[n].wv = pe[n].wv
      /\ s.pe[n].acc = pe[n].acc + Above(s, n)
      /\ IF ColOf(n) > 0 /\ First(n - 1) # -1
         THEN s.pe[n].xv /\ s.pe[n].x = pe[First(n - 1)].x
         ELSE s.pe[n].xv = pe[n].xv /\ s.pe[n].x = pe[n].x
  BY <1>1 DEF Rowwise
<1>3. n # -1
  BY <1>1
<1>4. (Ready(s.pe[n]) <=> First(n) # -1) /\ (First(n) # -1 => s.pe[n].x = pe[First(n)].x)
  <2>1. CASE ~pe[n].wv
    BY <1>2, <2>1, FirstMoves DEF Ready
  <2>2. CASE pe[n].wv /\ ColOf(n) > 0 /\ First(n - 1) # -1
    BY <1>2, <2>2, FirstMoves DEF Ready
  <2>3. CASE pe[n].wv /\ ~(ColOf(n) > 0 /\ First(n - 1) # -1)
    <3>1. First(n) = IF pe[n].xv THEN n ELSE -1
      BY <2>3, FirstMoves
    <3> QED BY <1>2, <1>3, <2>3, <3>1 DEF Ready
  <2> QED BY <2>1, <2>2, <2>3
<1>5. First(n) # -1 => SumOf(s, n) = pe[n].acc + Above(s, n) + Own(n)
  <2> SUFFICES ASSUME First(n) # -1 PROVE SumOf(s, n) = pe[n].acc + Above(s, n) + Own(n)
    OBVIOUS
  <2>1. Own(n) = s.pe[n].w * s.pe[n].x
    BY <1>2, <1>4, OwnIs
  <2> QED BY <1>2, <2>1 DEF SumOf
<1> QED BY <1>2, <1>4, <1>5

LEMMA VisitRows ==
  ASSUME SystolicAssumption, flow = "WS", pe \in [Cells -> Cell],
         NEW s, Cells0(s), NEW n \in Cells, Rowwise(s, n)
  PROVE  Rowwise(Visit(s, n), n + 1)
<1>1. n \in Nat /\ Cols \in Nat \ {0} /\ \A i \in Cells : i \in Nat
  BY CellPlaces DEF SystolicAssumption
<1>2. /\ Ready(s.pe[n]) <=> First(n) # -1
      /\ First(n) # -1 => s.pe[n].x = pe[First(n)].x
      /\ s.pe[n].acc = pe[n].acc + Above(s, n)
      /\ First(n) # -1 => SumOf(s, n) = pe[n].acc + Above(s, n) + Own(n)
  BY VisitFinds
<1>3. \A i \in Cells : Above(s, i) \in Int /\ Own(i) \in Int /\ s.pe[i].acc \in Int /\ pe[i].acc \in Int
  BY OwnIs DEF Cells0, Cell
<1>4. ASSUME NEW i \in Cells
      PROVE  /\ i < n + 1 <=> i < n \/ i = n
             /\ i >= n + 1 <=> i > n
             /\ i - Cols < n + 1 <=> i - Cols < n \/ i = n + Cols
             /\ i = n + 1 => (ColOf(i) > 0 <=> ColOf(n) + 1 < Cols)
             /\ i = n + Cols => i > n /\ i - Cols = n /\ RowOf(i) > 0 /\ ~(i - Cols < n)
  <2>1. i \in Nat
    BY <1>1
  <2>2. i = n + 1 => (ColOf(i) > 0 <=> ColOf(n) + 1 < Cols)
    <3> SUFFICES ASSUME i = n + 1 PROVE ColOf(i) > 0 <=> ColOf(n) + 1 < Cols
      OBVIOUS
    <3>1. ColOf(n) \in Nat /\ ColOf(i) \in Nat /\ ColOf(i) < Cols /\ i - 1 = n
      BY <1>1, CellPlaces
    <3>2. ColOf(i) > 0 => ColOf(n) + 1 = ColOf(i)
      BY <3>1, CellNeighbours
    <3>3. ColOf(n) + 1 < Cols => ColOf(i) = ColOf(n) + 1
      BY CellNeighbours
    <3> QED BY <1>1, <3>1, <3>2, <3>3
  <2>3. i = n + Cols => RowOf(i) > 0
    <3> SUFFICES ASSUME i = n + Cols PROVE RowOf(i) > 0
      OBVIOUS
    <3>1. RowOf(i) \in Nat /\ ColOf(i) \in 0 .. Cols - 1 /\ i = RowOf(i) * Cols + ColOf(i)
      BY CellPlaces DEF SystolicAssumption
    <3>2. RowOf(i) = 0 => i < Cols
      BY <1>1, <3>1
    <3> QED BY <1>1, <3>1, <3>2
  <2> QED BY <1>1, <2>1, <2>2, <2>3
<1>7. ASSUME NEW i \in Cells
      PROVE  /\ i < n => /\ Ready(s.pe[i]) <=> First(i) # -1
                         /\ s.pe[i].acc = pe[i].acc + Above(s, i) + Own(i)
                         /\ i - Cols < n
             /\ i > n => /\ s.pe[i].acc = pe[i].acc + (IF i - Cols < n THEN Above(s, i) ELSE 0)
                         /\ s.pe[i].xv = pe[i].xv /\ s.pe[i].x = pe[i].x
             /\ i < n \/ i = n \/ i > n
             /\ i < n \/ i = n => ~(i >= n + 1)
             /\ i > n => ~(i < n + 1)
  <2>1. i \in Nat
    BY <1>1
  <2>2. /\ i > n => i >= n /\ ~(i = n)
        /\ i < n => i - Cols < n
        /\ i < n \/ i = n \/ i > n
        /\ i < n \/ i = n => ~(i >= n + 1)
        /\ i > n => ~(i < n + 1)
    BY <1>1, <2>1
  <2>3. i < n => /\ Ready(s.pe[i]) <=> First(i) # -1
                 /\ s.pe[i].acc = pe[i].acc + Above(s, i) + Own(i)
    BY DEF Rowwise
  <2>4. i > n => /\ s.pe[i].acc = pe[i].acc + (IF i - Cols < n THEN Above(s, i) ELSE 0)
                 /\ s.pe[i].xv = pe[i].xv /\ s.pe[i].x = pe[i].x
    BY <2>2 DEF Rowwise
  <2> QED BY <2>2, <2>3, <2>4
<1>5. CASE ~Ready(s.pe[n])
  <2>1. Visit(s, n) = s /\ First(n) = -1 /\ Own(n) = 0
    BY <1>2, <1>5, VisitGives, OwnIs
  <2>2. ASSUME NEW i \in Cells, i = n + Cols PROVE Above(s, i) = 0
    <3>1. RowOf(i) > 0 /\ i - Cols = n
      BY <1>4, <2>2
    <3> QED BY <2>1, <3>1, OwnIs
  <2>3. ASSUME NEW i \in Cells
        PROVE  /\ s.pe[i].w = pe[i].w /\ s.pe[i].wv = pe[i].wv
               /\ i < n + 1 =>
                    /\ Ready(s.pe[i]) <=> First(i) # -1
                    /\ s.pe[i].acc = pe[i].acc + Above(s, i) + Own(i)
               /\ i >= n + 1 =>
                    /\ s.pe[i].acc = pe[i].acc + (IF i - Cols < n + 1 THEN Above(s, i) ELSE 0)
                    /\ IF i = n + 1 /\ ColOf(i) > 0 /\ First(i - 1) # -1
                       THEN s.pe[i].xv /\ s.pe[i].x = pe[First(i - 1)].x
                       ELSE s.pe[i].xv = pe[i].xv /\ s.pe[i].x = pe[i].x
    <3>1. s.pe[i].w = pe[i].w /\ s.pe[i].wv = pe[i].wv
      BY DEF Rowwise
    <3>2. CASE i < n
      BY <1>7, <3>1, <3>2
    <3>3. CASE i = n
      BY <1>1, <1>2, <1>3, <1>5, <2>1, <3>1, <3>3
    <3>4. CASE i > n
      <4>1. /\ s.pe[i].acc = pe[i].acc + (IF i - Cols < n THEN Above(s, i) ELSE 0)
            /\ s.pe[i].xv = pe[i].xv /\ s.pe[i].x = pe[i].x
        BY <1>7, <3>4
      <4>2. s.pe[i].acc = pe[i].acc + (IF i - Cols < n + 1 THEN Above(s, i) ELSE 0)
        BY <1>4, <2>2, <4>1
      <4>3. ~(i = n + 1 /\ First(i - 1) # -1)
        BY <1>1, <2>1
      <4>4. ~(i < n + 1)
        BY <1>7, <3>4
      <4> QED BY <3>1, <4>1, <4>2, <4>3, <4>4
    <3> QED BY <1>7, <3>2, <3>3, <3>4
  <2> QED BY <2>1, <2>3 DEF Rowwise
<1>6. CASE Ready(s.pe[n])
  <2> DEFINE t == Visit(s, n)
  <2>1. /\ t.pe[n] = [s.pe[n] EXCEPT !.acc = SumOf(s, n)]
        /\ \A j \in Right(n) \cup Below(n) : j \in Cells /\ j > n /\ t.pe[j] = Handing(s, n, j)
        /\ \A j \in Cells : j # n /\ j \notin Right(n) \cup Below(n) => t.pe[j] = s.pe[j]
    BY <1>6, VisitGives
  <2>2. First(n) # -1
    BY <1>2, <1>6
  <2>3. WeightTo(n) = {} /\ InputTo(n) = Right(n) /\ SumTo(n) = Below(n)
    BY DEF WeightTo, InputTo, SumTo
  <2>4. t.pe[n].w = s.pe[n].w /\ t.pe[n].x = s.pe[n].x /\ t.pe[n].wv = s.pe[n].wv /\ t.pe[n].xv = s.pe[n].xv
        /\ t.pe[n].acc = SumOf(s, n)
    <3>1. s.pe[n] \in Cell
      BY DEF Cells0
    <3> QED BY <2>1, <3>1 DEF Cell
  <2> HIDE DEF t
  <2>5. \A i \in Cells : i < n => t.pe[i] = s.pe[i]
    BY <1>1, <2>1
  <2>6. ASSUME NEW i \in Cells, i > n
        PROVE  /\ t.pe[i].w = s.pe[i].w /\ t.pe[i].wv = s.pe[i].wv
               /\ i \in Below(n) <=> i = n + Cols
               /\ i \in Right(n) <=> i = n + 1 /\ ColOf(i) > 0
               /\ t.pe[i].acc = IF i \in Below(n) THEN s.pe[i].acc + SumOf(s, n) ELSE s.pe[i].acc
               /\ IF i \in Right(n) THEN t.pe[i].xv /\ t.pe[i].x = s.pe[n].x
                  ELSE t.pe[i].xv = s.pe[i].xv /\ t.pe[i].x = s.pe[i].x
    <3>1. i \in Right(n) <=> i = n + 1 /\ ColOf(i) > 0
      BY <1>4 DEF Right
    <3>2. i \in Below(n) <=> i = n + Cols
      <4>1. i = n + Cols => RowOf(n) + 1 = RowOf(i) /\ RowOf(i) < Rows /\ RowOf(n) \in Nat
        <5>1. i = n + Cols => RowOf(i) > 0 /\ i - Cols = n
          BY <1>4
        <5>2. RowOf(i) < Rows /\ RowOf(n) \in Nat
          BY CellPlaces DEF SystolicAssumption
        <5> QED BY <5>1, <5>2, CellNeighbours
      <4> QED BY <4>1 DEF Below
    <3>3. s.pe[i] \in Cell
      BY DEF Cells0
    <3>4. CASE i \in Right(n) \cup Below(n)
      <4>1. t.pe[i] = Handing(s, n, i)
        BY <2>1, <3>4
      <4>2. /\ Handing(s, n, i).w = s.pe[i].w /\ Handing(s, n, i).wv = s.pe[i].wv
            /\ Handing(s, n, i).acc = IF i \in Below(n) THEN s.pe[i].acc + SumOf(s, n) ELSE s.pe[i].acc
            /\ Handing(s, n, i).x = IF i \in Right(n) THEN s.pe[n].x ELSE s.pe[i].x
            /\ Handing(s, n, i).xv = (s.pe[i].xv \/ i \in Right(n))
        BY <2>3, <3>3 DEF Handing, Cell
      <4> QED BY <3>1, <3>2, <3>3, <4>1, <4>2 DEF Cell
    <3>5. CASE i \notin Right(n) \cup Below(n)
      <4>1. t.pe[i] = s.pe[i]
        BY <1>1, <2>1, <2>6, <3>5
      <4> QED BY <3>1, <3>2, <3>5, <4>1
    <3> QED BY <3>4, <3>5
  <2>7. ASSUME NEW i \in Cells, i - Cols < n PROVE Above(t, i) = Above(s, i)
    <3>1. CASE RowOf(i) > 0
      <4>1. i - Cols \in Cells
        BY <3>1, CellNeighbours
      <4> QED BY <2>5, <2>7, <3>1, <4>1 DEF Above
    <3>2. CASE ~(RowOf(i) > 0)
      <4>1. RowOf(i) = 0
        BY <3>2, CellPlaces DEF SystolicAssumption
      <4> QED BY <4>1 DEF Above
    <3> QED BY <3>1, <3>2
  <2>8. ASSUME NEW i \in Cells, i = n + Cols PROVE Above(t, i) = SumOf(s, n)
    <3>1. RowOf(i) > 0 /\ i - Cols = n
      BY <1>4, <2>8
    <3>2. ~(First(n) < 0)
      BY <2>2, FirstMoves
    <3> QED BY <2>4, <3>1, <3>2 DEF Above
  <2>9. SumOf(s, n) \in Int
    BY <1>2, <1>3, <2>2, CellPlaces DEF Cells0, Cell
  <2>10. ASSUME NEW i \in Cells
         PROVE  /\ t.pe[i].w = pe[i].w /\ t.pe[i].wv = pe[i].wv
                /\ i < n + 1 =>
                     /\ Ready(t.pe[i]) <=> First(i) # -1
                     /\ t.pe[i].acc = pe[i].acc + Above(t, i) + Own(i)
                /\ i >= n + 1 =>
                     /\ t.pe[i].acc = pe[i].acc + (IF i - Cols < n + 1 THEN Above(t, i) ELSE 0)
                     /\ IF i = n + 1 /\ ColOf(i) > 0 /\ First(i - 1) # -1
                        THEN t.pe[i].xv /\ t.pe[i].x = pe[First(i - 1)].x
                        ELSE t.pe[i].xv = pe[i].xv /\ t.pe[i].x = pe[i].x
    <3>1. s.pe[i].w = pe[i].w /\ s.pe[i].wv = pe[i].wv
      BY DEF Rowwise
    <3>2. CASE i < n
      <4>1. t.pe[i] = s.pe[i] /\ Above(t, i) = Above(s, i)
        BY <1>7, <2>5, <2>7, <3>2
      <4>2. /\ Ready(s.pe[i]) <=> First(i) # -1
            /\ s.pe[i].acc = pe[i].acc + Above(s, i) + Own(i)
        BY <3>2 DEF Rowwise
      <4>3. ~(i >= n + 1)
        BY <1>1, <3>2
      <4> QED BY <3>1, <4>1, <4>2, <4>3
    <3>3. CASE i = n
      <4>1. Above(t, i) = Above(s, i)
        BY <1>1, <2>7, <3>3
      <4>2. Ready(t.pe[i])
        BY <1>6, <2>4, <3>3 DEF Ready
      <4>3. ~(i >= n + 1)
        BY <1>1, <3>3
      <4> QED BY <1>2, <2>2, <2>4, <3>1, <3>3, <4>1, <4>2, <4>3
    <3>4. CASE i > n
      <4>1. /\ s.pe[i].acc = pe[i].acc + (IF i - Cols < n THEN Above(s, i) ELSE 0)
            /\ s.pe[i].xv = pe[i].xv /\ s.pe[i].x = pe[i].x
        BY <1>7, <3>4
      <4>2. t.pe[i].acc = pe[i].acc + (IF i - Cols < n + 1 THEN Above(t, i) ELSE 0)
        <5>1. CASE i = n + Cols
          <6>1. t.pe[i].acc = s.pe[i].acc + SumOf(s, n) /\ s.pe[i].acc = pe[i].acc + 0
            BY <1>4, <2>6, <3>4, <4>1, <5>1
          <6>2. i - Cols < n + 1
            BY <1>4, <5>1
          <6> QED BY <1>3, <2>8, <2>9, <5>1, <6>1, <6>2
        <5>2. CASE i # n + Cols
          <6>1. t.pe[i].acc = s.pe[i].acc
            BY <2>6, <3>4, <5>2
          <6> QED BY <1>4, <2>7, <4>1, <5>2, <6>1
        <5> QED BY <5>1, <5>2
      <4>3. IF i = n + 1 /\ ColOf(i) > 0 /\ First(i - 1) # -1
            THEN t.pe[i].xv /\ t.pe[i].x = pe[First(i - 1)].x
            ELSE t.pe[i].xv = pe[i].xv /\ t.pe[i].x = pe[i].x
        <5>1. i = n + 1 => i - 1 = n
          BY <1>1
        <5> QED BY <1>2, <2>2, <2>6, <3>4, <4>1, <5>1
      <4> QED BY <1>1, <1>4, <2>6, <3>1, <3>4, <4>2, <4>3
    <3> QED BY <1>7, <3>2, <3>3, <3>4
  <2> QED BY <2>10 DEF Rowwise, t
<1> QED BY <1>5, <1>6

LEMMA ScanRows ==
  ASSUME SystolicAssumption, pe \in [Cells -> Cell]
  PROVE  RowsBroadcast(Stepped)
<1> SUFFICES ASSUME flow = "WS"
             PROVE  \A i \in Cells : Stepped.pe[i].acc = pe[i].acc + Above(Stepped, i) + Own(i)
  BY DEF RowsBroadcast
<1>1. PICK f : /\ Stepped = f[Rows * Cols] /\ f[0] = [pe |-> pe, macs |-> 0]
               /\ \A n \in 1 .. Rows * Cols : f[n] = Visit(f[n - 1], n - 1)
  BY ScanUnfolds
<1>2. Rows * Cols \in Nat
  BY DEF SystolicAssumption
<1> DEFINE T == {n \in Nat : n <= Rows * Cols => Cells0(f[n]) /\ Rowwise(f[n], n)}
<1>3. 0 \in T
  <2>1. Cells0(f[0])
    BY <1>1 DEF Cells0
  <2>2. ASSUME NEW i \in Cells
        PROVE  /\ f[0].pe[i].w = pe[i].w /\ f[0].pe[i].wv = pe[i].wv
               /\ ~(i < 0)
               /\ f[0].pe[i].acc = pe[i].acc + (IF i - Cols < 0 THEN Above(f[0], i) ELSE 0)
               /\ IF i = 0 /\ ColOf(i) > 0 /\ First(i - 1) # -1
                  THEN f[0].pe[i].xv /\ f[0].pe[i].x = pe[First(i - 1)].x
                  ELSE f[0].pe[i].xv = pe[i].xv /\ f[0].pe[i].x = pe[i].x
    <3>1. f[0].pe[i] = pe[i] /\ pe[i].acc \in Int
      BY <1>1 DEF Cell
    <3>2. i \in Nat /\ Cols \in Nat \ {0}
      BY CellPlaces DEF SystolicAssumption
    <3>3. ~(i = 0 /\ ColOf(i) > 0)
      BY <3>2 DEF ColOf
    <3>4. i - Cols < 0 => Above(f[0], i) = 0
      <4>1. RowOf(i) > 0 => i - Cols \in Cells
        BY CellNeighbours
      <4>2. RowOf(i) > 0 => ~(i - Cols < 0)
        BY <1>2, <3>2, <4>1 DEF Cells
      <4> QED BY <2>1, <4>2, OwnIs
    <3> QED BY <3>1, <3>2, <3>3, <3>4
  <2>3. Rowwise(f[0], 0)
    BY <2>2 DEF Rowwise
  <2> QED BY <2>1, <2>3
<1>4. ASSUME NEW n \in T PROVE n + 1 \in T
  <2> SUFFICES ASSUME n + 1 <= Rows * Cols PROVE Cells0(f[n + 1]) /\ Rowwise(f[n + 1], n + 1)
    OBVIOUS
  <2>1. n \in Nat /\ n \in Cells /\ n + 1 \in 1 .. Rows * Cols /\ (n + 1) - 1 = n
    BY <1>2 DEF Cells
  <2>2. f[n + 1] = Visit(f[n], n)
    BY <1>1, <2>1
  <2>3. Cells0(f[n]) /\ Rowwise(f[n], n)
    BY <1>2, <2>1
  <2> QED BY <2>1, <2>2, <2>3, VisitTypes, VisitRows
<1>5. T \in SUBSET Nat
  OBVIOUS
<1> HIDE DEF T
<1>6. Rows * Cols \in T
  BY <1>2, <1>3, <1>4, <1>5, Climb
<1>7. Rowwise(Stepped, Rows * Cols)
  BY <1>1, <1>2, <1>6 DEF T
<1>8. \A i \in Cells : i < Rows * Cols
  BY CellPlaces
<1> QED BY <1>7, <1>8 DEF Rowwise

(* The state of the array between two cycles: a tile under way has operands,  *)
(* and what it reads of them is there.                                       *)
JobType ==
  [kind : {"none", "cycles", "completion", "tile", "multiply"}, left : Int, idle : Int,
   at : Nat \X Nat \X Nat, tile : (Nat \ {0}) \X (Nat \ {0}) \X (Nat \ {0}), whole : BOOLEAN, first : BOOLEAN]

Operands(ms) ==
  /\ DOMAIN ms = {"m", "n", "k", "a", "b", "c"} /\ ms.m \in Nat /\ ms.n \in Nat /\ ms.k \in Nat
  /\ ms.a \in [(0 .. ms.m - 1) \X (0 .. ms.k - 1) -> Int]
  /\ ms.b \in [(0 .. ms.k - 1) \X (0 .. ms.n - 1) -> Int]

ArrayInv ==
  /\ pe \in [Cells -> Cell] /\ job \in JobType
  /\ job.kind \in {"tile", "multiply"} => Operands(mats)
  /\ TilesApart

LEMMA ArrayInvImplies == SystolicAssumption /\ ArrayInv => SystolicSound
BY ScanCounts, ScanRows DEF ArrayInv, SystolicSound

LEMMA ArrayStart == SystolicAssumption /\ ArrayInit => ArrayInv
<1> SUFFICES ASSUME SystolicAssumption, ArrayInit PROVE ArrayInv
  OBVIOUS
<1>1. pe \in [Cells -> Cell]
  BY DEF ArrayInit, EmptyCell, Cell
<1>2. job \in JobType /\ job.kind = "none"
  BY DEF ArrayInit, NoJob, JobType
<1> QED BY <1>1, <1>2 DEF ArrayInv, TilesApart

LEMMA StepTypes ==
  ASSUME SystolicAssumption, ArrayInv, Step
  PROVE  pe' \in [Cells -> Cell]
<1>1. Stepped.pe \in [Cells -> Cell]
  BY ScanCounts DEF ArrayInv, Cells0
<1> QED BY <1>1 DEF ArrayInv, Step

LEMMA LoadTileKeeps ==
  ASSUME SystolicAssumption, ArrayInv, LoadTile
  PROVE  ArrayInv'
<1>1. job \in JobType /\ Operands(mats) /\ job.kind = "tile" /\ pe \in [Cells -> Cell]
  BY DEF ArrayInv, LoadTile
<1>2. PICK a, b, c, m, n, k : /\ a = job.at[1] /\ b = job.at[2] /\ c = job.at[3]
                              /\ m = mats.m /\ n = mats.n /\ k = mats.k
  OBVIOUS
<1>3. a \in Nat /\ b \in Nat /\ c \in Nat /\ m \in Nat /\ n \in Nat /\ k \in Nat
  BY <1>1, <1>2 DEF JobType, Operands
<1>4. PICK p, q, r : p = job.tile[1] /\ q = job.tile[2] /\ r = job.tile[3]
  OBVIOUS
<1>5. p \in Nat /\ q \in Nat /\ r \in Nat
  BY <1>1, <1>4 DEF JobType
<1>6. PICK d, w, h : d = Deep /\ w = Wide /\ h = High
  OBVIOUS
<1>7. /\ d \in Int /\ w \in Int /\ h \in Int
      /\ d <= k - c /\ w <= n - b /\ h <= m - a
  BY <1>2, <1>3, <1>4, <1>5, <1>6 DEF Deep, Wide, High, Least
<1>8. ASSUME NEW i \in Cells
      PROVE  /\ (IF RowOf(i) < d /\ ColOf(i) < w THEN mats.b[<<c + RowOf(i), b + ColOf(i)>>] ELSE pe[i].w) \in Int
             /\ (IF RowOf(i) < h /\ ColOf(i) < d THEN mats.a[<<a + RowOf(i), c + ColOf(i)>>] ELSE pe[i].x) \in Int
  <2>1. PICK y \in Nat, x \in Nat : y = RowOf(i) /\ x = ColOf(i)
    BY CellPlaces DEF SystolicAssumption
  <2>2. y < d /\ x < w => c + y \in 0 .. k - 1 /\ b + x \in 0 .. n - 1
    BY <1>3, <1>7
  <2>3. y < h /\ x < d => a + y \in 0 .. m - 1 /\ c + x \in 0 .. k - 1
    BY <1>3, <1>7
  <2>4. mats.b \in [(0 .. k - 1) \X (0 .. n - 1) -> Int] /\ mats.a \in [(0 .. m - 1) \X (0 .. k - 1) -> Int]
    BY <1>1, <1>2 DEF Operands
  <2>5. pe[i].w \in Int /\ pe[i].x \in Int
    BY <1>1 DEF Cell
  <2> QED BY <2>1, <2>2, <2>3, <2>4, <2>5
<1> DEFINE C(i) ==
      [w |-> IF RowOf(i) < d /\ ColOf(i) < w THEN mats.b[<<c + RowOf(i), b + ColOf(i)>>] ELSE pe[i].w,
       x |-> IF RowOf(i) < h /\ ColOf(i) < d THEN mats.a[<<a + RowOf(i), c + ColOf(i)>>] ELSE pe[i].x,
       acc |-> pe[i].acc, wv |-> pe[i].wv \/ (RowOf(i) < d /\ ColOf(i) < w),
       xv |-> pe[i].xv \/ (RowOf(i) < h /\ ColOf(i) < d)]
<1>9. pe' = [i \in Cells |-> C(i)]
  BY <1>2, <1>6 DEF LoadTile
<1>10. ASSUME NEW i \in Cells PROVE C(i) \in Cell
  BY <1>1, <1>8 DEF Cell
<1> HIDE DEF C
<1>11. pe' \in [Cells -> Cell]
  BY <1>9, <1>10
<1>12. job' \in JobType /\ job'.kind = "multiply"
  <2>1. PICK v \in Int : v = Rows + Cols + (IF job.whole THEN job.tile[3] ELSE Deep)
    BY <1>4, <1>5, <1>6, <1>7 DEF SystolicAssumption
  <2>2. job' = [job EXCEPT !.kind = "multiply", !.left = v]
    BY <2>1 DEF LoadTile
  <2> QED BY <1>1, <2>2 DEF JobType
<1>13. Operands(mats)'
  BY <1>1 DEF LoadTile, Operands
<1> QED BY <1>11, <1>12, <1>13 DEF ArrayInv, TilesApart

LEMMA ReadTileKeeps ==
  ASSUME SystolicAssumption, ArrayInv, ReadTile
  PROVE  ArrayInv'
<1>1. job \in JobType /\ Operands(mats) /\ pe \in [Cells -> Cell]
  BY DEF ArrayInv, ReadTile
<1>2. PICK R : pe' = [i \in Cells |-> Cleared(pe[i], i \in R)]
  BY DEF ReadTile
<1>3. ASSUME NEW i \in Cells
      PROVE  pe'[i] \in Cell /\ pe'[i].wv = FALSE /\ pe'[i].xv = FALSE
  <2>1. PICK p \in Cell : p = pe[i]
    BY <1>1
  <2>2. pe'[i] = [p EXCEPT !.acc = IF i \in R THEN 0 ELSE @, !.wv = FALSE, !.xv = FALSE]
    BY <1>2, <2>1 DEF Cleared
  <2>3. PICK v \in Int : v = IF i \in R THEN 0 ELSE p.acc
    BY DEF Cell
  <2>4. pe'[i] = [p EXCEPT !.acc = v, !.wv = FALSE, !.xv = FALSE]
    BY <2>2, <2>3
  <2> QED BY <2>4 DEF Cell
<1>4. pe' \in [Cells -> Cell]
  BY <1>2, <1>3
<1>5. Operands(mats')
  <2>1. PICK v : mats' = [mats EXCEPT !.c = v]
    BY DEF ReadTile
  <2>2. PICK g : g = mats'
    OBVIOUS
  <2>3. DOMAIN g = DOMAIN mats /\ g.m = mats.m /\ g.n = mats.n /\ g.k = mats.k /\ g.a = mats.a /\ g.b = mats.b
    BY <1>1, <2>1, <2>2 DEF Operands
  <2>4. Operands(g)
    BY <1>1, <2>3 DEF Operands
  <2> QED BY <2>2, <2>4
<1>6. job' \in JobType /\ job'.kind \in {"none", "tile"}
  <2>1. PICK a, b, c, p, q, r : /\ a = job.at[1] /\ b = job.at[2] /\ c = job.at[3]
                                /\ p = job.tile[1] /\ q = job.tile[2] /\ r = job.tile[3]
    OBVIOUS
  <2>2. a \in Nat /\ b \in Nat /\ c \in Nat /\ p \in Nat /\ q \in Nat /\ r \in Nat
    BY <1>1, <2>1 DEF JobType
  <2>3. PICK to : /\ to \in {<<a, b, c + r>>, <<a, b + q, 0>>, <<a + p, 0, 0>>}
                  /\ job' = IF to[1] >= mats.m THEN NoJob ELSE [job EXCEPT !.kind = "tile", !.at = to, !.first = FALSE]
    BY <2>1 DEF ReadTile, NextTile
  <2>4. to \in Nat \X Nat \X Nat
    BY <2>2, <2>3
  <2>5. NoJob \in JobType /\ NoJob.kind = "none"
    BY DEF NoJob, JobType
  <2>6. [job EXCEPT !.kind = "tile", !.at = to, !.first = FALSE] \in JobType
    BY <1>1, <2>4 DEF JobType
  <2>7. [job EXCEPT !.kind = "tile", !.at = to, !.first = FALSE].kind = "tile"
    BY <1>1 DEF JobType
  <2> QED BY <2>3, <2>5, <2>6, <2>7
<1>7. TilesApart'
  BY <1>3 DEF TilesApart
<1> QED BY <1>4, <1>5, <1>6, <1>7 DEF ArrayInv

(* Steps of a job that reads no tile.                                        *)
LEMMA JobKeeps ==
  ASSUME SystolicAssumption, ArrayInv, CyclesStep \/ CompletionStep \/ MultiplyStep
  PROVE  ArrayInv'
<1>1. job \in JobType /\ pe \in [Cells -> Cell]
  BY DEF ArrayInv
<1>2. NoJob \in JobType /\ NoJob.kind = "none"
  BY DEF NoJob, JobType
<1>3. CASE CyclesStep
  <2>1. pe' \in [Cells -> Cell]
    BY <1>3, StepTypes DEF CyclesStep
  <2>2. job' \in JobType /\ job'.kind \in {"none", "cycles"}
    <3>1. job' = NoJob \/ job' = [job EXCEPT !.left = @ - 1]
      BY <1>3 DEF CyclesStep
    <3>2. [job EXCEPT !.left = @ - 1] \in JobType /\ [job EXCEPT !.left = @ - 1].kind = job.kind
      BY <1>1 DEF JobType
    <3>3. job.kind = "cycles"
      BY <1>3 DEF CyclesStep
    <3> QED BY <1>2, <3>1, <3>2, <3>3
  <2> QED BY <2>1, <2>2 DEF ArrayInv, TilesApart
<1>4. CASE CompletionStep
  <2>1. pe' \in [Cells -> Cell]
    <3>1. CASE AnyReady
      BY <1>4, <3>1, StepTypes DEF CompletionStep
    <3>2. CASE ~AnyReady
      BY <1>1, <1>4, <3>2 DEF CompletionStep
    <3> QED BY <3>1, <3>2
  <2>2. job' \in JobType /\ job'.kind \in {"none", "completion"}
    <3>1. PICK v : v = IF AnyReady THEN 0 ELSE job.idle + 1
      OBVIOUS
    <3>2. v \in Int
      BY <1>1, <3>1 DEF JobType
    <3>3. job' = NoJob \/ job' = [job EXCEPT !.idle = v]
      BY <1>4, <3>1 DEF CompletionStep
    <3>4. [job EXCEPT !.idle = v] \in JobType /\ [job EXCEPT !.idle = v].kind = job.kind
      BY <1>1, <3>2 DEF JobType
    <3>5. job.kind = "completion"
      BY <1>4 DEF CompletionStep
    <3> QED BY <1>2, <3>3, <3>4, <3>5
  <2> QED BY <2>1, <2>2 DEF ArrayInv, TilesApart
<1>5. CASE MultiplyStep
  <2>1. pe' \in [Cells -> Cell]
    BY <1>5, StepTypes DEF MultiplyStep
  <2>2. job' \in JobType /\ job'.kind = "multiply"
    <3>1. job' = [job EXCEPT !.left = @ - 1] /\ job.kind = "multiply"
      BY <1>5 DEF MultiplyStep
    <3> QED BY <1>1, <3>1 DEF JobType
  <2>3. Operands(mats)'
    BY <1>5 DEF MultiplyStep, ArrayInv, Operands
  <2> QED BY <2>1, <2>2, <2>3 DEF ArrayInv, TilesApart
<1> QED BY <1>3, <1>4, <1>5

LEMMA CallKeeps ==
  ASSUME SystolicAssumption, ArrayInv, ArrayCall
  PROVE  ArrayInv'
<1>1. job \in JobType /\ pe \in [Cells -> Cell]
  BY DEF ArrayInv
<1>2. NoJob \in JobType /\ NoJob.kind = "none"
  BY DEF NoJob, JobType
<1>3. ASSUME NEW v \in {[i \in Cells |-> 1 + s * i] : s \in Strides}, NEW i \in Cells PROVE v[i] \in Int
  <2>1. PICK s \in Strides : v = [j \in Cells |-> 1 + s * j]
    OBVIOUS
  <2>2. s \in Int /\ i \in Int
    BY CellPlaces DEF SystolicAssumption
  <2> QED BY <2>1, <2>2
<1>4. ASSUME NEW v \in {[i \in Cells |-> 1 + s * i] : s \in Strides}, NEW r, LoadWeights(r, Cols, v) PROVE ArrayInv'
  <2>1. pe' \in [Cells -> Cell]
    <3>1. ASSUME NEW i \in Cells PROVE pe'[i] \in Cell
      <4>1. PICK p \in Cell, x \in Int : p = pe[i] /\ x = v[i]
        BY <1>1, <1>3
      <4>2. pe'[i] = p \/ pe'[i] = [p EXCEPT !.w = x, !.wv = TRUE]
        BY <1>4, <4>1 DEF LoadWeights
      <4>3. [p EXCEPT !.w = x, !.wv = TRUE] \in Cell
        BY DEF Cell
      <4> QED BY <4>2, <4>3
    <3> QED BY <1>4, <3>1 DEF LoadWeights
  <2>2. job' = NoJob
    BY <1>4 DEF LoadWeights, Calling
  <2> QED BY <1>2, <2>1, <2>2 DEF ArrayInv, TilesApart
<1>5. ASSUME NEW v \in {[i \in Cells |-> 1 + s * i] : s \in Strides}, NEW r, LoadInputs(r, 1, v) PROVE ArrayInv'
  <2>1. pe' \in [Cells -> Cell]
    <3>1. ASSUME NEW i \in Cells PROVE pe'[i] \in Cell
      <4>1. PICK p \in Cell, x \in Int : p = pe[i] /\ x = v[i]
        BY <1>1, <1>3
      <4>2. pe'[i] = p \/ pe'[i] = [p EXCEPT !.x = x, !.xv = TRUE]
        BY <1>5, <4>1 DEF LoadInputs
      <4>3. [p EXCEPT !.x = x, !.xv = TRUE] \in Cell
        BY DEF Cell
      <4> QED BY <4>2, <4>3
    <3> QED BY <1>5, <3>1 DEF LoadInputs
  <2>2. job' = NoJob
    BY <1>5 DEF LoadInputs, Calling
  <2> QED BY <1>2, <2>1, <2>2 DEF ArrayInv, TilesApart
<1>6. CASE SaReset
  <2>1. pe' \in [Cells -> Cell] /\ job' = NoJob
    BY <1>6 DEF SaReset, Calling, EmptyCell, Cell
  <2> QED BY <1>2, <2>1 DEF ArrayInv, TilesApart
<1>7. CASE RunCycles(2) \/ RunToCompletion
  <2>1. pe' \in [Cells -> Cell]
    BY <1>1, <1>7 DEF RunCycles, RunToCompletion
  <2>2. job' \in JobType /\ job'.kind \in {"cycles", "completion"}
    <3>1. job' \in {[NoJob EXCEPT !.kind = "cycles", !.left = 2], [NoJob EXCEPT !.kind = "completion"]}
      BY <1>7 DEF RunCycles, RunToCompletion, Calling
    <3>2. PICK j \in JobType : j = NoJob
      BY <1>2
    <3>3. CASE job' = [j EXCEPT !.kind = "cycles", !.left = 2]
      <4>1. PICK h : h = [j EXCEPT !.kind = "cycles"]
        OBVIOUS
      <4>2. h \in JobType /\ h.kind = "cycles"
        BY <4>1 DEF JobType
      <4>3. job' = [h EXCEPT !.left = 2]
        BY <3>3, <4>1
      <4> QED BY <4>2, <4>3 DEF JobType
    <3>4. CASE job' = [j EXCEPT !.kind = "completion"]
      BY <3>4 DEF JobType
    <3> QED BY <3>1, <3>2, <3>3, <3>4
  <2> QED BY <2>1, <2>2 DEF ArrayInv, TilesApart
<1>8. ASSUME NEW m \in Nat, NEW n \in Nat, NEW k \in Nat, NEW whole \in BOOLEAN,
             NEW tile \in (Nat \ {0}) \X (Nat \ {0}) \X (Nat \ {0}), StartMatmul(m, n, k, tile, whole)
      PROVE  ArrayInv'
  <2>1. pe' \in [Cells -> Cell]
    BY <1>1, <1>8 DEF StartMatmul
  <2>2. job' \in JobType /\ job'.kind = "tile" /\ job'.first = TRUE
    <3>1. job' = [NoJob EXCEPT !.kind = "tile", !.tile = tile, !.whole = whole]
      BY <1>8 DEF StartMatmul, Calling
    <3>2. NoJob.first = TRUE
      BY DEF NoJob
    <3> QED BY <1>2, <3>1, <3>2 DEF JobType
  <2>3. ASSUME NEW g, NEW y \in Nat, NEW z \in Nat, g \in Matrices(y, z) PROVE g \in [(0 .. y - 1) \X (0 .. z - 1) -> Int]
    <3>1. PICK s \in Strides : g = [e \in (0 .. y - 1) \X (0 .. z - 1) |-> 1 + s * (2 * e[1] + e[2])]
      BY <2>3 DEF Matrices
    <3>2. s \in Int
      BY DEF SystolicAssumption
    <3>3. ASSUME NEW e \in (0 .. y - 1) \X (0 .. z - 1) PROVE 1 + s * (2 * e[1] + e[2]) \in Int
      <4>1. PICK b \in Int : b = 2 * e[1] + e[2]
        OBVIOUS
      <4> QED BY <3>2, <4>1
    <3> QED BY <3>1, <3>3
  <2>4. PICK a, b, c :
          a \in Matrices(m, k) /\ b \in Matrices(k, n) /\
          mats' = [m |-> m, n |-> n, k |-> k, a |-> a, b |-> b, c |-> c]
    BY <1>8 DEF StartMatmul
  <2>5. a \in [(0 .. m - 1) \X (0 .. k - 1) -> Int] /\ b \in [(0 .. k - 1) \X (0 .. n - 1) -> Int]
    BY <2>3, <2>4
  <2>6. Operands(mats')
    BY <2>4, <2>5 DEF Operands
  <2> QED BY <2>1, <2>2, <2>6 DEF ArrayInv, TilesApart
<1>9. ASSUME NEW p \in Products, Matmul(p[1], p[2], p[3]) \/ MatmulTiled(p[1], p[2], p[3], <<1, Cols, 1>>)
      PROVE  ArrayInv'
  <2>1. p[1] \in Nat /\ p[2] \in Nat /\ p[3] \in Nat
    BY DEF SystolicAssumption
  <2>2. <<Rows, Cols, Depth>> \in (Nat \ {0}) \X (Nat \ {0}) \X (Nat \ {0})
        /\ <<1, Cols, 1>> \in (Nat \ {0}) \X (Nat \ {0}) \X (Nat \ {0})
    BY DEF SystolicAssumption
  <2> QED BY <1>8, <1>9, <2>1, <2>2 DEF Matmul, MatmulTiled
<1> QED BY <1>4, <1>5, <1>6, <1>7, <1>9 DEF ArrayCall

LEMMA ArrayKeeps == SystolicAssumption /\ ArrayInv /\ [ArrayCall \/ ArrayWork]_arrayVars => ArrayInv'
<1> SUFFICES ASSUME SystolicAssumption, ArrayInv, [ArrayCall \/ ArrayWork]_arrayVars PROVE ArrayInv'
  OBVIOUS
<1>1. CASE UNCHANGED arrayVars
  BY <1>1 DEF arrayVars, ArrayInv, TilesApart, Operands
<1> QED BY <1>1, CallKeeps, JobKeeps, LoadTileKeeps, ReadTileKeeps DEF ArrayWork

(* For every size of the array, every dataflow and any calls in any order: in *)
(* a cycle every element that ends it ready has multiplied exactly once;      *)
(* weight-stationary rows work on one input each and sums run down a whole    *)
(* column within the cycle; and from its second tile on a product meets no    *)
(* operand of the tile before.                                               *)
THEOREM ScansAreExact == SystolicAssumption => (ArraySpec => []SystolicSound)
<1> SUFFICES ASSUME SystolicAssumption PROVE ArraySpec => []SystolicSound
  OBVIOUS
<1>1. ArrayInit => ArrayInv
  BY ArrayStart
<1>2. ArrayInv /\ [ArrayCall \/ ArrayWork]_arrayVars => ArrayInv'
  BY ArrayKeeps
<1>3. ArrayInv => SystolicSound
  BY ArrayInvImplies
<1> QED BY <1>1, <1>2, <1>3, PTL DEF ArraySpec

-----------------------------------------------------------------------------
(* The processing element.                                                   *)
Stages == {"idle", "weight_ld", "input_ld", "multiply", "accumulate", "activate", "output_st", "done"}

(* An input is used while it is owed: what is ready and not yet accumulated   *)
(* is owed, and computing goes on only with what is ready.                   *)
Typed(u) ==
  /\ DOMAIN u = {"stage", "at", "w", "x", "acc", "out", "wr", "xr", "owed"}
  /\ u.stage \in Stages /\ u.at \in Int /\ u.w \in Int /\ u.x \in Int /\ u.acc \in Int
  /\ u.wr \in BOOLEAN /\ u.xr \in BOOLEAN /\ u.owed \in BOOLEAN
UnitInv ==
  /\ Typed(unit)
  /\ unit.stage \in {"idle", "weight_ld", "input_ld"} => (unit.xr => unit.owed)
  /\ unit.stage \in {"multiply", "accumulate"} => unit.owed
  /\ unit.stage = "output_st" => unit.out = 4 * Clamped(Rounded(Activated(unit.acc)))

(* Rounding to the nearest and clamping puts out the nearest there is.        *)
LEMMA NearestIs ==
  ASSUME NEW v \in Int
  PROVE  LET o == 4 * Clamped(Rounded(v)) IN
         /\ o \in Outputs
         /\ \A k \in -8 .. 7 : (IF o > v THEN o - v ELSE v - o) <= (IF 4 * k > v THEN 4 * k - v ELSE v - 4 * k)
<1>1. PICK q \in Int : q = Rounded(v)
  BY DEF Rounded
<1>2. 4 * q <= v + 2 /\ v <= 4 * q + 2
  <2>1. CASE v >= 0
    <3>1. q = (v + 2) \div 4 /\ v + 2 \in Nat
      BY <1>1, <2>1 DEF Rounded
    <3> QED BY <3>1
  <2>2. CASE ~(v >= 0)
    <3>1. PICK u \in Nat : u = 2 - v
      BY <2>2
    <3>2. q = -(u \div 4)
      BY <1>1, <2>2, <3>1 DEF Rounded
    <3>3. 4 * (u \div 4) <= u /\ u < 4 * (u \div 4) + 4 /\ u \div 4 \in Nat
      BY <3>1
    <3> QED BY <3>1, <3>2, <3>3
  <2> QED BY <2>1, <2>2
<1>3. PICK c \in -8 .. 7 : c = Clamped(q) /\ (q \in -8 .. 7 => c = q) /\ (q < -8 => c = -8) /\ (q > 7 => c = 7)
  BY DEF Clamped
<1>4. 4 * c \in Outputs
  BY DEF Outputs
<1>5. \A k \in -8 .. 7 : (IF 4 * c > v THEN 4 * c - v ELSE v - 4 * c) <= (IF 4 * k > v THEN 4 * k - v ELSE v - 4 * k)
  BY <1>2, <1>3
<1> QED BY <1>1, <1>3, <1>4, <1>5

LEMMA UnitInvImplies == UnitInv => PeSound
<1> SUFFICES ASSUME UnitInv PROVE PeSound
  OBVIOUS
<1>1. UsedOnce
  BY DEF UnitInv, UsedOnce, Typed
<1>2. ASSUME unit.stage = "output_st"
      PROVE  unit.out \in Outputs /\ \A v \in Outputs : Gap(unit.out) <= Gap(v)
  <2>1. PICK v \in Int : v = Activated(unit.acc)
    BY DEF UnitInv, Activated, Typed
  <2>2. PICK o : o = unit.out /\ o = 4 * Clamped(Rounded(v))
    BY <1>2, <2>1 DEF UnitInv, Typed
  <2>3. /\ o \in Outputs
        /\ \A k \in -8 .. 7 : (IF o > v THEN o - v ELSE v - o) <= (IF 4 * k > v THEN 4 * k - v ELSE v - 4 * k)
    BY <2>2, NearestIs
  <2>4. ASSUME NEW u \in Outputs PROVE Gap(o) <= Gap(u)
    <3>1. PICK k \in -8 .. 7 : u = 4 * k
      BY DEF Outputs
    <3>2. Gap(o) = IF o > v THEN o - v ELSE v - o
      BY <2>1 DEF Gap
    <3>3. Gap(u) = IF 4 * k > v THEN 4 * k - v ELSE v - 4 * k
      BY <2>1, <3>1 DEF Gap
    <3> QED BY <2>3, <3>2, <3>3
  <2> QED BY <2>2, <2>3, <2>4
<1>3. NearestOutput
  BY <1>2 DEF NearestOutput
<1> QED BY <1>1, <1>3 DEF PeSound

LEMMA UnitStart == UnitInit => UnitInv
<1> SUFFICES ASSUME UnitInit PROVE UnitInv
  OBVIOUS
<1>1. unit = Idle
  BY DEF UnitInit
<1> QED BY <1>1 DEF UnitInv, Idle, Stages, Typed

LEMMA WeightLoaded ==
  ASSUME NEW u, Typed(u), NEW w \in Int
  PROVE  LET v == LoadedWeight(u, w) IN
         Typed(v) /\ v.stage = "weight_ld" /\ v.xr = u.xr /\ v.owed = u.owed
BY DEF LoadedWeight, Typed, Stages

(* A zero takes the readiness away, any other input is owed.                  *)
LEMMA InputLoaded ==
  ASSUME NEW u, Typed(u), NEW x \in Int
  PROVE  LET v == LoadedInput(u, x) IN
         Typed(v) /\ (v.xr => v.owed) /\ v.stage \in {u.stage, "input_ld"}
<1>1. CASE x = 0
  <2>1. LoadedInput(u, x) = [u EXCEPT !.xr = FALSE]
    BY <1>1 DEF LoadedInput
  <2> QED BY <2>1 DEF Typed
<1>2. CASE x # 0
  <2>1. LoadedInput(u, x) = [u EXCEPT !.x = x, !.xr = TRUE, !.stage = "input_ld", !.at = 0, !.owed = TRUE]
    BY <1>2 DEF LoadedInput
  <2> QED BY <2>1 DEF Typed, Stages
<1> QED BY <1>1, <1>2

(* Loading never makes an input ready without owing it.                       *)
LEMMA UnitLoads ==
  ASSUME UnitInv, NEW w \in Int, NEW x \in Int, LoadPair(w, x) \/ LoadOne(w, x)
  PROVE  UnitInv'
<1> DEFINE Good(u) == Typed(u) /\ u.stage \in {"idle", "weight_ld", "input_ld"} /\ (u.xr => u.owed)
<1>1. Typed(unit) /\ (unit.stage \in {"idle", "weight_ld", "input_ld"} => (unit.xr => unit.owed))
  BY DEF UnitInv
<1>2. Good(unit')
  <2>1. CASE LoadPair(w, x)
    <3>1. PICK v : v = LoadedWeight(unit, w)
      OBVIOUS
    <3>2. Typed(v) /\ v.stage = "weight_ld"
      BY <1>1, <3>1, WeightLoaded
    <3>3. unit' = LoadedInput(v, x)
      BY <2>1, <3>1 DEF LoadPair
    <3> QED BY <3>2, <3>3, InputLoaded
  <2>2. CASE LoadOne(w, x)
    <3>1. unit.stage \in {"idle", "weight_ld", "input_ld"} /\ unit' \in {LoadedWeight(unit, w), LoadedInput(unit, x)}
      BY <2>2 DEF LoadOne, Loadable
    <3>2. Good(LoadedWeight(unit, w))
      BY <1>1, <3>1, WeightLoaded
    <3>3. Good(LoadedInput(unit, x))
      BY <1>1, <3>1, InputLoaded
    <3> QED BY <3>1, <3>2, <3>3
  <2> QED BY <2>1, <2>2
<1> QED BY <1>2 DEF UnitInv

(* Computing pays what is owed once, and leaves with nothing ready.           *)
LEMMA UnitComputes == UnitInv /\ (PeFlush \/ PeCycle) => UnitInv'
<1> SUFFICES ASSUME UnitInv, PeFlush \/ PeCycle PROVE UnitInv'
  OBVIOUS
<1>1. Typed(unit) /\ act' = act
  BY DEF UnitInv, PeFlush, PeCycle, Typed
<1>2. PICK sum \in Int : sum = unit.acc + unit.w * unit.x
  <2>1. PICK a \in Int, b \in Int, c \in Int : a = unit.acc /\ b = unit.w /\ c = unit.x
    BY <1>1 DEF Typed
  <2>2. b * c \in Int
    OBVIOUS
  <2> QED BY <2>1, <2>2
<1>3. PICK v \in Int : v = Activated(unit.acc)
  BY <1>1 DEF Activated, Typed
<1>4. PICK o \in Int : o = 4 * Clamped(Rounded(v))
  <2>1. PICK q \in Int : q = Rounded(v)
    BY DEF Rounded
  <2>2. Clamped(q) \in Int
    BY DEF Clamped
  <2> QED BY <2>1, <2>2
<1>5. PICK z \in Int : z = Activated(sum)
  BY DEF Activated
<1>6. CASE PeFlush
  <2>1. unit' = [unit EXCEPT !.acc = sum, !.out = z, !.stage = "done", !.wr = FALSE, !.xr = FALSE, !.owed = FALSE]
    BY <1>2, <1>5, <1>6 DEF PeFlush
  <2> QED BY <1>1, <2>1 DEF UnitInv, Stages, Typed
<1>7. CASE PeCycle
  <2>1. CASE unit.stage = "idle"
    <3>1. unit' = IF unit.wr /\ unit.xr THEN To("multiply") ELSE [unit EXCEPT !.at = 1]
      BY <1>7, <2>1 DEF PeCycle
    <3> QED BY <1>1, <2>1, <3>1 DEF UnitInv, Stages, To, Typed
  <2>2. CASE unit.stage = "done"
    <3>1. unit' = FinishedUnit(unit)
      BY <1>7, <2>2 DEF PeCycle
    <3> QED BY <1>1, <3>1 DEF UnitInv, Stages, FinishedUnit, Typed
  <2>3. CASE unit.stage \notin {"idle", "done"} /\ ~(unit.at + 1 >= Latency(unit.stage))
    <3>1. unit' = [unit EXCEPT !.at = @ + 1]
      BY <1>7, <2>3 DEF PeCycle
    <3>2. unit'.stage = unit.stage /\ unit'.out = unit.out /\ unit'.acc = unit.acc
          /\ unit'.xr = unit.xr /\ unit'.owed = unit.owed
      BY <1>1, <3>1 DEF Typed
    <3>3. Typed(unit')
      BY <1>1, <3>1 DEF Typed
    <3> QED BY <1>1, <3>2, <3>3 DEF UnitInv, Activated
  <2>4. CASE unit.stage \in {"weight_ld", "input_ld"} /\ unit.at + 1 >= Latency(unit.stage)
    <3>1. unit' = To("idle")
      BY <1>7, <2>4 DEF PeCycle
    <3> QED BY <1>1, <2>4, <3>1 DEF UnitInv, Stages, To, Typed
  <2>5. CASE unit.stage = "multiply" /\ unit.at + 1 >= Latency(unit.stage)
    <3>1. unit' = To("accumulate")
      BY <1>7, <2>5 DEF PeCycle
    <3> QED BY <1>1, <2>5, <3>1 DEF UnitInv, Stages, To, Typed
  <2>6. CASE unit.stage = "accumulate" /\ unit.at + 1 >= Latency(unit.stage)
    <3>1. unit' = [To("activate") EXCEPT !.acc = sum, !.owed = FALSE]
      BY <1>2, <1>7, <2>6 DEF PeCycle
    <3> QED BY <1>1, <3>1 DEF UnitInv, Stages, To, Typed
  <2>7. CASE unit.stage = "activate" /\ unit.at + 1 >= Latency(unit.stage)
    <3>1. unit' = [To("output_st") EXCEPT !.out = o]
      BY <1>3, <1>4, <1>7, <2>7 DEF PeCycle
    <3>2. unit'.stage = "output_st" /\ unit'.out = o /\ unit'.acc = unit.acc
      BY <1>1, <3>1 DEF To, Typed
    <3>3. Typed(unit')
      BY <1>1, <3>1 DEF To, Stages, Typed
    <3>4. (unit.out = 4 * Clamped(Rounded(Activated(unit.acc))))'
      BY <1>1, <1>3, <1>4, <3>2 DEF Activated
    <3> QED BY <3>2, <3>3, <3>4 DEF UnitInv, Typed
  <2>8. CASE unit.stage = "output_st" /\ unit.at + 1 >= Latency(unit.stage)
    <3>1. unit' = To("done")
      BY <1>7, <2>8 DEF PeCycle
    <3> QED BY <1>1, <3>1 DEF UnitInv, Stages, To, Typed
  <2> QED BY <1>1, <2>1, <2>2, <2>3, <2>4, <2>5, <2>6, <2>7, <2>8 DEF Stages, Typed
<1> QED BY <1>6, <1>7

LEMMA UnitKeeps == UnitInv /\ [UnitCall \/ PeCycle]_unitVars => UnitInv'
<1> SUFFICES ASSUME UnitInv, [UnitCall \/ PeCycle]_unitVars PROVE UnitInv'
  OBVIOUS
<1>1. CASE UNCHANGED unitVars
  BY <1>1 DEF unitVars, UnitInv, Activated, Typed
<1>2. CASE \E w \in {-3, 2}, x \in {0, 3, 10} : LoadPair(w, x) \/ LoadOne(w, x)
  <2>1. PICK w \in Int, x \in Int : LoadPair(w, x) \/ LoadOne(w, x)
    BY <1>2
  <2> QED BY <2>1, UnitLoads
<1>3. CASE SetAccum(5)
  <2>1. unit' = [unit EXCEPT !.acc = 5] /\ Loadable
    BY <1>3 DEF SetAccum
  <2> QED BY <2>1 DEF UnitInv, Loadable, Stages, Typed
<1> QED BY <1>1, <1>2, <1>3, UnitComputes DEF UnitCall

(* A caller that loads at any time nothing is computed never has an input     *)
(* accumulated twice, and the number put out is the nearest that the output   *)
(* type holds to the activated sum.                                           *)
THEOREM UnitIsSound == UnitSpec => []PeSound
<1>1. UnitInit => UnitInv
  BY UnitStart
<1>2. UnitInv /\ [UnitCall \/ PeCycle]_unitVars => UnitInv'
  BY UnitKeeps
<1>3. UnitInv => PeSound
  BY UnitInvImplies
<1> QED BY <1>1, <1>2, <1>3, PTL DEF UnitSpec

-----------------------------------------------------------------------------
(* Programs of the instruction set.                                          *)

(* A list of anything, one longer.                                           *)
IsList(s) == \E S : s \in Seq(S)

Longer(s, i, t) ==
  /\ IsList(t) /\ Len(s) \in Nat /\ Len(t) = Len(s) + 1
  /\ t[Len(t)] = i /\ \A n \in 1 .. Len(s) : t[n] = s[n]

LEMMA ListGrows ==
  ASSUME NEW s, IsList(s), NEW i
  PROVE  Longer(s, i, Append(s, i))
<1> DEFINE t == Append(s, i)
<1>1. PICK S : s \in Seq(S)
  BY DEF IsList
<1>2. PICK S2 : S2 = S \cup {i}
  OBVIOUS
<1>3. s \in Seq(S2) /\ i \in S2
  <2>1. Len(s) \in Nat /\ DOMAIN s = 1 .. Len(s) /\ s \in [1 .. Len(s) -> S]
    BY <1>1, LenProperties
  <2>2. s \in [1 .. Len(s) -> S2]
    BY <2>1, <1>2
  <2> QED BY <2>1, <2>2, <1>2, SeqDef
<1>4. Len(s) \in Nat
  BY <1>1, LenProperties
<1>5. t \in Seq(S2) /\ Len(t) = Len(s) + 1 /\ (\A n \in 1 .. Len(s) : t[n] = s[n]) /\ t[Len(s) + 1] = i
  BY <1>3, AppendProperties
<1> QED BY <1>4, <1>5 DEF IsList, Longer

(* What the emit helpers make: only jumps and loops branch, and an           *)
(* instruction has as many operands as the encoding has room for.            *)
Formed(i) ==
  /\ i.branch \in BOOLEAN /\ i.target \in Nat /\ (i.branch => i.op \in {"JMP", "LOOP"})
  /\ i.latency = Programs!Latency(i.op) /\ Len(i.operands) \in 0 .. Programs!MaxOperands

LEMMA LatencyOf ==
  ASSUME NEW op
  PROVE  Programs!Latency(op) \in 0 .. 255 /\ (op \in {"JMP", "LOOP"} => Programs!Latency(op) = 1)
BY DEF Programs!Latency

LEMMA PlainFormed ==
  ASSUME NEW op, NEW operands, Len(operands) \in 0 .. Programs!MaxOperands
  PROVE  Formed(Programs!Plain(op, operands))
BY DEF Formed, Programs!Plain

LEMMA BranchFormed ==
  ASSUME NEW op \in {"JMP", "LOOP"}, NEW operands, Len(operands) \in 0 .. Programs!MaxOperands, NEW t \in Nat
  PROVE  Formed(Programs!Branch(op, operands, t))
BY DEF Formed, Programs!Plain, Programs!Branch

(* What is decoded again of an instruction.                                  *)
LEMMA DecodedAgain ==
  ASSUME NEW i, Formed(i), NEW d, d = Programs!Decoded(Programs!Encoded(i))
  PROVE  /\ d.op = i.op /\ d.branch = i.branch /\ d.target = 0 /\ d.latency = i.latency
         /\ Len(d.operands) = Len(i.operands)
         /\ \A j \in 1 .. Len(i.operands) : d.operands[j] = <<i.operands[j][1], i.operands[j][2] % 256>>
<1>1. PICK n \in 0 .. 6 : n = Len(i.operands)
  BY DEF Formed, Programs!MaxOperands
<1>2. PICK byte : byte = [j \in 1 .. 6 |-> IF j <= n THEN <<i.operands[j][1], i.operands[j][2] % 256>> ELSE <<"none", 0>>]
  OBVIOUS
<1>3. PICK ds : ds = [j \in 1 .. n |-> byte[j]]
  OBVIOUS
<1>4. PICK b : b = Programs!Encoded(i)
  OBVIOUS
<1>5. b.op = i.op /\ b.branch = i.branch /\ b.count = n /\ b.latency = i.latency % 256 /\ b.operands = byte
  BY <1>1, <1>2, <1>4 DEF Programs!Encoded, Programs!MaxOperands
<1>6. d.op = b.op /\ d.branch = b.branch /\ d.target = 0 /\ d.latency = b.latency /\ d.operands = ds
  BY <1>3, <1>4, <1>5 DEF Programs!Decoded
<1>7. b.latency = i.latency
  <2>1. PICK t : t = Programs!Latency(i.op)
    OBVIOUS
  <2>2. t \in 0 .. 255
    BY <2>1, LatencyOf
  <2>3. i.latency = t
    BY <2>1 DEF Formed
  <2>4. t % 256 = t
    BY <2>2
  <2> QED BY <1>5, <2>3, <2>4
<1>8. Len(ds) = n
  <2>1. PICK S : S = {byte[j] : j \in 1 .. n}
    OBVIOUS
  <2>2. ds \in [1 .. n -> S] /\ n \in Nat
    BY <1>1, <1>3, <2>1
  <2>3. ds \in Seq(S)
    BY <2>2, SeqDef
  <2>4. DOMAIN ds = 1 .. Len(ds) /\ Len(ds) \in Nat /\ DOMAIN ds = 1 .. n
    BY <2>2, <2>3, LenProperties
  <2> QED BY <2>2, <2>4
<1>9. ASSUME NEW j \in 1 .. n PROVE ds[j] = <<i.operands[j][1], i.operands[j][2] % 256>>
  <2>1. j \in 1 .. 6 /\ j <= n
    <3>1. n \in Int /\ n <= 6
      OBVIOUS
    <3> QED BY <1>9, <3>1
  <2> QED BY <1>2, <1>3, <2>1
<1> QED BY <1>1, <1>5, <1>6, <1>7, <1>8, <1>9

(* The registers of a valid program survive the encoding.                    *)
ListFormed(p) == IsList(p) /\ Len(p) \in 0 .. ProgramSize /\ \A n \in 1 .. Len(p) : Formed(p[n])

LEMMA RegistersKept ==
  ASSUME Programs!IsaAssumption, NEW i, Formed(i), Programs!RegistersExist(i), NEW d, d = Programs!Decoded(Programs!Encoded(i)),
         NEW j \in 1 .. Len(i.operands)
  PROVE  d.operands[j][1] = i.operands[j][1] /\ Programs!RegisterOf(d.operands[j]) = Programs!RegisterOf(i.operands[j])
<1>1. d.operands[j] = <<i.operands[j][1], i.operands[j][2] % 256>>
  BY DecodedAgain
<1>2. PICK k, v : k = i.operands[j][1] /\ v = i.operands[j][2]
  OBVIOUS
<1>3. k \in {"reg", "matrix"} => v \in 0 .. NumRegs - 1
  BY <1>2 DEF Programs!RegistersExist
<1>4. k \in {"reg", "matrix"} => v % 256 = v
  BY <1>3 DEF Programs!IsaAssumption
<1>5. d.operands[j][1] = k /\ d.operands[j][2] = v % 256
  BY <1>1, <1>2
<1> QED BY <1>2, <1>4, <1>5 DEF Programs!RegisterOf

LEMMA ValidReloaded ==
  ASSUME Programs!IsaAssumption, NEW p, ListFormed(p), Programs!Valid(p)
  PROVE  Programs!Valid(Programs!Reloaded(p))
<1>1. PICK n \in 0 .. ProgramSize : n = Len(p)
  BY DEF ListFormed
<1>2. PICK q : q = Programs!Reloaded(p)
  OBVIOUS
<1>3. q = [m \in 1 .. n |-> Programs!Decoded(Programs!Encoded(p[m]))]
  BY <1>1, <1>2 DEF Programs!Reloaded
<1>4. Len(q) = n
  <2>1. PICK S : S = {q[m] : m \in 1 .. n}
    OBVIOUS
  <2>2. q \in [1 .. n -> S] /\ n \in Nat
    BY <1>3, <2>1 DEF Programs!IsaAssumption
  <2>3. q \in Seq(S)
    BY <2>2, SeqDef
  <2>4. DOMAIN q = 1 .. Len(q) /\ Len(q) \in Nat /\ DOMAIN q = 1 .. n
    BY <2>2, <2>3, LenProperties
  <2> QED BY <2>2, <2>4
<1>5. ASSUME NEW m \in 1 .. n
      PROVE  Programs!OperandsCounted(q[m]) /\ Programs!RegistersExist(q[m]) /\ Programs!TargetInside(q, q[m])
  <2>1. PICK i : i = p[m]
    OBVIOUS
  <2>2. Formed(i) /\ Programs!OperandsCounted(i) /\ Programs!RegistersExist(i)
    BY <1>1, <2>1 DEF ListFormed, Programs!Valid
  <2>3. PICK d : d = Programs!Decoded(Programs!Encoded(i))
    OBVIOUS
  <2>4. q[m] = d
    BY <1>3, <2>1, <2>3
  <2>5. /\ d.op = i.op /\ d.branch = i.branch /\ d.target = 0 /\ Len(d.operands) = Len(i.operands)
        /\ \A j \in 1 .. Len(i.operands) : d.operands[j] = <<i.operands[j][1], i.operands[j][2] % 256>>
    BY <2>2, <2>3, DecodedAgain
  <2>6. Programs!OperandsCounted(d)
    BY <2>2, <2>5 DEF Programs!OperandsCounted
  <2>7. Programs!RegistersExist(d)
    <3> SUFFICES ASSUME NEW j \in 1 .. Len(i.operands), d.operands[j][1] \in {"reg", "matrix"}
                 PROVE  d.operands[j][2] \in 0 .. NumRegs - 1
      BY <2>5 DEF Programs!RegistersExist
    <3>1. PICK k, v : k = i.operands[j][1] /\ v = i.operands[j][2]
      OBVIOUS
    <3>2. d.operands[j] = <<k, v % 256>>
      BY <2>5, <3>1
    <3>3. k \in {"reg", "matrix"}
      BY <3>2
    <3>4. v \in 0 .. NumRegs - 1
      BY <2>2, <3>1, <3>3 DEF Programs!RegistersExist
    <3>5. v % 256 = v
      BY <3>4 DEF Programs!IsaAssumption
    <3> QED BY <3>2, <3>4, <3>5
  <2>8. Programs!TargetInside(q, d)
    BY <1>1, <1>4, <2>5 DEF Programs!TargetInside, Programs!IsaAssumption
  <2> QED BY <2>4, <2>6, <2>7, <2>8
<1>6. Len(q) <= ProgramSize
  BY <1>1, <1>4 DEF Programs!IsaAssumption
<1> QED BY <1>2, <1>4, <1>5, <1>6 DEF Programs!Valid

LEMMA EncodingSound ==
  ASSUME Programs!IsaAssumption, ListFormed(prog)
  PROVE  Programs!EncodingKeeps
<1>1. Len(prog) <= ProgramSize
  BY DEF ListFormed, Programs!IsaAssumption
<1>2. Programs!Valid(prog) => Programs!Valid(Programs!Reloaded(prog))
  BY ValidReloaded
<1>3. ASSUME NEW n \in 1 .. Len(prog)
      PROVE  LET i == prog[n]
                 d == Programs!Decoded(Programs!Encoded(i))
             IN /\ d.op = i.op /\ d.branch = i.branch /\ d.latency = i.latency /\ Len(d.operands) = Len(i.operands)
                /\ Programs!Valid(prog) => \A j \in 1 .. Len(i.operands) :
                     d.operands[j][1] = i.operands[j][1] /\ Programs!RegisterOf(d.operands[j]) = Programs!RegisterOf(i.operands[j])
  <2>1. PICK i : i = prog[n]
    OBVIOUS
  <2>2. PICK d : d = Programs!Decoded(Programs!Encoded(i))
    OBVIOUS
  <2>3. Formed(i)
    BY <2>1 DEF ListFormed
  <2>4. d.op = i.op /\ d.branch = i.branch /\ d.latency = i.latency /\ Len(d.operands) = Len(i.operands)
    BY <2>2, <2>3, DecodedAgain
  <2>5. ASSUME Programs!Valid(prog), NEW j \in 1 .. Len(i.operands)
        PROVE  d.operands[j][1] = i.operands[j][1] /\ Programs!RegisterOf(d.operands[j]) = Programs!RegisterOf(i.operands[j])
    <3>1. Programs!RegistersExist(i)
      BY <2>1, <2>5 DEF Programs!Valid
    <3> QED BY <2>2, <2>3, <2>5, <3>1, RegistersKept
  <2> QED BY <2>1, <2>2, <2>4, <2>5
<1> QED BY <1>1, <1>2, <1>3 DEF Programs!EncodingKeeps

(* The lowest ceiling exists, and memory's are above it right of the ridge.  *)
LEMMA LowestIs ==
  ASSUME NEW h, \A n \in 1 .. 10 : h[n][2] \in Nat
  PROVE  Programs!Lowest(h) \in 1 .. 10 /\ \A k \in 1 .. 10 : h[Programs!Lowest(h)][2] <= h[k][2]
<1> DEFINE LowestAt(n) == \A k \in 1 .. 10 : h[n][2] < h[k][2] \/ (h[n][2] = h[k][2] /\ n <= k)
           V == {h[n][2] : n \in 1 .. 10}
<1>1. PICK v \in V : \A u \in V : v <= u
  <2>1. V \in SUBSET Nat /\ h[1][2] \in V
    OBVIOUS
  <2> HIDE DEF V
  <2> QED BY <2>1, LeastElement
<1> DEFINE W == {n \in 1 .. 10 : h[n][2] = v}
<1>2. PICK n \in W : \A k \in W : n <= k
  <2>1. W \in SUBSET Nat /\ W # {}
    BY <1>1
  <2> HIDE DEF W
  <2> QED BY <2>1, LeastElement
<1>3. LowestAt(n)
  <2> SUFFICES ASSUME NEW k \in 1 .. 10 PROVE h[n][2] < h[k][2] \/ (h[n][2] = h[k][2] /\ n <= k)
    OBVIOUS
  <2>1. v <= h[k][2] /\ h[n][2] = v /\ v \in Nat /\ h[k][2] \in Nat
    BY <1>1, <1>2
  <2>2. h[k][2] = v => n <= k
    BY <1>2
  <2> QED BY <2>1, <2>2
<1>4. n \in 1 .. 10
  BY <1>2
<1> HIDE DEF LowestAt, V, W
<1>5. \E m \in 1 .. 10 : LowestAt(m)
  BY <1>3, <1>4
<1>6. Programs!Lowest(h) \in 1 .. 10 /\ LowestAt(Programs!Lowest(h))
  <2>1. Programs!Lowest(h) = CHOOSE m \in 1 .. 10 : LowestAt(m)
    BY Zenon DEF Programs!Lowest, LowestAt
  <2> QED BY <1>5, <2>1, Zenon
<1>7. PICK m \in 1 .. 10 : m = Programs!Lowest(h) /\ LowestAt(m)
  BY <1>6
<1>8. ASSUME NEW k \in 1 .. 10 PROVE h[m][2] <= h[k][2]
  <2>1. h[m][2] < h[k][2] \/ h[m][2] = h[k][2]
    BY <1>7 DEF LowestAt
  <2> QED BY <2>1
<1> QED BY <1>7, <1>8

LEMMA RooflineHolds == Programs!RooflineAgrees
<1> SUFFICES ASSUME NEW s \in [peak : {8, 20}, dram : {1, 3}, sram : {3, 4}], NEW ob \in 1 .. 24
             PROVE  /\ \A n \in 1 .. 10 : Programs!PerformanceBound(s, ob) <= Programs!Heights(s, ob)[n][2]
                    /\ Programs!ComputeBound(s, ob) => Programs!Bottleneck(s, ob)[1] \notin {"MEM_BW", "L2_BW", "L1_BW"}
  BY DEF Programs!RooflineAgrees
<1>1. PICK peak \in {8, 20}, dram \in {1, 3}, sram \in {3, 4} : peak = s.peak /\ dram = s.dram /\ sram = s.sram
  OBVIOUS
<1>2. PICK a \in Nat, b \in Nat : a = dram * ob /\ b = sram * ob
  OBVIOUS
<1>3. PICK h : h = Programs!Heights(s, ob)
  OBVIOUS
<1>4. /\ h[1] = <<"PEAK_COMPUTE", 100 * peak>> /\ h[2] = <<"SIMD_LIMITED", 75 * peak>>
      /\ h[3] = <<"FMA_LIMITED", 80 * peak>> /\ h[4] = <<"ILP_LIMITED", 60 * peak>>
      /\ h[5] = <<"BRANCH_LIMITED", 85 * peak>> /\ h[6] = <<"SPARSITY_OVERHEAD", 70 * peak>>
      /\ h[7] = <<"PRECISION_CASTING", 90 * peak>>
  BY <1>1, <1>3 DEF Programs!Heights, Programs!ComputeCeilings
<1>5. h[8] = <<"MEM_BW", 100 * a>> /\ h[9] = <<"L2_BW", 100 * b>> /\ h[10] = <<"L1_BW", 150 * b>>
  BY <1>1, <1>2, <1>3 DEF Programs!Heights, Programs!MemoryCeilings
<1>6. \A n \in 1 .. 10 : h[n][2] \in Nat
  BY <1>1, <1>2, <1>4, <1>5
<1>7. PICK m \in 1 .. 10 : m = Programs!Lowest(h) /\ \A k \in 1 .. 10 : h[m][2] <= h[k][2]
  BY <1>6, LowestIs
<1>8. Programs!Bottleneck(s, ob) = h[m] /\ Programs!PerformanceBound(s, ob) = h[m][2]
  BY <1>3, <1>7 DEF Programs!Bottleneck, Programs!PerformanceBound
<1>9. ASSUME Programs!ComputeBound(s, ob) PROVE h[m][1] \notin {"MEM_BW", "L2_BW", "L1_BW"}
  <2>1. peak <= a /\ a <= b
    <3>1. ob * s.dram >= s.peak
      BY <1>9 DEF Programs!ComputeBound
    <3>2. peak <= a
      BY <1>1, <1>2, <3>1
    <3>3. dram <= sram
      BY <1>1
    <3> QED BY <1>1, <1>2, <3>2, <3>3
  <2>2. h[m][2] <= 60 * peak
    BY <1>4, <1>7
  <2>3. m \notin {8, 9, 10}
    BY <1>1, <1>2, <1>5, <2>1, <2>2
  <2>4. m \in {1, 2, 3, 4, 5, 6, 7}
    BY <2>3
  <2> QED BY <1>4, <2>4
<1> QED BY <1>3, <1>7, <1>8, <1>9

(* The program and its run.  A run is never at more instructions than it has *)
(* passed since its last branch.                                             *)
PcKnown(p, pc) == pc <= Len(p) \/ \E n \in 1 .. Len(p) : p[n].branch /\ p[n].target = pc
PassesBounded(p, c) ==
  c.ops <= c.branches * Len(p) + c.pc /\ c.ops <= c.branches * Len(p) + Len(p) /\ c.branches <= c.cycle
IsaCtx(c) ==
  \E B : c \in [pc : Nat, cycle : Nat, halted : BOOLEAN, running : BOOLEAN, ops : Nat, branches : Nat, stalls : B, bytes : B]
IsaInv == ListFormed(prog) /\ IsaCtx(ctx) /\ PcKnown(prog, ctx.pc) /\ PassesBounded(prog, ctx)

LEMMA CtxTyped ==
  ASSUME NEW c, IsaCtx(c)
  PROVE  c.pc \in Nat /\ c.cycle \in Nat /\ c.ops \in Nat /\ c.branches \in Nat
BY DEF IsaCtx

(* What the end of a run and the start of one leave of the counters.         *)
Flagged(c, d) == d = [c EXCEPT !.halted = TRUE, !.running = FALSE] \/ d = [c EXCEPT !.running = TRUE]
SameCounters(c, d) == d.pc = c.pc /\ d.cycle = c.cycle /\ d.ops = c.ops /\ d.branches = c.branches

LEMMA CtxFlagged ==
  ASSUME NEW c, IsaCtx(c), NEW d,
         Flagged(c, d)
  PROVE  IsaCtx(d) /\ SameCounters(c, d)
<1>1. PICK B : c \in [pc : Nat, cycle : Nat, halted : BOOLEAN, running : BOOLEAN, ops : Nat, branches : Nat, stalls : B, bytes : B]
  BY DEF IsaCtx
<1>2. d \in [pc : Nat, cycle : Nat, halted : BOOLEAN, running : BOOLEAN, ops : Nat, branches : Nat, stalls : B, bytes : B]
  BY <1>1 DEF Flagged
<1>3. SameCounters(c, d)
  BY <1>1 DEF Flagged, SameCounters
<1> QED BY <1>2, <1>3 DEF IsaCtx

LEMMA StartCtx == IsaCtx(Programs!Start) /\ Programs!Start.pc = 0 /\ Programs!Start.cycle = 0 /\ Programs!Start.ops = 0 /\ Programs!Start.branches = 0
<1>1. Programs!Start \in [pc : Nat, cycle : Nat, halted : BOOLEAN, running : BOOLEAN, ops : Nat, branches : Nat, stalls : Nat, bytes : Nat]
  BY DEF Programs!Start
<1>2. IsaCtx(Programs!Start)
  BY <1>1 DEF IsaCtx
<1> QED BY <1>2 DEF Programs!Start

LEMMA Times ==
  ASSUME NEW b \in Nat, NEW n \in Nat
  PROVE  b * n \in Nat /\ (b + 1) * n = b * n + n /\ b * (n + 1) = b * n + b
OBVIOUS

(* A longer program bounds the operations no less.                           *)
LEMMA BoundGrows ==
  ASSUME NEW o \in Nat, NEW b \in Nat, NEW k \in Nat, NEW pc \in Nat, o <= b * k + pc, o <= b * k + k
  PROVE  o <= b * (k + 1) + pc /\ o <= b * (k + 1) + (k + 1)
<1>1. PICK t, u : t = b * k /\ u = b * (k + 1)
  OBVIOUS
<1>2. t \in Nat /\ u = t + b
  BY <1>1, Times
<1>3. o <= t + pc /\ o <= t + k
  BY <1>1
<1>4. o <= u + pc /\ o <= u + (k + 1)
  BY <1>2, <1>3
<1> QED BY <1>1, <1>4

LEMMA IsaStarts == Programs!IsaAssumption /\ Programs!IsaInit => IsaInv
<1> SUFFICES ASSUME Programs!IsaAssumption, prog = <<>>, ctx = Programs!Start PROVE IsaInv
  BY DEF Programs!IsaInit
<1>1. Len(prog) = 0
  OBVIOUS
<1>2. ListFormed(prog)
  <2>1. prog \in Seq({})
    OBVIOUS
  <2> QED BY <1>1, <2>1 DEF ListFormed, IsList, Programs!IsaAssumption
<1>3. PcKnown(prog, 0)
  BY <1>1 DEF PcKnown
<1>4. PassesBounded(prog, ctx)
  BY <1>1, StartCtx DEF PassesBounded
<1> QED BY <1>2, <1>3, <1>4, StartCtx DEF IsaInv

(* A longer program.                                                         *)
LEMMA EmitKeeps ==
  ASSUME Programs!IsaAssumption, IsaInv, NEW i, Formed(i), Programs!Emit(i)
  PROVE  IsaInv'
<1>1. ctx' = ctx
  BY DEF Programs!Emit
<1>2. CASE UNCHANGED prog
  BY <1>1, <1>2 DEF IsaInv
<1>3. CASE prog' = Append(prog, i) /\ Len(prog) < ProgramSize
  <2>1. PICK p, q, c : p = prog /\ q = prog' /\ c = ctx
    OBVIOUS
  <2>2. ListFormed(p) /\ q = Append(p, i)
    BY <1>3, <2>1 DEF IsaInv
  <2>3. /\ IsList(q) /\ Len(p) \in Nat /\ Len(q) = Len(p) + 1
        /\ q[Len(q)] = i /\ \A n \in 1 .. Len(p) : q[n] = p[n]
    <3>1. IsList(p)
      BY <2>2 DEF ListFormed
    <3>2. Longer(p, i, q)
      BY <2>2, <3>1, ListGrows
    <3> QED BY <3>2 DEF Longer
  <2>4. PICK k \in Nat : k = Len(p) /\ Len(q) = k + 1
    BY <2>3
  <2>5. ListFormed(q)
    <3>1. k + 1 \in 0 .. ProgramSize
      BY <1>3, <2>1, <2>4 DEF Programs!IsaAssumption
    <3>2. ASSUME NEW n \in 1 .. k + 1 PROVE Formed(q[n])
      <4>1. CASE n = k + 1
        BY <2>3, <2>4, <4>1
      <4>2. CASE n # k + 1
        <5>1. n \in 1 .. k
          BY <4>2
        <5> QED BY <2>2, <2>3, <2>4, <5>1 DEF ListFormed
      <4> QED BY <4>1, <4>2
    <3> QED BY <2>3, <2>4, <3>1, <3>2 DEF ListFormed
  <2>6. PcKnown(q, c.pc)
    <3>1. PcKnown(p, c.pc) /\ c.pc \in Nat
      <4>1. PcKnown(p, c.pc) /\ IsaCtx(c)
        BY <2>1 DEF IsaInv
      <4> QED BY <4>1, CtxTyped
    <3>2. CASE c.pc <= k
      BY <2>4, <3>1, <3>2 DEF PcKnown
    <3>3. CASE \E n \in 1 .. k : p[n].branch /\ p[n].target = c.pc
      <4>1. PICK n \in 1 .. k : p[n].branch /\ p[n].target = c.pc
        BY <3>3
      <4>2. n \in 1 .. k + 1 /\ q[n] = p[n]
        BY <2>3, <2>4
      <4> QED BY <2>4, <4>1, <4>2 DEF PcKnown
    <3> QED BY <2>4, <3>1, <3>2, <3>3 DEF PcKnown
  <2>7. PassesBounded(q, c)
    <3>1. PassesBounded(p, c) /\ IsaCtx(c)
      BY <2>1 DEF IsaInv
    <3>2. c.pc \in Nat /\ c.ops \in Nat /\ c.branches \in Nat
      BY <3>1, CtxTyped
    <3>3. PICK o \in Nat, b \in Nat, pc \in Nat : o = c.ops /\ b = c.branches /\ pc = c.pc
      BY <3>2
    <3>4. o <= b * k + pc /\ o <= b * k + k /\ b <= c.cycle
      BY <2>4, <3>1, <3>3 DEF PassesBounded
    <3>5. o <= b * (k + 1) + pc /\ o <= b * (k + 1) + (k + 1)
      BY <3>4, BoundGrows
    <3> QED BY <2>4, <3>3, <3>4, <3>5 DEF PassesBounded
  <2>8. IsaCtx(c)
    BY <2>1 DEF IsaInv
  <2> QED BY <1>1, <2>1, <2>5, <2>6, <2>7, <2>8 DEF IsaInv
<1> QED BY <1>2, <1>3 DEF Programs!Emit, Programs!AddInstr, Programs!IsaAssumption, IsaInv, ListFormed

LEMMA EmitCallKeeps ==
  ASSUME Programs!IsaAssumption, IsaInv, Programs!EmitCall
  PROVE  IsaInv'
<1>1. ASSUME NEW op, NEW d, NEW a, NEW b, Programs!EmitScalar(op, d, a, b) PROVE IsaInv'
  <2>1. PICK s : /\ Programs!Emit(Programs!Plain(op, s))
                 /\ s = IF b >= 0 THEN <<Programs!Reg(d), Programs!Reg(a), Programs!Reg(b)>> ELSE <<Programs!Reg(d), Programs!Reg(a)>>
    BY <1>1 DEF Programs!EmitScalar
  <2>2. Len(s) \in 0 .. Programs!MaxOperands
    BY <2>1 DEF Programs!MaxOperands
  <2> QED BY <2>1, <2>2, PlainFormed, EmitKeeps
<1>2. ASSUME NEW op, NEW n, Programs!EmitVector(op, 0, 0, 0, n) PROVE IsaInv'
  <2>1. PICK s : /\ Programs!Emit(Programs!Plain(op, s))
                 /\ s = <<Programs!VectorReg(0), Programs!VectorReg(0), Programs!VectorReg(0), Programs!Imm(n)>>
    BY <1>2 DEF Programs!EmitVector
  <2>2. Len(s) \in 0 .. Programs!MaxOperands
    BY <2>1 DEF Programs!MaxOperands
  <2> QED BY <2>1, <2>2, PlainFormed, EmitKeeps
<1>3. ASSUME NEW op, NEW n, NEW m, Programs!EmitMemory(op, 0, n, m) PROVE IsaInv'
  <2>1. PICK s : Programs!Emit(Programs!Plain(op, s)) /\ s = <<Programs!Reg(0), Programs!Mem(n), Programs!Imm(m)>>
    BY <1>3 DEF Programs!EmitMemory
  <2>2. Len(s) \in 0 .. Programs!MaxOperands
    BY <2>1 DEF Programs!MaxOperands
  <2> QED BY <2>1, <2>2, PlainFormed, EmitKeeps
<1>4. ASSUME NEW n, Programs!EmitMatmul(0, 0, 0, n) PROVE IsaInv'
  <2>1. PICK s : /\ Programs!Emit(Programs!Plain("MATMUL", s))
                 /\ s = <<Programs!MatrixReg(0), Programs!MatrixReg(0), Programs!MatrixReg(0), Programs!Imm(n), Programs!Imm(n), Programs!Imm(n)>>
    BY <1>4 DEF Programs!EmitMatmul
  <2>2. Len(s) \in 0 .. Programs!MaxOperands
    BY <2>1 DEF Programs!MaxOperands
  <2> QED BY <2>1, <2>2, PlainFormed, EmitKeeps
<1>5. ASSUME NEW n, Programs!EmitConv(0, 0, 0, n) PROVE IsaInv'
  <2>1. PICK s : /\ Programs!Emit(Programs!Plain("CONV2D", s))
                 /\ s = <<Programs!Reg(0), Programs!Reg(0), Programs!Reg(0), Programs!Imm(n), Programs!Imm(n), Programs!Imm(n)>>
    BY <1>5 DEF Programs!EmitConv
  <2>2. Len(s) \in 0 .. Programs!MaxOperands
    BY <2>1 DEF Programs!MaxOperands
  <2> QED BY <2>1, <2>2, PlainFormed, EmitKeeps
<1>6. ASSUME NEW t \in Nat, Programs!EmitLoop(0, t) \/ Programs!EmitJmp(t) PROVE IsaInv'
  <2>1. CASE Programs!EmitLoop(0, t)
    <3>1. PICK s : Programs!Emit(Programs!Branch("LOOP", s, t)) /\ s = <<Programs!Reg(0), Programs!Imm(t)>>
      BY <2>1 DEF Programs!EmitLoop
    <3>2. Len(s) \in 0 .. Programs!MaxOperands
      BY <3>1 DEF Programs!MaxOperands
    <3> QED BY <3>1, <3>2, BranchFormed, EmitKeeps
  <2>2. CASE Programs!EmitJmp(t)
    <3>1. PICK s : Programs!Emit(Programs!Branch("JMP", s, t)) /\ s = <<Programs!Imm(t)>>
      BY <2>2 DEF Programs!EmitJmp
    <3>2. Len(s) \in 0 .. Programs!MaxOperands
      BY <3>1 DEF Programs!MaxOperands
    <3> QED BY <3>1, <3>2, BranchFormed, EmitKeeps
  <2> QED BY <1>6, <2>1, <2>2
<1>7. ASSUME NEW op, Programs!EmitBare(op) PROVE IsaInv'
  <2>1. PICK s : Programs!Emit(Programs!Plain(op, s)) /\ s = <<>>
    BY <1>7 DEF Programs!EmitBare
  <2>2. Len(s) \in 0 .. Programs!MaxOperands
    BY <2>1 DEF Programs!MaxOperands
  <2> QED BY <2>1, <2>2, PlainFormed, EmitKeeps
<1>8. ProgramSize - 1 \in Nat /\ 0 \in Nat
  BY DEF Programs!IsaAssumption
<1> QED BY <1>1, <1>2, <1>3, <1>4, <1>5, <1>6, <1>7, <1>8 DEF Programs!EmitCall

LEMMA SameKept ==
  ASSUME NEW p, NEW c, NEW e, ListFormed(p), IsaCtx(e), PcKnown(p, c.pc), PassesBounded(p, c), SameCounters(c, e),
         prog' = p, ctx' = e
  PROVE  IsaInv'
<1>1. PcKnown(p, e.pc)
  BY DEF SameCounters
<1>2. PassesBounded(p, e)
  BY DEF SameCounters, PassesBounded
<1> QED BY <1>1, <1>2 DEF IsaInv

(* One instruction: where it goes is known, and it is one more since the     *)
(* last branch or the first after one.                                       *)
LEMMA ExecKeeps ==
  ASSUME IsaInv, Programs!ExecStep
  PROVE  IsaInv'
<1>1. PICK p, c, e : p = prog /\ c = ctx /\ e = Programs!Executed /\ prog' = p /\ ctx' = e
  BY DEF Programs!ExecStep
<1>2. ListFormed(p) /\ IsaCtx(c) /\ PcKnown(p, c.pc) /\ PassesBounded(p, c)
  BY <1>1 DEF IsaInv
<1>3. c.pc \in Nat /\ c.cycle \in Nat /\ c.ops \in Nat /\ c.branches \in Nat
  BY <1>2, CtxTyped
<1>4. PICK k \in Nat : k = Len(p)
  <2>1. Len(p) \in Nat
    <3>1. PICK S : p \in Seq(S)
      BY <1>2 DEF ListFormed, IsList
    <3> QED BY <3>1, LenProperties
  <2> QED BY <2>1
<1>5. CASE c.pc >= k
  <2>1. Flagged(c, e)
    <3>1. e = [c EXCEPT !.halted = TRUE, !.running = FALSE]
      BY <1>1, <1>4, <1>5 DEF Programs!Executed
    <3> QED BY <3>1, Zenon DEF Flagged
  <2>2. IsaCtx(e) /\ SameCounters(c, e)
    BY <1>2, <2>1, CtxFlagged
  <2> QED BY <1>1, <1>2, <2>2, SameKept
<1>6. CASE c.pc < k
  <2>1. PICK i : i = p[c.pc + 1]
    OBVIOUS
  <2>2. c.pc + 1 \in 1 .. k /\ Formed(i)
    BY <1>2, <1>3, <1>4, <1>6, <2>1 DEF ListFormed
  <2>3. PICK next, lat, one, st, by :
          /\ next = Programs!NextPc(i) /\ lat = Programs!Latency(i.op) /\ one = (IF i.branch THEN 1 ELSE 0)
          /\ st = ctx.stalls + (IF next >= Len(prog) /\ ~(i.op = "HALT") THEN 1 ELSE 0) /\ by = ctx.bytes + Programs!Bytes(i)
    OBVIOUS
  <2>4. next = IF i.branch THEN i.target ELSE c.pc + 1
    BY <1>1, <2>3 DEF Programs!NextPc
  <2>5. e = [pc |-> next, cycle |-> c.cycle + lat, halted |-> i.op = "HALT", running |-> ~(i.op = "HALT"),
             ops |-> c.ops + 1, branches |-> c.branches + one, stalls |-> st, bytes |-> by]
    <3>1. ~(ctx.pc >= Len(prog)) /\ i = prog[ctx.pc + 1]
      BY <1>1, <1>3, <1>4, <1>6, <2>1
    <3>2. Programs!Executed = [pc |-> next, cycle |-> ctx.cycle + lat, halted |-> i.op = "HALT", running |-> ~(i.op = "HALT"),
             ops |-> ctx.ops + 1, branches |-> ctx.branches + one, stalls |-> st, bytes |-> by]
      BY <2>3, <3>1, Zenon DEF Programs!Executed
    <3> QED BY <1>1, <3>2, Zenon
  <2>6. lat \in Nat /\ one \in {0, 1} /\ one <= lat /\ next \in Nat
    <3>1. lat \in Nat /\ (i.branch => lat = 1)
      <4>1. i.branch => i.op \in {"JMP", "LOOP"}
        BY <2>2 DEF Formed
      <4>2. lat \in 0 .. 255 /\ (i.op \in {"JMP", "LOOP"} => lat = 1)
        BY <2>3, LatencyOf, Zenon
      <4> QED BY <4>1, <4>2
    <3>2. next \in Nat
      BY <1>3, <2>2, <2>4 DEF Formed
    <3> QED BY <2>3, <3>1, <3>2
  <2>7. e \in [pc : Nat, cycle : Nat, halted : BOOLEAN, running : BOOLEAN, ops : Nat, branches : Nat, stalls : {st, by}, bytes : {st, by}]
    BY <1>3, <2>5, <2>6
  <2>8. IsaCtx(e)
    BY <2>7 DEF IsaCtx
  <2>9. e.pc = next /\ e.cycle = c.cycle + lat /\ e.ops = c.ops + 1 /\ e.branches = c.branches + one
    BY <2>5
  <2>10. PcKnown(p, next)
    <3>1. CASE i.branch
      BY <1>4, <2>1, <2>2, <2>4, <3>1 DEF PcKnown
    <3>2. CASE ~i.branch
      BY <1>3, <1>4, <1>6, <2>4, <3>2 DEF PcKnown
    <3> QED BY <3>1, <3>2
  <2>11. PassesBounded(p, e)
    <3>1. PICK b \in Nat : b = c.branches * k
      BY <1>3, Times
    <3>2. c.ops <= b + c.pc /\ c.ops <= b + k /\ c.branches <= c.cycle
      BY <1>2, <1>4, <3>1 DEF PassesBounded
    <3>3. CASE one = 0
      <4>1. e.branches * k = b /\ next = c.pc + 1
        <5>1. ~i.branch
          BY <2>3, <3>3
        <5>2. e.branches = c.branches
          BY <1>3, <2>9, <3>3
        <5> QED BY <2>4, <3>1, <5>1, <5>2
      <4>2. e.ops <= b + next /\ e.ops <= b + k /\ e.branches <= e.cycle
        BY <1>3, <1>6, <2>6, <2>9, <3>2, <3>3, <4>1
      <4> QED BY <1>4, <2>9, <4>1, <4>2 DEF PassesBounded
    <3>4. CASE one = 1
      <4>1. e.branches * k = b + k
        <5>1. e.branches = c.branches + 1
          BY <1>3, <2>9, <3>4
        <5> QED BY <1>3, <3>1, <5>1, Times
      <4>2. e.ops <= (b + k) + next /\ e.ops <= (b + k) + k /\ e.branches <= e.cycle
        BY <1>3, <1>6, <2>6, <2>9, <3>2, <3>4
      <4> QED BY <1>4, <2>9, <4>1, <4>2 DEF PassesBounded
    <3> QED BY <2>6, <3>3, <3>4
  <2> QED BY <1>1, <1>2, <2>8, <2>9, <2>10, <2>11 DEF IsaInv
<1> QED BY <1>3, <1>5, <1>6

LEMMA RunKeeps ==
  ASSUME IsaInv, prog' = prog, ctx' = [ctx EXCEPT !.running = TRUE]
  PROVE  IsaInv'
<1>1. PICK p, c, e : p = prog /\ c = ctx /\ e = ctx'
  OBVIOUS
<1>2. ListFormed(p) /\ IsaCtx(c) /\ PcKnown(p, c.pc) /\ PassesBounded(p, c)
  BY <1>1 DEF IsaInv
<1>3. Flagged(c, e)
  <2>1. e = [c EXCEPT !.running = TRUE]
    BY <1>1
  <2> QED BY <2>1, Zenon DEF Flagged
<1>4. IsaCtx(e) /\ SameCounters(c, e)
  BY <1>2, <1>3, CtxFlagged
<1> QED BY <1>1, <1>2, <1>4, SameKept

LEMMA ResetKeeps ==
  ASSUME IsaInv, prog' = prog, ctx' = Programs!Start
  PROVE  IsaInv'
<1>1. PICK p, e : p = prog /\ e = Programs!Start
  OBVIOUS
<1>2. PICK k \in Nat : k = Len(p)
  <2>1. PICK S : prog \in Seq(S)
    BY DEF IsaInv, ListFormed, IsList
  <2> QED BY <1>1, <2>1, LenProperties
<1>3. IsaCtx(e) /\ e.pc = 0 /\ e.cycle = 0 /\ e.ops = 0 /\ e.branches = 0
  BY <1>1, StartCtx
<1>4. PcKnown(p, 0)
  BY <1>2 DEF PcKnown
<1>5. PassesBounded(p, e)
  <2>1. 0 * k = 0
    OBVIOUS
  <2> QED BY <1>2, <1>3, <2>1 DEF PassesBounded
<1> QED BY <1>1, <1>3, <1>4, <1>5 DEF IsaInv

LEMMA IsaKeeps == Programs!IsaAssumption /\ IsaInv /\ [Programs!IsaStep]_isaVars => IsaInv'
<1> SUFFICES ASSUME Programs!IsaAssumption, IsaInv, [Programs!IsaStep]_isaVars PROVE IsaInv'
  OBVIOUS
<1>1. CASE UNCHANGED <<prog, ctx>>
  BY <1>1 DEF IsaInv
<1>2. CASE \E b \in Budgets : Programs!Run(b)
  <2>1. prog' = prog /\ ctx' = [ctx EXCEPT !.running = TRUE]
    BY <1>2 DEF Programs!Run
  <2> QED BY <2>1, RunKeeps
<1>3. CASE Programs!ExecReset
  BY <1>3, ResetKeeps DEF Programs!ExecReset
<1>4. CASE Programs!EmitCall
  BY <1>4, EmitCallKeeps
<1>5. CASE Programs!ExecStep
  BY <1>5, ExecKeeps
<1>6. CASE Programs!AllocRegister \/ (\E r \in inUse : Programs!FreeRegister(r)) \/ Programs!RunReturns
  BY <1>1, <1>6 DEF Programs!AllocRegister, Programs!FreeRegister, Programs!RunReturns
<1> QED BY <1>1, <1>2, <1>3, <1>4, <1>5, <1>6 DEF Programs!IsaStep, Programs!IsaCall, isaVars

LEMMA IsaInvImplies == Programs!IsaAssumption /\ IsaInv => Programs!ProgramsSound
<1> SUFFICES ASSUME Programs!IsaAssumption, IsaInv PROVE Programs!ProgramsSound
  OBVIOUS
<1>1. PICK p, c : p = prog /\ c = ctx
  OBVIOUS
<1>2. ListFormed(p) /\ IsaCtx(c) /\ PcKnown(p, c.pc) /\ PassesBounded(p, c)
  BY <1>1 DEF IsaInv
<1>3. PICK k \in Nat : k = Len(p)
  <2>1. PICK S : p \in Seq(S)
    BY <1>2 DEF ListFormed, IsList
  <2> QED BY <2>1, LenProperties
<1>4. c.pc \in Nat /\ c.ops \in Nat /\ c.branches \in Nat
  BY <1>2, CtxTyped
<1>5. Programs!StaysInside
  <2> SUFFICES ASSUME Programs!Valid(p) PROVE c.pc <= k
    BY <1>1, <1>3 DEF Programs!StaysInside
  <2>1. CASE \E n \in 1 .. k : p[n].branch /\ p[n].target = c.pc
    <3>1. PICK n \in 1 .. k : p[n].branch /\ p[n].target = c.pc
      BY <2>1
    <3>2. p[n].target < k
      BY <1>3, <3>1 DEF Programs!Valid, Programs!TargetInside
    <3> QED BY <1>4, <3>1, <3>2
  <2> QED BY <1>2, <1>3, <2>1 DEF PcKnown
<1>6. Programs!RunsBounded
  <2>1. (c.branches + 1) * k = c.branches * k + k
    BY <1>4, Times
  <2> QED BY <1>1, <1>2, <1>3, <2>1 DEF PassesBounded, Programs!RunsBounded
<1>7. Programs!EncodingKeeps
  BY <1>1, <1>2, EncodingSound
<1> QED BY <1>5, <1>6, <1>7, RooflineHolds DEF Programs!ProgramsSound

(* The array, the processing element and the programs, side by side as the   *)
(* run has them, for every size of array, register file and program: the     *)
(* scans are exact, elements use an input once and put out the nearest       *)
(* number, a valid program stays inside itself, its runs are bounded, and    *)
(* encoding loses no register.                                               *)
THEOREM ComputeIsSound == SystolicAssumption /\ Programs!IsaAssumption => (MCSpec => []ComputeSound)
<1> SUFFICES ASSUME SystolicAssumption, Programs!IsaAssumption PROVE MCSpec => []ComputeSound
  OBVIOUS
<1> DEFINE Inv == ArrayInv /\ UnitInv /\ IsaInv
<1>1. MCInit => Inv
  BY ArrayStart, UnitStart, IsaStarts DEF MCInit
<1>2. Inv /\ [MCNext]_allVars => Inv'
  <2> SUFFICES ASSUME Inv, [MCNext]_allVars PROVE Inv'
    OBVIOUS
  <2>1. /\ [ArrayCall \/ ArrayWork]_arrayVars /\ [UnitCall \/ PeCycle]_unitVars
        /\ [Programs!IsaStep]_isaVars
    BY DEF MCNext, allVars, BufferPart, ArrayPart, UnitPart, IsaPart, ArrayStep, UnitStep
  <2> QED BY <2>1, ArrayKeeps, UnitKeeps, IsaKeeps
<1>3. Inv => ComputeSound
  BY ArrayInvImplies, UnitInvImplies, IsaInvImplies DEF ComputeSound
<1> QED BY <1>1, <1>2, <1>3, PTL DEF MCSpec
=============================================================================
