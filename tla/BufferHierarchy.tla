--------------------------- MODULE BufferHierarchy ---------------------------
(***************************************************************************)
(* The L2 buffer and the DMA engine of the accelerator at work together    *)
(* (buffer_hierarchy_t, dma_load_weights, dma_load_inputs): a load takes a *)
(* segment and submits the transfer that fills it.                         *)
(*                                                                         *)
(* The engine (dma_engine_t) has channels, a queue of prefetches, and a    *)
(* tick that advances every busy channel in turn.  A transfer that         *)
(* completes calls back in the middle of the tick, and the callback may    *)
(* give the engine more to do.                                             *)
(*                                                                         *)
(* A level (buf_level_t) is a table of segments handed out first-fit.  A   *)
(* segment much larger than the request is split; one that is split is     *)
(* never joined again.                                                     *)
(***************************************************************************)
EXTENDS Integers, Sequences, FiniteSets

CONSTANTS
  Transfers,     \* the descriptors callers have
  NoTransfer,
  Cycles,        \* transfer_cycles, from size and bandwidth
  NumChannels,   \* num_channels
  QueueDepth     \* BUF_MAX_PREFETCH_Q

ASSUME DmaAssumption ==
  /\ NoTransfer \notin Transfers /\ NumChannels \in Nat /\ QueueDepth \in Nat
  /\ Cycles \in [Transfers -> Nat \ {0}]

VARIABLES
  channels,      \* the transfer of every channel and how long it has run (complete_cycle)
  active,        \* active_transfers
  queue,         \* prefetch_queue between prefetch_head and prefetch_tail
  status,        \* of every descriptor
  at,            \* the channel the tick is at; 0 outside dma_tick
  calling,       \* on_complete of that channel's transfer is running
  waiting        \* "no", or how far dma_wait_all is: "asked", "ticked"

dmaVars == <<channels, active, queue, status, at, calling, waiting>>

Channels == 1 .. NumChannels
Quiet == [job |-> NoTransfer, elapsed |-> 0]
Busy == {i \in Channels : channels[i].job # NoTransfer}
Open == Channels \ Busy

DmaInit ==
  /\ channels = [i \in Channels |-> Quiet] /\ active = 0 /\ queue = <<>>
  /\ status = [t \in Transfers |-> "new"]
  /\ at = 0 /\ calling = FALSE /\ waiting = "no"

(* The caller has control between calls and in a callback. *)
MayCall == calling \/ (at = 0 /\ waiting = "no")

FirstOpen == {i \in Open : \A j \in Open : i <= j}

(* dma_submit with a channel left; without one it does nothing. *)
Start(t) ==
  /\ \E i \in FirstOpen : channels' = [channels EXCEPT ![i] = [job |-> t, elapsed |-> 0]]
  /\ active' = active + 1
  /\ status' = [status EXCEPT ![t] = "running"]

Submit(t) ==
  /\ MayCall /\ status[t] = "new" /\ Open # {}
  /\ Start(t) /\ UNCHANGED <<queue, at, calling, waiting>>

Prefetch(t) ==
  /\ MayCall /\ status[t] = "new" /\ Len(queue) < QueueDepth
  /\ queue' = Append(queue, t) /\ status' = [status EXCEPT ![t] = "queued"]
  /\ UNCHANGED <<channels, active, at, calling, waiting>>

(* A tick begins: the caller's loop, or dma_wait_all while something runs. *)
Tick ==
  /\ at = 0 /\ (waiting = "no" \/ active > 0)
  /\ at' = 1 /\ UNCHANGED <<channels, active, queue, status, calling, waiting>>

Pass ==                   \* the channel is idle, or its transfer goes on
  /\ at \in Channels /\ ~ calling
  /\ \/ channels[at].job = NoTransfer /\ UNCHANGED channels
     \/ /\ channels[at].job # NoTransfer
        /\ channels[at].elapsed + 1 < Cycles[channels[at].job]
        /\ channels' = [channels EXCEPT ![at].elapsed = @ + 1]
  /\ at' = at + 1 /\ UNCHANGED <<active, queue, status, calling, waiting>>

StillCounted == active        \* faulty: a transfer that is done goes on counting
Finished == active - 1

Complete ==
  /\ at \in Channels /\ ~ calling /\ channels[at].job # NoTransfer
  /\ channels[at].elapsed + 1 >= Cycles[channels[at].job]
  /\ channels' = [channels EXCEPT ![at] = Quiet]
  /\ active' = Finished
  /\ status' = [status EXCEPT ![channels[at].job] = "done"]
  /\ calling' = TRUE /\ UNCHANGED <<queue, at, waiting>>

CallbackReturns ==
  /\ calling /\ calling' = FALSE /\ at' = at + 1
  /\ UNCHANGED <<channels, active, queue, status, waiting>>

QueueRest == Tail(queue)

WhileBusy == queue # <<>> /\ Open # {} /\ Busy # {}   \* faulty: an idle engine is not fed
MayPrefetch == queue # <<>> /\ Open # {}

(* The end of the tick: one prefetch starts if a channel is left. *)
EndTick ==
  /\ at = NumChannels + 1
  /\ \/ MayPrefetch /\ Start(Head(queue)) /\ queue' = QueueRest
     \/ ~ MayPrefetch /\ UNCHANGED <<channels, active, status, queue>>
  /\ at' = 0 /\ waiting' = (IF waiting = "asked" THEN "ticked" ELSE waiting)
  /\ UNCHANGED calling

WaitAll ==
  /\ at = 0 /\ waiting = "no" /\ waiting' = "asked"
  /\ UNCHANGED <<channels, active, queue, status, at, calling>>

WaitReturns ==
  /\ at = 0 /\ waiting # "no" /\ active = 0 /\ waiting' = "no"
  /\ UNCHANGED <<channels, active, queue, status, at, calling>>

ActiveReset == 0

(* dma_reset; what was queued or running is dropped. *)
DmaReset ==
  /\ at = 0 /\ waiting = "no"
  /\ channels' = [i \in Channels |-> Quiet] /\ active' = ActiveReset /\ queue' = <<>>
  /\ status' = [t \in Transfers |-> "new"]
  /\ UNCHANGED <<at, calling, waiting>>

Engine == Pass \/ Complete \/ CallbackReturns \/ EndTick
-----------------------------------------------------------------------------
DmaTypeOK ==
  /\ channels \in [Channels -> [job : Transfers \cup {NoTransfer}, elapsed : Nat]]
  /\ active \in Nat /\ queue \in Seq(Transfers)
  /\ status \in [Transfers -> {"new", "queued", "running", "done"}]
  /\ at \in 0 .. NumChannels + 1 /\ calling \in BOOLEAN
  /\ waiting \in {"no", "asked", "ticked"}

(* What dma_is_idle and dma_wait_all go by is what the channels do, also   *)
(* in the middle of a tick and in callbacks.                               *)
ActiveAgrees == active = Cardinality(Busy)

(* A transfer is in one place at a time, and in the place its status says: *)
(* prefetches are neither started twice nor lost between queue and channel.*)
Running(t) == {i \in Channels : channels[i].job = t}
Queued(t) == {i \in DOMAIN queue : queue[i] = t}
InOnePlace ==
  \A t \in Transfers :
    /\ Cardinality(Running(t)) = IF status[t] = "running" THEN 1 ELSE 0
    /\ Cardinality(Queued(t)) = IF status[t] = "queued" THEN 1 ELSE 0

(* dma_wait_all, if it had to wait at all, leaves no prefetch behind,      *)
(* although it looks at the channels only.                                 *)
PrefetchesDrained == [][waiting = "ticked" /\ waiting' = "no" => queue = <<>>]_dmaVars

(* dma_wait_all returns, whatever callbacks add to the work. *)
WaitEnds == waiting = "asked" ~> waiting = "no"
-----------------------------------------------------------------------------
CONSTANTS
  Total,         \* total_size_bytes
  Slack,         \* what a split must leave over (256 in the code)
  MaxSegments,   \* BUF_MAX_SEGMENTS
  Sizes          \* of loads, in bytes

ASSUME LevelAssumption ==
  Total \in Nat \ {0} /\ Slack \in Nat \ {0} /\ MaxSegments \in Nat \ {0}

ASSUME SizesAssumption == Sizes \subseteq Nat \ {0}

VARIABLES
  segments,      \* base_addr, size_bytes, and whether it is handed out (locked, used_bytes)
  freeBytes,     \* free_bytes
  dst            \* of every transfer: its segment (dst_addr), 0 without one

levelVars == <<segments, freeBytes>>

Segment == [base : Nat, size : Nat, held : BOOLEAN]

LevelInit ==
  /\ segments = <<[base |-> 0, size |-> Total, held |-> FALSE]>>
  /\ freeBytes = Total

CanFit(n) == freeBytes >= n

Fits(i, n) == ~ segments[i].held /\ segments[i].size >= n

FirstFit(n) == {i \in DOMAIN segments : Fits(i, n) /\ \A j \in 1 .. i - 1 : ~ Fits(j, n)}

Splits(i, n) == segments[i].size >= n + Slack /\ Len(segments) < MaxSegments

RestAtBase(i, n) ==           \* faulty: overlaps what is handed out
  [base |-> segments[i].base, size |-> segments[i].size - n, held |-> FALSE]
Rest(i, n) ==
  [base |-> segments[i].base + n, size |-> segments[i].size - n, held |-> FALSE]

Taken(i, n) == [segments EXCEPT ![i] = [@ EXCEPT !.size = n, !.held = TRUE]]

Alloc(i, n) ==
  /\ segments' = IF Splits(i, n) THEN Append(Taken(i, n), Rest(i, n)) ELSE Taken(i, n)
  /\ freeBytes' = freeBytes - n

Free(i) ==
  /\ segments' = [segments EXCEPT ![i] = [@ EXCEPT !.held = FALSE]]
  /\ freeBytes' = freeBytes + segments[i].size
-----------------------------------------------------------------------------
vars == <<levelVars, dmaVars, dst>>

Init == LevelInit /\ DmaInit /\ dst = [t \in Transfers |-> 0]

(* dma_load_weights, dma_load_inputs.  The segment stays handed out if no  *)
(* channel is left; the transfer is submitted also if no segment was found.*)
Loading(t) ==
  IF Open # {} THEN Start(t) ELSE UNCHANGED <<channels, active, status>>

Target(t, i) == IF Open # {} THEN [dst EXCEPT ![t] = i] ELSE dst

Load(t, n) ==
  /\ MayCall /\ status[t] = "new" /\ CanFit(n)
  /\ \/ \E i \in FirstFit(n) : Alloc(i, n) /\ dst' = Target(t, i)
     \/ FirstFit(n) = {} /\ UNCHANGED <<levelVars, dst>>
  /\ Loading(t) /\ UNCHANGED <<queue, at, calling, waiting>>

(* The caller is through with what a load brought. *)
Release(t) ==
  /\ MayCall /\ status[t] = "done" /\ dst[t] # 0
  /\ Free(dst[t]) /\ dst' = [dst EXCEPT ![t] = 0]
  /\ UNCHANGED dmaVars

(* buf_hierarchy_reset leaves the segments alone. *)
Reset ==
  /\ DmaReset /\ dst' = [t \in Transfers |-> 0] /\ UNCHANGED levelVars

(* dma_store_outputs and dma_prefetch need no segment. *)
Plain(t) == (Submit(t) \/ Prefetch(t)) /\ UNCHANGED <<levelVars, dst>>

EngineStep == (Engine \/ Tick \/ WaitAll \/ WaitReturns) /\ UNCHANGED <<levelVars, dst>>

Next ==
  \/ \E t \in Transfers : Plain(t) \/ Release(t) \/ \E n \in Sizes : Load(t, n)
  \/ EngineStep \/ Reset

Spec == Init /\ [][Next]_vars

(* A call runs on to its end; dma_wait_all goes on ticking. *)
Waited == waiting # "no" /\ (Tick \/ WaitReturns)
FairSpec == Spec /\ WF_vars((Engine \/ Waited) /\ UNCHANGED <<levelVars, dst>>)
-----------------------------------------------------------------------------
LevelTypeOK == segments \in Seq(Segment) /\ Len(segments) <= MaxSegments /\ freeBytes \in Nat

End(i) == segments[i].base + segments[i].size

Apart(i, j) == End(i) <= segments[j].base \/ End(j) <= segments[i].base

(* Splitting and handing out never lets two segments share a byte, nor one *)
(* reach past the end of the buffer (buf_level_alloc).                     *)
SegmentsDisjoint ==
  /\ \A i \in 1 .. Len(segments) : End(i) <= Total
  /\ \A i, j \in 1 .. Len(segments) : i # j => Apart(i, j)

HeldBytes(s, i) == IF s[i].held THEN s[i].size ELSE 0

HandedOut(s) ==
  LET upto[i \in 0 .. Len(s)] == IF i = 0 THEN 0 ELSE upto[i - 1] + HeldBytes(s, i)
  IN  upto[Len(s)]

(* free_bytes is what is not handed out; bytes that a segment too small to *)
(* be split loses to a smaller request count as free for good.             *)
FreeBytesExact == freeBytes = Total - HandedOut(segments)

TypeOK == LevelTypeOK /\ DmaTypeOK /\ dst \in [Transfers -> 0 .. MaxSegments]

(* No two transfers, under way or finished, fill the same bytes: the       *)
(* segment of one is not handed out again before it is given back, however *)
(* loads, ticks, callbacks and resets interleave.                          *)
LoadsApart ==
  \A t, u \in Transfers : t # u /\ dst[t] # 0 /\ dst[u] # 0 => Apart(dst[t], dst[u])

(* The level's table and what loads hold of it agree: segments share no    *)
(* byte, loads share no segment, and free_bytes counts what is left.       *)
MemorySound == SegmentsDisjoint /\ LoadsApart /\ FreeBytesExact

(* A transfer is in one place only, the engine's count of running ones is  *)
(* right also in callbacks, and a wait ends with nothing queued; see       *)
(* the engine.                                                             *)
DmaSound == []TypeOK /\ []InOnePlace /\ []ActiveAgrees /\ PrefetchesDrained
=============================================================================
