------------------------------ MODULE HdlSims -------------------------------
(***************************************************************************)
(* The three simulators of mini-hdl-lang (verilog_sim.c, vhdl_sim.c,       *)
(* systemverilog_sim.c), its test-bench generator (testbench_gen.c) and    *)
(* the wave viewer (waveform_view.c).  Each keeps a model of its own: a    *)
(* time-ordered event list, delta cycles of processes and their signals,   *)
(* blocks evaluated at every time, and samples by signal and time.         *)
(***************************************************************************)
EXTENDS Integers, Sequences, FiniteSets
LOCAL INSTANCE SequencesExt

CONSTANTS
  Signals,          \* nets and signals of a design
  Values,           \* values a caller gives a signal
  Watched,          \* the signals callers schedule Verilog events on
  Viewed,           \* the signals callers give value changes
  MaxProjected,     \* bound of this model: values projected when a caller drives a signal
  VsDesigns,        \* [assigns, always]: Verilog modules
  VhDesigns,        \* [resolved, processes]: VHDL architectures
  SvDesigns,        \* sequences of always blocks
  Benches,          \* [clocks, resets, stimuli]: test benches
  MaxClock,         \* bound of this model: last time events are scheduled at
  MaxTicks,         \* bound of this model: end_time of a test bench
  MaxPending,       \* bound of this model: events scheduled by callers
  MaxTurns,         \* bound of this model: turns of one delta loop
  MaxSamples        \* TB_MAX_TRANSACTIONS

VARIABLES
  vsDesign, vsNet, vsEvents, vsNow,     \* VerilogSimulator: nets, events, current_time
  vsEnd, vsStamps,  \* end_time of the run (-1: none); the time stamps of the dump
  vhDesign, vhSig, vhActive, vhTurn,    \* VHDL: signals, is_active, turns of the call (0: none)
  vhUnseen,         \* history: <<process, signal>>: an event the process has not run after
  svDesign, svSig, svBlock,             \* SystemVerilog: signals, the block that is next
  bench, tbTime, samples,               \* test bench: current_time, waveform samples
  waves, edges,     \* WvSignal.changes by signal; their transitions
  read              \* has wv_parse_vcd read the dump of the bench?

vsVars == <<vsDesign, vsNet, vsEvents, vsNow, vsEnd, vsStamps>>
vhVars == <<vhDesign, vhSig, vhActive, vhTurn, vhUnseen>>
svVars == <<svDesign, svSig, svBlock>>
tbVars == <<bench, tbTime, samples>>
wvVars == <<waves, edges, read>>
-----------------------------------------------------------------------------
(* Verilog.  An event is [time, type, signal].  vs_is_sensitive: an edge   *)
(* entry wants its own type, a level entry takes every event.              *)
Event(t, type, sig) == [time |-> t, type |-> type, signal |-> sig]
Sensitive(blk, e) ==
  \E s \in blk.sens : s.signal = e.signal /\ (s.kind = "LEVEL" \/ s.kind = e.type)

(* vs_evaluate_continuous_assigns *)
Assigned(nets, design) ==
  FoldLeft(LAMBDA n, a : [n EXCEPT ![a.lhs] = a.rhs], nets, design.assigns)

(* vs_evaluate_always_block: a blocking assignment writes its net, a       *)
(* delayed non-blocking one schedules an event on it.                      *)
Blocking(nets, blk) ==
  FoldLeft(LAMBDA n, s : IF s.kind = "BA" THEN [n EXCEPT ![s.lhs] = s.rhs] ELSE n, nets, blk.stmts)
Deferred(blk, now) ==
  LET nbas == SelectSeq(blk.stmts, LAMBDA s : s.kind = "NBA" /\ s.delay > 0)
  IN [i \in DOMAIN nbas |-> Event(now + nbas[i].delay, "LEVEL", nbas[i].lhs)]

(* vs_schedule_event and vs_set_net_value between runs *)
VsSchedule ==
  /\ vsEnd = -1 /\ Len(vsEvents) < MaxPending
  /\ \E t \in vsNow .. MaxClock, type \in {"POSEDGE", "NEGEDGE", "LEVEL"}, s \in Watched :
       vsEvents' = Append(vsEvents, Event(t, type, s))
  /\ UNCHANGED <<vsDesign, vsNet, vsNow, vsEnd, vsStamps>>
VsSetNet ==
  /\ vsEnd = -1
  /\ \E s \in Watched, v \in Values : vsNet' = [vsNet EXCEPT ![s] = v]
  /\ UNCHANGED <<vsDesign, vsEvents, vsNow, vsEnd, vsStamps>>
VsRun ==
  /\ vsEnd = -1 /\ vsEnd' \in vsNow .. MaxClock
  /\ UNCHANGED <<vsDesign, vsNet, vsEvents, vsNow, vsStamps>>

(* One turn of the loop in vs_run.  The sort is not stable: of the events  *)
(* of one time any may be first.  The event is off the list before the     *)
(* loop sees that it lies beyond the end.                                  *)
Earliest == {i \in DOMAIN vsEvents : \A j \in DOMAIN vsEvents : vsEvents[i].time <= vsEvents[j].time}
LastStamp == IF vsStamps = <<>> THEN 0 ELSE Last(vsStamps)
VsHandle(e, rest) ==
  LET blocks == SelectSeq(vsDesign.always, LAMBDA b : Sensitive(b, e))
  IN /\ vsNow' = e.time
     /\ vsNet' = FoldLeft(Blocking, Assigned(vsNet, vsDesign), blocks)
     /\ vsEvents' = rest \o FlattenSeq([i \in DOMAIN blocks |-> Deferred(blocks[i], e.time)])
     /\ vsStamps' = IF e.time # LastStamp THEN Append(vsStamps, e.time) ELSE vsStamps
     /\ UNCHANGED vsEnd
VsTurn ==
  /\ vsEnd # -1
  /\ IF vsEvents = <<>> THEN vsEnd' = -1 /\ UNCHANGED <<vsNet, vsEvents, vsNow, vsStamps>>
     ELSE \E i \in Earliest :
            LET e == vsEvents[i]
                rest == RemoveAt(vsEvents, i)
            IN IF e.time > vsEnd
               THEN /\ vsNow' = vsEnd /\ vsEnd' = -1 /\ vsEvents' = rest
                    /\ UNCHANGED <<vsNet, vsStamps>>
               ELSE VsHandle(e, rest)
  /\ UNCHANGED vsDesign

VsNext == VsSchedule \/ VsSetNet \/ VsRun \/ VsTurn
-----------------------------------------------------------------------------
(* VHDL.  vhdl_resolve_std_logic, over the values of the drivers.          *)
Resolve(ds) ==
  LET vals == {ds[i] : i \in DOMAIN ds}
      low == vals \cap {"0", "L"} # {}
      high == vals \cap {"1", "H"} # {}
  IN CASE low /\ high -> "X" [] low /\ ~ high -> "0" [] ~ low /\ high -> "1"
       [] ~ low /\ ~ high /\ "Z" \in vals -> "Z"
       [] ~ low /\ ~ high /\ "Z" \notin vals /\ vals \cap {"X", "W", "-"} # {} -> "X" [] OTHER -> "U"

(* vhdl_evaluate_process from statement i on.  An IF jumps to a target or, *)
(* when that is negative, falls through.  st: signals and unseen events.   *)
Watching(design, s) == {p \in DOMAIN design.processes : s \in design.processes[p].sens}
Raised(st, design, s) == [st EXCEPT !.unseen = @ \cup (Watching(design, s) \X {s})]
RECURSIVE Execute(_, _, _, _)
Execute(st, design, stmts, i) ==
  IF i > Len(stmts) THEN st
  ELSE LET s == stmts[i]
           jump(t) == IF t > 0 THEN t ELSE i + 1
           sig == st.sig[s.lhs]
       IN CASE s.kind = "ASSIGN" /\ s.delay = 0 ->
                 Execute(Raised([st EXCEPT !.sig[s.lhs] = [sig EXCEPT !.drivers = <<s.rhs>>, !.event = TRUE]],
                                design, s.lhs), design, stmts, i + 1)
            [] s.kind = "ASSIGN" /\ s.delay > 0 ->
                 Execute([st EXCEPT !.sig[s.lhs].projected = Append(@, s.rhs)], design, stmts, i + 1)
            [] s.kind = "IF" ->
                 Execute(st, design, stmts, jump(IF sig.value = "1" THEN s.yes ELSE s.no))

(* The first part of a turn: the active processes, in order.               *)
RunProcesses(st, design) ==
  FoldLeft(LAMBDA acc, p :
             IF ~ acc.active[p] THEN acc
             ELSE Execute([acc EXCEPT !.active[p] = FALSE, !.changed = TRUE,
                                      !.unseen = {u \in @ : u[1] # p}],
                          design, design.processes[p].stmts, 1),
           st, [p \in DOMAIN design.processes |-> p])

(* vhdl_resolve_signals: the drivers of a resolved signal decide; a signal *)
(* no one ever drove takes the next of its projected values.               *)
ResolveSignals(st, design) ==
  LET takes(s) == st.sig[s].projected # <<>> /\ st.sig[s].drivers = <<>>
      resolved(s) ==
        IF takes(s) THEN [st.sig[s] EXCEPT !.value = Head(st.sig[s].projected), !.projected = Tail(@), !.event = TRUE]
        ELSE IF s \in design.resolved /\ st.sig[s].drivers # <<>>
        THEN [st.sig[s] EXCEPT !.value = Resolve(st.sig[s].drivers)] ELSE st.sig[s]
  IN [st EXCEPT !.sig = [s \in Signals |-> resolved(s)],
                !.unseen = @ \cup UNION {Watching(design, s) \X {s} : s \in {x \in Signals : takes(x)}}]

(* The last part: events are cleared and the processes that watch the      *)
(* signal become active.                                                   *)
FirstWatcher(st, design) ==        \* faulty: the scan stops at the first process that watches
  LET woken == {p \in DOMAIN design.processes :
                  \E s \in design.processes[p].sens : st.sig[s].event
                    /\ \A q \in Watching(design, s) : p <= q}
  IN [st EXCEPT !.sig = [s \in Signals |-> [st.sig[s] EXCEPT !.event = FALSE]],
                !.active = [p \in DOMAIN @ |-> @[p] \/ p \in woken],
                !.changed = @ \/ \E s \in Signals : st.sig[s].event]
Wake(st, design) ==
  LET woken == {p \in DOMAIN design.processes : \E s \in design.processes[p].sens : st.sig[s].event}
  IN [st EXCEPT !.sig = [s \in Signals |-> [st.sig[s] EXCEPT !.event = FALSE]],
                !.active = [p \in DOMAIN @ |-> @[p] \/ p \in woken],
                !.changed = @ \/ \E s \in Signals : st.sig[s].event]
Turn(st, design) == Wake(ResolveSignals(RunProcesses(st, design), design), design)

(* What a caller does before vhdl_run_delta_cycle: it drives a signal and  *)
(* raises its event, or activates a process.                               *)
FewProjected == \A s \in Signals : Len(vhSig[s].projected) <= MaxProjected
VhDrive ==
  /\ vhTurn = 0 /\ FewProjected
  /\ \E s \in Signals, v \in Values :
       /\ vhSig' = [vhSig EXCEPT ![s].drivers = <<v>>, ![s].event = TRUE]
       /\ vhUnseen' = vhUnseen \cup (Watching(vhDesign, s) \X {s})
  /\ UNCHANGED <<vhDesign, vhActive, vhTurn>>
VhActivate ==
  /\ vhTurn = 0 /\ FewProjected
  /\ \E p \in DOMAIN vhActive : ~ vhActive[p] /\ vhActive' = [vhActive EXCEPT ![p] = TRUE]
  /\ UNCHANGED <<vhDesign, vhSig, vhTurn, vhUnseen>>

(* A turn of vhdl_run_delta_cycle; a turn that changes nothing is its last *)
VhTurn ==
  /\ vhTurn < MaxTurns
  /\ LET st == Turn([sig |-> vhSig, active |-> vhActive, unseen |-> vhUnseen, changed |-> FALSE], vhDesign)
     IN /\ vhSig' = st.sig /\ vhActive' = st.active /\ vhUnseen' = st.unseen
        /\ vhTurn' = IF st.changed THEN vhTurn + 1 ELSE 0
  /\ UNCHANGED vhDesign
VhNext == VhDrive \/ VhActivate \/ VhTurn
-----------------------------------------------------------------------------
(* SystemVerilog.  sv_evaluate_always_ff runs its statements once, with    *)
(* jumps; sv_evaluate_always_comb repeats its assignments until none       *)
(* changes a signal; a latch block does nothing.                           *)
FirstChange(sig, stmts) ==         \* faulty: the first signal that changes ends the block
  LET i == SelectInSeq(stmts, LAMBDA s : s.kind = "ASSIGN" /\ sig[s.lhs] # s.rhs)
  IN IF i = 0 THEN sig ELSE [sig EXCEPT ![stmts[i].lhs] = stmts[i].rhs]
RECURSIVE Clocked(_, _, _), Settle(_, _)
Clocked(sig, stmts, i) ==
  IF i > Len(stmts) THEN sig
  ELSE LET s == stmts[i]
           jump(t) == IF t > 0 THEN t ELSE i + 1
       IN IF s.kind = "IF" THEN Clocked(sig, stmts, jump(IF sig[s.lhs] = "1" THEN s.yes ELSE s.no))
          ELSE Clocked([sig EXCEPT ![s.lhs] = s.rhs], stmts, i + 1)
Settle(sig, stmts) ==
  LET pass == FoldLeft(LAMBDA g, s : IF s.kind = "ASSIGN" THEN [g EXCEPT ![s.lhs] = s.rhs] ELSE g, sig, stmts)
  IN IF pass = sig THEN sig ELSE Settle(pass, stmts)

SvSet ==
  /\ svBlock = 1
  /\ \E s \in Signals, v \in Values : svSig' = [svSig EXCEPT ![s] = v]
  /\ UNCHANGED <<svDesign, svBlock>>
Evaluated(sig, blk) ==
  CASE blk.kind = "FF" -> Clocked(sig, blk.stmts, 1) [] blk.kind = "COMB" -> Settle(sig, blk.stmts)
    [] OTHER -> sig
SvStep ==
  /\ svSig' = Evaluated(svSig, svDesign[svBlock])
  /\ svBlock' = IF svBlock = Len(svDesign) THEN 1 ELSE svBlock + 1
  /\ UNCHANGED svDesign
SvNext == SvSet \/ SvStep
-----------------------------------------------------------------------------
(* Test benches.  tb_evaluate_clock, tb_evaluate_reset and                 *)
(* tb_evaluate_stimulus: the value of a driver at time t.                  *)
ClockValue(c, t) == IF (t + c.phase) % c.period < (c.period * c.duty) \div 100 THEN 1 ELSE 0
ResetValue(r, t) == IF t < r.active THEN r.level ELSE 1 - r.level
StimulusValue(s, t) ==
  CASE s.kind = "SET" -> s.value
    [] s.kind = "PULSE" -> IF t % (s.high + s.low) < s.high THEN s.value ELSE 0
    [] s.kind = "RANDOM" -> s.value + ((t * s.seed) % (s.max - s.value + 1))
    [] s.kind = "INCREMENT" -> s.value + t * s.incr
    [] s.kind = "PATTERN" -> t % s.incr

(* What the drivers of a bench write at time t, in the order of tb_run.    *)
Writes(t) ==
  [i \in DOMAIN bench.clocks |-> <<bench.clocks[i].signal, ClockValue(bench.clocks[i], t)>>]
    \o [i \in DOMAIN bench.resets |-> <<bench.resets[i].signal, ResetValue(bench.resets[i], t)>>]
    \o [i \in DOMAIN bench.stimuli |-> <<bench.stimuli[i].signal, StimulusValue(bench.stimuli[i], t)>>]

(* tb_record_waveform_sample: samples beyond the limit are dropped.        *)
Record(smp, w) ==
  IF Len(smp[w[1]]) < MaxSamples THEN [smp EXCEPT ![w[1]] = Append(@, <<tbTime, w[2]>>)] ELSE smp

TbStep ==
  /\ tbTime < MaxTicks
  /\ samples' = FoldLeft(Record, samples, Writes(tbTime)) /\ tbTime' = tbTime + 1
  /\ UNCHANGED bench

(* tb_dump_waveform_vcd: the latest sample at or before t, or 0.           *)
Shown(ss, t) ==
  LET i == SelectLastInSeq(ss, LAMBDA x : x[1] <= t) IN IF i = 0 THEN 0 ELSE ss[i][2]
-----------------------------------------------------------------------------
(* The wave viewer.  wv_add_value_change: a signal that does not exist is  *)
(* passed over.                                                            *)
NoSignal == "-1"
Added(w, s, t, v) == IF s \in DOMAIN w THEN [w EXCEPT ![s] = Append(@, <<t, v>>)] ELSE w
WvAdd ==
  \E s \in Viewed \cup {NoSignal}, t \in 0 .. MaxClock, v \in Values \cup {"X", "Z"} :
    /\ s \in Signals => Len(waves[s]) < MaxPending /\ (waves[s] # <<>> => t >= Last(waves[s])[1])
    /\ waves' = Added(waves, s, t, v)
    /\ UNCHANGED <<edges, read>>

(* wv_get_signal_value_at_time, wv_detect_transitions                      *)
ValueAt(w, t) == LET i == SelectLastInSeq(w, LAMBDA c : c[1] <= t) IN IF i = 0 THEN "X" ELSE w[i][2]
Kind(before, now) ==
  CASE before = "0" /\ now = "1" -> "RISE" [] before = "1" /\ now = "0" -> "FALL"
    [] now = "X" -> "XX" [] now = "Z" -> "ZZ" [] OTHER -> "CHANGE"
WvDetect ==
  /\ edges' = [s \in Signals |-> [i \in DOMAIN waves[s] |->
       Kind(IF i = 1 THEN "X" ELSE waves[s][i - 1][2], waves[s][i][2])]]
  /\ UNCHANGED <<waves, read>>
WvNext == WvAdd \/ WvDetect

(* tb_dump_waveform_vcd, read by wv_parse_vcd: the lines of the dump carry *)
(* a time, then a value and its signal.  The reader of the changes records *)
(* each under no signal.                                                   *)
Digit(v) == IF v # 0 THEN "1" ELSE "0"
ReadChange(w, t, v, s) == Added(w, NoSignal, t, v)
Lines == FlattenSeq([t \in 1 .. tbTime |->
           SetToSeq({<<t - 1, Digit(Shown(samples[s], t - 1)), s>> : s \in Signals})])
WvParse ==
  /\ tbTime = MaxTicks /\ ~ read /\ read' = TRUE
  /\ waves' = FoldLeft(LAMBDA w, l : ReadChange(w, l[1], l[2], l[3]), [s \in Signals |-> <<>>], Lines)
  /\ UNCHANGED <<bench, tbTime, samples, edges>>
-----------------------------------------------------------------------------
SimsInit ==
  /\ vsDesign \in VsDesigns /\ vsNet = [s \in Signals |-> "X"] /\ vsEvents = <<>> /\ vsNow = 0
  /\ vsEnd = -1 /\ vsStamps = <<>>
  /\ vhDesign \in VhDesigns
  /\ vhSig = [s \in Signals |-> [value |-> "U", drivers |-> <<>>, projected |-> <<>>, event |-> FALSE]]
  /\ vhActive = [p \in DOMAIN vhDesign.processes |-> FALSE] /\ vhTurn = 0 /\ vhUnseen = {}
  /\ svDesign \in SvDesigns /\ svSig = [s \in Signals |-> "X"] /\ svBlock = 1
  /\ bench \in Benches /\ tbTime = 0 /\ samples = [s \in Signals |-> <<>>]
  /\ waves = [s \in Signals |-> <<>>] /\ edges = [s \in Signals |-> <<>>] /\ read = FALSE
-----------------------------------------------------------------------------
(* Within a run nothing is left behind the time it has reached, and the    *)
(* time stamps of the dump only grow: no reader of the file sees the past  *)
(* after the future, nor one time twice.                                   *)
TimelineKept ==
  /\ \A i \in DOMAIN vsEvents : vsEvents[i].time >= vsNow
  /\ \A i \in 2 .. Len(vsStamps) : vsStamps[i - 1] < vsStamps[i]

(* When the delta loop is over, every process has run after the last event *)
(* of each signal it watches, no value is left to be projected onto a      *)
(* signal without a driver, and the resolved signals show their drivers.   *)
ProcessesWoken ==
  vhTurn = 0 =>
    /\ \A u \in vhUnseen : vhSig[u[2]].event
    /\ \A s \in Signals : vhSig[s].projected # <<>> => vhSig[s].drivers # <<>>
    /\ \A s \in vhDesign.resolved :
         ~ vhSig[s].event /\ vhSig[s].drivers # <<>> => vhSig[s].value = Resolve(vhSig[s].drivers)

(* The loop of an acyclic design ends: after a turn for every process, one *)
(* for every value projected, one that wakes no one and the one before.    *)
Feeds(p, q) ==
  \E i \in DOMAIN vhDesign.processes[p].stmts :
    LET s == vhDesign.processes[p].stmts[i] IN s.kind = "ASSIGN" /\ s.lhs \in vhDesign.processes[q].sens
Acyclic ==
  \E rank \in [DOMAIN vhDesign.processes -> DOMAIN vhDesign.processes] :
    \A p, q \in DOMAIN vhDesign.processes : Feeds(p, q) => rank[p] < rank[q]
Delayed ==
  FoldLeft(LAMBDA n, p : n + Len(SelectSeq(p.stmts, LAMBDA s : s.kind = "ASSIGN" /\ s.delay > 0)),
           0, vhDesign.processes)
DeltaEnds == Acyclic => vhTurn <= Len(vhDesign.processes) + Delayed + 1

(* At the end of a time step the assignments of a combinational block hold *)
(* for every signal no later block writes.                                 *)
WrittenBy(blk) == {blk.stmts[i].lhs : i \in {j \in DOMAIN blk.stmts : blk.stmts[j].kind = "ASSIGN"}}
CombSettled ==
  [][svBlock' = 1 /\ svBlock = Len(svDesign) =>
       \A b \in DOMAIN svDesign : \A i \in DOMAIN svDesign[b].stmts :
         LET s == svDesign[b].stmts[i]
         IN svDesign[b].kind = "COMB" /\ s.kind = "ASSIGN"
              /\ (\A c \in b + 1 .. Len(svDesign) : s.lhs \notin WrittenBy(svDesign[c]))
              => svSig'[s.lhs] = s.rhs]_svVars

(* What a dump shows at a time is what the last driver of the signal wrote *)
(* then, as long as the samples of the signal fit; every period of a clock *)
(* that nothing else writes has its share of high ticks, wherever it       *)
(* starts.                                                                 *)
WritesOf(t, s) == SelectSeq(Writes(t), LAMBDA w : w[1] = s)
WavesTrue ==
  \A s \in Signals :
    /\ \A t \in 0 .. tbTime - 1 :
         WritesOf(t, s) # <<>> /\ Len(samples[s]) < MaxSamples => Shown(samples[s], t) = Last(WritesOf(t, s))[2]
    /\ \A i \in DOMAIN bench.clocks :
         LET c == bench.clocks[i]
         IN c.signal = s /\ Len(WritesOf(0, s)) = 1 /\ Len(samples[s]) < MaxSamples =>
              \A t \in 0 .. tbTime - c.period :
                Cardinality({u \in t .. t + c.period - 1 : Shown(samples[s], u) = 1})
                  = (c.period * c.duty) \div 100

(* A rise is seen where the value just before was 0 and is 1 from then on. *)
EdgesTrue ==
  \A s \in Signals : \A i \in DOMAIN edges[s] :
    LET w == waves[s]
        alone == (i = 1 \/ w[i - 1][1] < w[i][1]) /\ (i = Len(w) \/ w[i][1] < w[i + 1][1])
    IN alone => (edges[s][i] = "RISE" <=> ValueAt(w, w[i][1] - 1) = "0" /\ ValueAt(w, w[i][1]) = "1")

=============================================================================
