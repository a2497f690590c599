------------------------------ MODULE SimKernel ------------------------------
(***************************************************************************)
(* The event-driven simulation kernel of mini-hardware-verification        *)
(* (simulation_core.c): one list of events per region, delta cycles at one *)
(* point of time, and the loop that advances time.                         *)
(*                                                                         *)
(* The kernel is one thread, but what runs inside it is not its own: every *)
(* event may be a callback that schedules more events, into regions the    *)
(* kernel is between reading and clearing.  So one action executes one     *)
(* event, together with what its callback schedules.  A signal update is   *)
(* an event that schedules nothing; the values of signals are left out.    *)
(***************************************************************************)
EXTENDS Integers, Sequences, FiniteSets

CONSTANTS
  Regions,      \* the regions callers use, of those in AllRegions
  Delays,       \* delays of FUTURE events
  MaxDelta,     \* MAX_DELTA_CYCLES (10000 in the code)
  MaxLive,      \* bound of this model: events queued at the same time
  MaxTime,      \* bound of this model: how far runs go between two resets
  OwnRegion     \* do callbacks schedule into the region being processed?

AllRegions == {"ACTIVE", "INACTIVE", "NBA", "MONITOR", "FUTURE", "POSTPONED"}

ASSUME KernelAssumption ==
  /\ Regions \subseteq AllRegions /\ Delays \subseteq Nat
  /\ MaxDelta \in Nat /\ MaxLive \in Nat /\ MaxTime \in Nat /\ OwnRegion \in BOOLEAN

VARIABLES
  queue,        \* queue_heads: the events linked in each region
  size,         \* queue_sizes, which the kernel consults instead
  time, until,  \* current_time, sim_end
  delta,        \* delta_count
  again,        \* events_remaining
  running,      \* is_running
  pc,           \* where the kernel is: a region, EVAL, STEP, or IDLE
  owed          \* history: events scheduled and not executed

vars == <<queue, size, time, until, delta, again, running, pc, owed>>

(* An event keeps the region it was scheduled for (home), the time it is   *)
(* due, which only the FUTURE region looks at, and, as history, how many   *)
(* events of its home have yet to execute before it.                       *)
Live(q, home) ==
  Cardinality({p \in AllRegions \X (1 .. MaxLive) :
                 p[2] <= Len(q[p[1]]) /\ q[p[1]][p[2]].home = home})

Total(q) == Len(q["ACTIVE"]) + Len(q["INACTIVE"]) + Len(q["NBA"])
              + Len(q["MONITOR"]) + Len(q["FUTURE"]) + Len(q["POSTPONED"])

Init ==
  /\ queue = [r \in AllRegions |-> <<>>] /\ size = [r \in AllRegions |-> 0]
  /\ time = 0 /\ until = 0 /\ delta = 0
  /\ again = FALSE /\ running = FALSE /\ pc = "IDLE" /\ owed = 0
-----------------------------------------------------------------------------
(* What a caller may ask for: nothing, or one event.                       *)
Calls == [region : Regions \ {"FUTURE"}, delay : {0}]
           \cup [region : Regions \cap {"FUTURE"}, delay : Delays]
NoCall == [region |-> "NONE", delay |-> 0]

(* sim_enqueue_event, on the lists q and on the sizes n.                   *)
Event(q, c) == [home |-> c.region, due |-> IF c.region = "FUTURE" THEN time + c.delay ELSE 0,
                ahead |-> Live(q, c.region)]

Linked(q, c) == IF c = NoCall THEN q ELSE [q EXCEPT ![c.region] = Append(@, Event(q, c))]

Counted(n, c) == IF c = NoCall THEN n ELSE [n EXCEPT ![c.region] = @ + 1]

Room == {c \in Calls : Total(queue) < MaxLive}

(* hv_sim_schedule_signal_update and hv_sim_schedule_callback between runs *)
Schedule ==
  /\ pc = "IDLE"
  /\ \E c \in Room :
       queue' = Linked(queue, c) /\ size' = Counted(size, c) /\ owed' = owed + 1
  /\ UNCHANGED <<time, until, delta, again, running, pc>>

(* hv_sim_run and, on its own, hv_sim_process_delta *)
Run ==
  /\ pc = "IDLE" /\ time < MaxTime
  /\ until' \in time + 1 .. MaxTime
  /\ running' = TRUE /\ pc' = "STEP"
  /\ UNCHANGED <<queue, size, time, delta, again, owed>>

ProcessDelta ==
  /\ pc = "IDLE"
  /\ delta' = 0 /\ again' = FALSE /\ pc' = "ACTIVE"
  /\ UNCHANGED <<queue, size, time, until, running, owed>>

Reset ==
  /\ pc = "IDLE"
  /\ queue' = [r \in AllRegions |-> <<>>] /\ size' = [r \in AllRegions |-> 0]
  /\ time' = 0 /\ delta' = 0 /\ running' = FALSE /\ owed' = 0
  /\ UNCHANGED <<until, again, pc>>
-----------------------------------------------------------------------------
(* One turn of the loop in hv_sim_run: stop, or bring in the FUTURE events *)
(* from the head of their list that are due and start the delta cycles.    *)
HasEvents == \E r \in AllRegions \ {"POSTPONED"} : size[r] > 0

DueSoon ==                    \* faulty: compares with the next point of time
  CHOOSE n \in 0 .. Len(queue["FUTURE"]) :
    /\ \A i \in 1 .. n : queue["FUTURE"][i].due <= time + 1
    /\ n < Len(queue["FUTURE"]) => queue["FUTURE"][n + 1].due > time + 1

DuePast ==                    \* faulty: an event due now is not brought in
  CHOOSE n \in 0 .. Len(queue["FUTURE"]) :
    /\ \A i \in 1 .. n : queue["FUTURE"][i].due < time
    /\ n < Len(queue["FUTURE"]) => queue["FUTURE"][n + 1].due >= time

Due ==
  CHOOSE n \in 0 .. Len(queue["FUTURE"]) :
    /\ \A i \in 1 .. n : queue["FUTURE"][i].due <= time
    /\ n < Len(queue["FUTURE"]) => queue["FUTURE"][n + 1].due > time

Finish ==
  /\ pc = "STEP" /\ ~ (time < until /\ HasEvents)
  /\ running' = FALSE /\ pc' = "IDLE"
  /\ UNCHANGED <<queue, size, time, until, delta, again, owed>>

Step ==
  /\ pc = "STEP" /\ time < until /\ HasEvents
  /\ LET f == queue["FUTURE"]
     IN /\ queue' = [queue EXCEPT !["FUTURE"] = SubSeq(f, Due + 1, Len(f)),
                                  !["ACTIVE"] = @ \o SubSeq(f, 1, Due)]
        /\ size' = [size EXCEPT !["FUTURE"] = @ - Due, !["ACTIVE"] = @ + Due]
  /\ delta' = 0 /\ again' = FALSE /\ pc' = "ACTIVE"
  /\ UNCHANGED <<time, until, running, owed>>

(* sim_process_region: one event of region r, with what its callback       *)
(* schedules.  The successor is read before the callback runs, so when the *)
(* event is the last one the list is cleared, whatever was appended to it. *)
Passed == [r \in {"ACTIVE", "INACTIVE", "NBA", "MONITOR", "POSTPONED"} |->
             CASE r = "ACTIVE" -> "INACTIVE" [] r = "INACTIVE" -> "NBA" [] r = "NBA" -> "MONITOR"
               [] r = "MONITOR" -> "POSTPONED" [] r = "POSTPONED" -> "EVAL"]

Without(q, r) ==
  LET home == Head(q[r]).home
      closer(e) == IF e.home = home THEN [e EXCEPT !.ahead = @ - 1] ELSE e
      rest == [q EXCEPT ![r] = Tail(@)]
  IN [s \in AllRegions |-> [i \in DOMAIN rest[s] |-> closer(rest[s][i])]]

Reentrant(r) == {c \in Calls : OwnRegion \/ c.region # r} \cup {NoCall}

Execute(r) ==
  /\ pc = r /\ size[r] > 0
  /\ \E c \in Reentrant(r) :
       LET q == Linked(Without(queue, r), c)
           n == Counted(size, c)
       IN /\ owed' = IF c = NoCall THEN owed - 1 ELSE owed
          /\ IF Tail(queue[r]) = <<>>
             THEN /\ queue' = [q EXCEPT ![r] = <<>>] /\ size' = [n EXCEPT ![r] = 0]
                  /\ again' = (again \/ r \in {"ACTIVE", "INACTIVE"})
                  /\ pc' = Passed[r]
             ELSE queue' = q /\ size' = n /\ UNCHANGED <<again, pc>>
  /\ UNCHANGED <<time, until, delta, running>>

Skip(r) ==
  /\ pc = r /\ size[r] = 0
  /\ pc' = Passed[r]
  /\ UNCHANGED <<queue, size, time, until, delta, again, running, owed>>

(* The NBA region is not executed: its events are linked behind the ACTIVE *)
(* ones, whose size stays as it was.                                       *)
PromoteOver ==                \* faulty: forgets what is in the ACTIVE list
  [queue EXCEPT !["ACTIVE"] = queue["NBA"], !["NBA"] = <<>>]

Promote == [queue EXCEPT !["ACTIVE"] = @ \o queue["NBA"], !["NBA"] = <<>>]

NonBlocking ==
  /\ pc = "NBA" /\ size["NBA"] > 0
  /\ queue' = Promote /\ size' = [size EXCEPT !["NBA"] = 0]
  /\ again' = TRUE /\ pc' = Passed["NBA"]
  /\ UNCHANGED <<time, until, delta, running, owed>>

(* The end of a delta cycle: the DUT's evaluation callback, the overflow   *)
(* check, and then another cycle or the next point of time.                *)
IdleRounds == IF again THEN delta ELSE delta + 1   \* faulty: busy rounds are not counted
Rounds == delta + 1
Overflow == Rounds > MaxDelta

Eval ==
  /\ pc = "EVAL"
  /\ \E c \in Room \cup {NoCall} :
       /\ queue' = Linked(queue, c) /\ size' = Counted(size, c)
       /\ owed' = IF c = NoCall THEN owed ELSE owed + 1
  /\ delta' = Rounds
  /\ \/ /\ Overflow /\ running' = FALSE /\ pc' = "IDLE" /\ UNCHANGED <<again, time>>
     \/ /\ ~ Overflow /\ again
        /\ pc' = "ACTIVE" /\ again' = FALSE /\ UNCHANGED <<running, time>>
     \/ /\ ~ Overflow /\ ~ again
        /\ pc' = IF running THEN "STEP" ELSE "IDLE"
        /\ time' = IF running THEN time + 1 ELSE time
        /\ UNCHANGED <<again, running>>
  /\ UNCHANGED until

Passes == {"ACTIVE", "INACTIVE", "MONITOR", "POSTPONED"}

Kernel ==
  \/ Finish \/ Step \/ NonBlocking \/ Eval \/ Skip("NBA")
  \/ \E r \in Passes : Execute(r) \/ Skip(r)

Next == Schedule \/ Run \/ ProcessDelta \/ Reset \/ Kernel

(* Once called, the kernel runs on; nobody has to call it. *)
Spec == Init /\ [][Next]_vars /\ WF_vars(Kernel)
-----------------------------------------------------------------------------
Events == [home : AllRegions, due : Nat, ahead : Nat]

TypeOK ==
  /\ DOMAIN queue = AllRegions
  /\ \A r \in AllRegions : \A i \in DOMAIN queue[r] : queue[r][i] \in Events
  /\ size \in [AllRegions -> Nat]
  /\ time \in 0 .. until /\ until \in 0 .. MaxTime /\ delta \in 0 .. MaxDelta + 1
  /\ again \in BOOLEAN /\ running \in BOOLEAN /\ owed \in Nat
  /\ pc \in {"IDLE", "STEP", "EVAL"} \cup DOMAIN Passed

(* No event is lost or executed twice: what was scheduled and has not been *)
(* executed is in some list, while lists are walked, cleared, split and    *)
(* joined (simulation_core.c: "If new events are generated in any region,  *)
(* we loop").                                                              *)
NothingLost == owed = Total(queue)

(* The events of one region execute in the order they were scheduled, also *)
(* those that reach the ACTIVE list by way of NBA or FUTURE.               *)
InOrder == [][\A r \in Passes : Execute(r) => Head(queue[r]).ahead = 0]_vars

(* The sizes the kernel goes by are those of the lists between delta       *)
(* cycles, but for the non-blocking events in the ACTIVE list: they are    *)
(* there and not counted.                                                  *)
Blocking(s) == {i \in DOMAIN s : s[i].home # "NBA"}
SizesAgree ==
  pc \in {"IDLE", "STEP", "EVAL"} =>
    \A r \in AllRegions :
      size[r] = IF r = "ACTIVE" THEN Cardinality(Blocking(queue[r])) ELSE Len(queue[r])

(* A FUTURE event never executes before it is due ... *)
NotEarly == \A i \in DOMAIN queue["ACTIVE"] : queue["ACTIVE"][i].due <= time

(* ... and, as long as FUTURE events are scheduled in the order of their   *)
(* times, never after: each turn of the loop brings in all that are due.   *)
Sorted(s) == \A i, j \in DOMAIN s : i < j => s[i].due <= s[j].due
OnTime ==
  [][Step /\ Sorted(queue["FUTURE"])
       => \A i \in DOMAIN queue'["FUTURE"] : queue'["FUTURE"][i].due > time]_vars

(* InOrder and OnTime, with lists and sizes that agree.                    *)
ListsSound == InOrder /\ OnTime /\ []SizesAgree /\ []TypeOK

(* Every call of the kernel returns, even when callbacks go on scheduling  *)
(* each other at the same point of time: the delta limit ends it           *)
(* (simulation_core.c: "Detects infinite delta-cycle loops").              *)
Returns == pc # "IDLE" ~> pc = "IDLE"

(* When the delta cycles of a point of time are over, every non-blocking   *)
(* update has been made (simulation_core.c: "Move NBA events to Active for *)
(* next delta").                                                           *)
NbaApplied ==
  [][Eval /\ ~ Overflow /\ pc' # "ACTIVE"
       => \A i \in DOMAIN queue["ACTIVE"] : queue["ACTIVE"][i].home # "NBA"]_vars
=============================================================================
