------------------------------ MODULE Riscv_proofs ------------------------------
(***************************************************************************)
(* Proofs about the RISC-V core.  CsrTrap, for all causes and every depth  *)
(* of nesting: the copy never hides an enabled interrupt, and traps nest   *)
(* as TrapStack promises.  Pipeline, for every number and width of         *)
(* registers, every size of the memories, every choice of instructions and *)
(* every hazard-free program: the five stages implement one instruction at *)
(* a time.  HartUnits, for tables of every size: the units hold what they  *)
(* were told.                                                              *)
(***************************************************************************)
EXTENDS CsrTrap, Pipeline, SequenceTheorems, WellFoundedInduction, TLAPS

(* What a handler kept is what its return needs, and the innermost one,    *)
(* while nothing came between, has the same in mstatus and in the copy.    *)
KeptOf(caller) == [mie |-> FALSE, mpie |-> caller.mie, mpp |-> caller.priv]

TrapInv ==
  /\ mstatus \in Status /\ copy \in Status /\ priv \in Modes
  /\ frames \in Seq(Frames)
  /\ \A i \in 1 .. Len(frames) :
       /\ frames[i].kept = KeptOf(frames[i].caller)
       /\ frames[i].own => /\ i = 1
                           /\ copy.mpie = frames[i].caller.mie /\ copy.mpp = frames[i].caller.priv
                           /\ mstatus.mpie = copy.mpie /\ mstatus.mpp = copy.mpp
  /\ NoHiddenEnable

Context == [priv |-> priv, mie |-> copy.mie]

LEMMA EnteredLemma ==
  ASSUME TrapInv
  PROVE  /\ Entered \in Seq(Frames) /\ Len(Entered) = Len(frames) + 1
         /\ Entered[1] = [caller |-> Context, kept |-> Pushed, own |-> TRUE]
         /\ \A i \in 1 .. Len(frames) :
              /\ Entered[i + 1].caller = frames[i].caller
              /\ Entered[i + 1].kept = frames[i].kept
              /\ ~ Entered[i + 1].own
<1> DEFINE top == [caller |-> Context, kept |-> Pushed, own |-> TRUE]
<1>1. frames \in Seq(Frames) /\ Len(frames) \in Nat /\ DOMAIN frames = 1 .. Len(frames)
      /\ \A i \in 1 .. Len(frames) : frames[i] \in Frames
  BY LenProperties, ElementOfSeq DEF TrapInv
<1>2. top \in Frames
  BY DEF TrapInv, Frames, Pushed, Status, Context
<1>3. Interrupted = [i \in 1 .. Len(frames) |-> [frames[i] EXCEPT !.own = (i > 1) /\ frames[i].own]]
  BY <1>1 DEF Interrupted
<1>4. ASSUME NEW i \in 1 .. Len(frames)
      PROVE  /\ Interrupted[i] \in Frames
             /\ Interrupted[i].caller = frames[i].caller /\ Interrupted[i].kept = frames[i].kept
             /\ ~ Interrupted[i].own
  <2>1. frames[i] \in Frames /\ frames[i].own \in BOOLEAN
    BY <1>1 DEF Frames
  <2>2. Interrupted[i] = [frames[i] EXCEPT !.own = (i > 1) /\ frames[i].own]
    BY <1>3
  <2>3. ~ ((i > 1) /\ frames[i].own)
    BY <1>1 DEF TrapInv
  <2> QED BY <2>1, <2>2, <2>3 DEF Frames
<1>5. Interrupted \in Seq(Frames) /\ Len(Interrupted) = Len(frames)
  <2>1. Interrupted \in [1 .. Len(frames) -> Frames]
    BY <1>3, <1>4
  <2> QED BY <2>1, <1>1
<1>6. Entered = <<top>> \o Interrupted
  BY DEF Entered, Context
<1> HIDE DEF top
<1>7. <<top>> \in Seq(Frames) /\ Len(<<top>>) = 1 /\ <<top>>[1] = top
  BY <1>2
<1>8. /\ Entered \in Seq(Frames) /\ Len(Entered) = 1 + Len(Interrupted)
      /\ \A i \in 1 .. 1 + Len(Interrupted) :
           Entered[i] = IF i <= 1 THEN <<top>>[i] ELSE Interrupted[i - 1]
  BY <1>5, <1>6, <1>7, ConcatProperties
<1>9. Entered[1] = top
  BY <1>1, <1>5, <1>7, <1>8
<1>10. ASSUME NEW i \in 1 .. Len(frames) PROVE Entered[i + 1] = Interrupted[i]
  BY <1>1, <1>5, <1>8
<1>11. Len(Entered) = Len(frames) + 1
  BY <1>1, <1>5, <1>8
<1>12. ASSUME NEW i \in 1 .. Len(frames)
       PROVE  /\ Entered[i + 1].caller = frames[i].caller
              /\ Entered[i + 1].kept = frames[i].kept
              /\ ~ Entered[i + 1].own
  BY <1>4, <1>10, Zenon
<1> QED BY <1>8, <1>9, <1>11, <1>12, Zenon DEF top

LEMMA TrapKeeps ==
  ASSUME TrapInv, NEW c, Trap(c)
  PROVE  TrapInv'
<1>1. /\ Entered \in Seq(Frames) /\ Len(Entered) = Len(frames) + 1
      /\ Entered[1] = [caller |-> Context, kept |-> Pushed, own |-> TRUE]
      /\ \A i \in 1 .. Len(frames) :
           /\ Entered[i + 1].caller = frames[i].caller
           /\ Entered[i + 1].kept = frames[i].kept
           /\ ~ Entered[i + 1].own
  BY EnteredLemma
<1>2. /\ frames' = Entered /\ mstatus' = Pushed /\ copy' = Pushed /\ priv' = Machine
  BY DEF Trap
<1>3. Pushed \in Status /\ Machine \in Modes /\ Len(frames) \in Nat
  BY LenProperties DEF TrapInv, Pushed, Status, Modes
<1>4. ASSUME NEW i \in 1 .. Len(frames')
      PROVE /\ frames'[i].kept = KeptOf(frames'[i].caller)
            /\ frames'[i].own => /\ i = 1
                                 /\ copy'.mpie = frames'[i].caller.mie
                                 /\ copy'.mpp = frames'[i].caller.priv
                                 /\ mstatus'.mpie = copy'.mpie /\ mstatus'.mpp = copy'.mpp
  <2>1. CASE i = 1
    <3>1. Pushed = KeptOf(Context)
      BY DEF Pushed, KeptOf, Context
    <3>2. frames'[1].caller = Context /\ frames'[1].kept = Pushed
      BY <1>1, <1>2
    <3>3. copy'.mpie = Context.mie /\ copy'.mpp = Context.priv /\ mstatus' = copy'
      BY <1>2 DEF Pushed, Context
    <3> QED BY <2>1, <3>1, <3>2, <3>3
  <2>2. CASE i # 1
    <3>1. i - 1 \in 1 .. Len(frames) /\ i = (i - 1) + 1
      BY <2>2, <1>1, <1>2, <1>3
    <3>2. /\ Entered[i].caller = frames[i - 1].caller
          /\ Entered[i].kept = frames[i - 1].kept /\ ~ Entered[i].own
      BY <3>1, <1>1
    <3>3. frames[i - 1].kept = KeptOf(frames[i - 1].caller)
      BY <3>1 DEF TrapInv
    <3> QED BY <3>2, <3>3, <1>2
  <2> QED BY <2>1, <2>2
<1>5. NoHiddenEnable'
  BY <1>2 DEF NoHiddenEnable, Pushed
<1> QED BY <1>1, <1>2, <1>3, <1>4, <1>5 DEF TrapInv

(* A write of the register by the software, which leaves a handler's       *)
(* return what it needs.                                                   *)
LEMMA WriteKeeps ==
  ASSUME TrapInv, NEW s \in Status, Write(s), UNCHANGED <<priv, frames>>,
         frames # <<>> => s.mpie = mstatus.mpie /\ s.mpp = mstatus.mpp
  PROVE  TrapInv'
<1>1. mstatus' = s /\ copy' = s
  BY DEF Write, Decoded
<1>2. ASSUME NEW i \in 1 .. Len(frames), frames[i].own
      PROVE  /\ i = 1 /\ s.mpie = frames[i].caller.mie /\ s.mpp = frames[i].caller.priv
  <2>1. frames # <<>>
    BY EmptySeq DEF TrapInv
  <2> QED BY <2>1, <1>2 DEF TrapInv
<1> QED BY <1>1, <1>2 DEF TrapInv, NoHiddenEnable
LEMMA MretKeeps ==
  ASSUME TrapInv, Mret, frames' \in Seq(Frames),
         \A i \in 1 .. Len(frames') : /\ frames'[i].kept = KeptOf(frames'[i].caller)
                                      /\ ~ frames'[i].own
  PROVE  TrapInv'
<1>1. mstatus' \in Status /\ copy' \in Status /\ priv' \in Modes
  BY DEF TrapInv, Mret, Restored, RestoredCopy, Status, Modes, User
<1>2. NoHiddenEnable'
  BY DEF TrapInv, Mret, Restored, RestoredCopy, NoHiddenEnable
<1> QED BY <1>1, <1>2 DEF TrapInv

(* Behind the innermost handler nobody goes by the copy. *)
LEMMA TailLemma ==
  ASSUME TrapInv, frames # <<>>
  PROVE  /\ Tail(frames) \in Seq(Frames) /\ Len(Tail(frames)) = Len(frames) - 1
         /\ \A i \in 1 .. Len(Tail(frames)) :
              /\ Tail(frames)[i] = frames[i + 1] /\ i + 1 \in 1 .. Len(frames)
              /\ Tail(frames)[i].kept = KeptOf(Tail(frames)[i].caller)
              /\ ~ Tail(frames)[i].own
<1>1. frames \in Seq(Frames)
  BY DEF TrapInv
<1>2. /\ Tail(frames) \in Seq(Frames) /\ Len(Tail(frames)) = Len(frames) - 1
      /\ \A i \in 1 .. Len(Tail(frames)) : Tail(frames)[i] = frames[i + 1]
  BY <1>1, HeadTailProperties
<1>3. ASSUME NEW i \in 1 .. Len(Tail(frames))
      PROVE /\ Tail(frames)[i] = frames[i + 1] /\ i + 1 \in 1 .. Len(frames)
            /\ Tail(frames)[i].kept = KeptOf(Tail(frames)[i].caller)
            /\ ~ Tail(frames)[i].own
  <2>1. Len(frames) \in Nat
    BY <1>1, LenProperties
  <2>2. i + 1 \in 1 .. Len(frames) /\ i + 1 # 1
    BY <1>2, <2>1
  <2>3. /\ frames[i + 1].kept = KeptOf(frames[i + 1].caller)
        /\ frames[i + 1].own => i + 1 = 1
    BY <2>2 DEF TrapInv
  <2> QED BY <1>2, <2>2, <2>3
<1> QED BY <1>2, <1>3

LEMMA WriteBackKeeps ==
  ASSUME TrapInv, WriteBack
  PROVE  TrapInv' /\ Callers' = Callers /\ copy'.mie = FALSE
<1>1. /\ frames # <<>> /\ mstatus' = Head(frames).kept /\ copy' = Head(frames).kept
      /\ frames' = [frames EXCEPT ![1].own = TRUE] /\ priv' = priv
  BY DEF WriteBack, Write, Decoded
<1>2. frames \in Seq(Frames) /\ Len(frames) \in Nat \ {0} /\ Head(frames) = frames[1]
  BY <1>1, EmptySeq DEF TrapInv
<1>3. frames[1] \in Frames /\ frames[1].kept = KeptOf(frames[1].caller) /\ 1 \in 1 .. Len(frames)
  BY <1>2, ElementOfSeq DEF TrapInv
<1>4. /\ frames' \in Seq(Frames) /\ Len(frames') = Len(frames)
      /\ frames'[1] = [frames[1] EXCEPT !.own = TRUE]
      /\ \A i \in 1 .. Len(frames) : i # 1 => frames'[i] = frames[i]
  <2> DEFINE top == [frames[1] EXCEPT !.own = TRUE]
  <2>1. top \in Frames
    BY <1>3 DEF Frames
  <2>2. frames' = [frames EXCEPT ![1] = top]
    BY <1>1
  <2> HIDE DEF top
  <2>3. /\ frames' \in Seq(Frames) /\ Len(frames') = Len(frames)
        /\ \A i \in 1 .. Len(frames) : frames'[i] = IF i = 1 THEN top ELSE frames[i]
    BY <2>1, <2>2, <1>2, <1>3, ExceptSeq
  <2> QED BY <2>3, <1>3 DEF top
<1>5. \A i \in 1 .. Len(frames) :
        frames'[i].caller = frames[i].caller /\ frames'[i].kept = frames[i].kept
  BY <1>3, <1>4 DEF Frames
<1>6. frames[1].caller \in [priv : Modes, mie : BOOLEAN] /\ frames[1].kept \in Status
  BY <1>3 DEF Frames
<1>7. copy' \in Status /\ mstatus' = copy' /\ copy' = KeptOf(frames[1].caller)
  BY <1>1, <1>2, <1>3, <1>6
<1>8. ASSUME NEW i \in 1 .. Len(frames')
      PROVE /\ frames'[i].kept = KeptOf(frames'[i].caller)
            /\ frames'[i].own => /\ i = 1
                                 /\ copy'.mpie = frames'[i].caller.mie
                                 /\ copy'.mpp = frames'[i].caller.priv
                                 /\ mstatus'.mpie = copy'.mpie /\ mstatus'.mpp = copy'.mpp
  <2>1. frames[i].kept = KeptOf(frames[i].caller) /\ (frames[i].own => i = 1) /\ i \in 1 .. Len(frames)
    BY <1>4 DEF TrapInv
  <2>2. frames'[i].own => i = 1
    BY <2>1, <1>4
  <2> QED BY <2>1, <2>2, <1>5, <1>7 DEF KeptOf
<1>9. NoHiddenEnable'
  BY <1>7 DEF NoHiddenEnable, KeptOf
<1>10. TrapInv'
  BY <1>1, <1>4, <1>7, <1>8, <1>9 DEF TrapInv
<1>11. Callers' = Callers
  <2>1. DOMAIN frames = 1 .. Len(frames) /\ DOMAIN frames' = 1 .. Len(frames)
    BY <1>2, <1>4, LenProperties
  <2> QED BY <2>1, <1>5 DEF Callers
<1> QED BY <1>7, <1>10, <1>11 DEF KeptOf
(* Every action keeps the invariant. *)
LEMMA TrapStep == TrapInv /\ [Next]_vars => TrapInv'
<1> SUFFICES ASSUME TrapInv, [Next]_vars PROVE TrapInv'
  OBVIOUS
<1>1. CASE Exception
  BY <1>1, TrapKeeps DEF Exception
<1>2. CASE EnvironmentCall
  BY <1>2, TrapKeeps DEF EnvironmentCall
<1>3. CASE Interrupt
  BY <1>3, TrapKeeps DEF Interrupt
<1>4. CASE Return
  <2>1. frames # <<>> /\ Mret /\ frames' = Tail(frames)
    BY <1>4 DEF Return
  <2>2. /\ frames' \in Seq(Frames)
        /\ \A i \in 1 .. Len(frames') : /\ frames'[i].kept = KeptOf(frames'[i].caller)
                                        /\ ~ frames'[i].own
    BY <2>1, TailLemma
  <2> QED BY <2>1, <2>2, MretKeeps
<1>5. CASE Start
  <2>1. Mret /\ frames' = <<>> /\ <<>> \in Seq(Frames)
    BY <1>5, EmptySeq DEF Start
  <2> QED BY <2>1, MretKeeps
<1>6. CASE Enable
  <2>1. PICK b \in BOOLEAN : Write([mstatus EXCEPT !.mie = b])
    BY <1>6 DEF Enable
  <2> DEFINE s == [mstatus EXCEPT !.mie = b]
  <2>2. s \in Status /\ s.mpie = mstatus.mpie /\ s.mpp = mstatus.mpp
    BY DEF TrapInv, Status
  <2>3. Write(s) /\ UNCHANGED <<priv, frames>>
    BY <2>1, <1>6 DEF Enable
  <2> HIDE DEF s
  <2> QED BY <2>2, <2>3, WriteKeeps
<1>7. CASE WriteBack
  BY <1>7, WriteBackKeeps
<1>8. CASE Prepare
  <2>1. frames = <<>> /\ UNCHANGED <<priv, frames>>
    BY <1>8 DEF Prepare
  <2>2. PICK s \in Status : Write(s)
    BY <1>8 DEF Prepare
  <2> QED BY <2>1, <2>2, WriteKeeps
<1>9. CASE Reset
  <2>1. frames' = <<>> /\ <<>> \in Seq(Frames) /\ Len(<<>>) = 0
    BY <1>9, EmptySeq DEF Reset, AfterReset
  <2> QED BY <2>1, <1>9 DEF Reset, AfterReset, TrapInv, Status, Modes, Machine, NoHiddenEnable
<1>10. CASE UNCHANGED vars
  BY <1>10 DEF vars, TrapInv, NoHiddenEnable
<1> QED BY <1>1, <1>2, <1>3, <1>4, <1>5, <1>6, <1>7, <1>8, <1>9, <1>10 DEF Next

THEOREM TrapInvariant == Spec => []TrapInv
<1>1. Init => TrapInv
  <2> SUFFICES ASSUME Init PROVE TrapInv
    OBVIOUS
  <2>1. frames = <<>> /\ <<>> \in Seq(Frames) /\ Len(<<>>) = 0
    BY EmptySeq DEF Init
  <2> QED BY <2>1 DEF Init, TrapInv, Status, Modes, Machine, NoHiddenEnable
<1> QED BY <1>1, TrapStep, PTL DEF Spec

(* Interrupts are never enabled in the copy and disabled in the register,  *)
(* whatever traps, returns and writes do to the two (csr_mret).            *)
THEOREM NothingHidden == Spec => []NoHiddenEnable
<1>1. TrapInv => NoHiddenEnable
  BY DEF TrapInv
<1> QED BY <1>1, TrapInvariant, PTL
ContextT == [priv : Modes, mie : BOOLEAN]

LEMMA CallersLemma ==
  ASSUME NEW f \in Seq(Frames), NEW g, g = [i \in DOMAIN f |-> f[i].caller]
  PROVE  g \in Seq(ContextT) /\ Len(g) = Len(f) /\ \A i \in 1 .. Len(f) : g[i] = f[i].caller
<1>1. DOMAIN f = 1 .. Len(f) /\ Len(f) \in Nat /\ \A i \in 1 .. Len(f) : f[i] \in Frames
  BY LenProperties, ElementOfSeq
<1>2. \A i \in 1 .. Len(f) : f[i].caller \in ContextT
  BY <1>1 DEF Frames, ContextT
<1>3. g = [i \in 1 .. Len(f) |-> f[i].caller]
  BY <1>1
<1>4. g \in [1 .. Len(f) -> ContextT]
  BY <1>2, <1>3
<1> QED BY <1>1, <1>3, <1>4

LEMMA PrependLemma ==
  ASSUME NEW S, NEW x \in S, NEW s \in Seq(S)
  PROVE  /\ <<x>> \o s \in Seq(S) /\ Len(<<x>> \o s) = 1 + Len(s)
         /\ \A i \in 1 .. 1 + Len(s) : (<<x>> \o s)[i] = IF i <= 1 THEN x ELSE s[i - 1]
<1>1. <<x>> \in Seq(S) /\ Len(<<x>>) = 1 /\ <<x>>[1] = x
  OBVIOUS
<1>2. /\ <<x>> \o s \in Seq(S) /\ Len(<<x>> \o s) = Len(<<x>>) + Len(s)
      /\ \A i \in 1 .. Len(<<x>>) + Len(s) :
           (<<x>> \o s)[i] = IF i <= Len(<<x>>) THEN <<x>>[i] ELSE s[i - Len(<<x>>)]
  BY <1>1, ConcatProperties
<1> QED BY <1>1, <1>2

LEMMA EmptyCallers == ASSUME frames = <<>> PROVE Callers = <<>>
<1>1. <<>> \in Seq(Frames) /\ Len(<<>>) = 0
  BY EmptySeq
<1>2. Callers \in Seq(ContextT) /\ Len(Callers) = 0
  <2>1. frames \in Seq(Frames) /\ Callers = [i \in DOMAIN frames |-> frames[i].caller]
    BY <1>1 DEF Callers
  <2>2. Callers \in Seq(ContextT) /\ Len(Callers) = Len(frames)
    BY <2>1, CallersLemma
  <2> QED BY <2>2, <1>1
<1> QED BY <1>2, EmptySeq

(* A trap of the code is a trap of TrapStack ... *)
LEMMA TrapRefines ==
  ASSUME TrapInv, TrapInv', NEW c \in Causes, c \in Interrupts => copy.mie, Trap(c)
  PROVE  Promise!Trap
<1>1. /\ Entered \in Seq(Frames) /\ Len(Entered) = Len(frames) + 1
      /\ Entered[1] = [caller |-> Context, kept |-> Pushed, own |-> TRUE]
      /\ \A i \in 1 .. Len(frames) : Entered[i + 1].caller = frames[i].caller
  BY EnteredLemma
<1>2. /\ frames' = Entered /\ mcause' = c /\ copy' = Pushed /\ priv' = Machine
  BY DEF Trap
<1>3. frames \in Seq(Frames) /\ Len(frames) \in Nat
  BY LenProperties DEF TrapInv
<1>4. /\ Callers \in Seq(ContextT) /\ Len(Callers) = Len(frames)
      /\ \A i \in 1 .. Len(frames) : Callers[i] = frames[i].caller
  BY <1>3, CallersLemma DEF Callers
<1>5. /\ Callers' \in Seq(ContextT) /\ Len(Callers') = Len(frames) + 1
      /\ \A i \in 1 .. Len(frames) + 1 : Callers'[i] = Entered[i].caller
  <2> DEFINE f == Entered
             g == Callers'
  <2>1. f \in Seq(Frames) /\ Len(f) = Len(frames) + 1
    BY <1>1
  <2>2. g = [i \in DOMAIN f |-> f[i].caller]
    BY <1>2 DEF Callers
  <2> HIDE DEF f, g
  <2>3. g \in Seq(ContextT) /\ Len(g) = Len(f) /\ \A i \in 1 .. Len(f) : g[i] = f[i].caller
    BY <2>1, <2>2, CallersLemma
  <2> QED BY <2>1, <2>3 DEF f, g
<1>6. Context \in ContextT
  BY DEF Context, ContextT, TrapInv, Status
<1>7. Callers' = <<Context>> \o Callers
  <2> DEFINE one == <<Context>>
             both == one \o Callers
  <2>1. one \in Seq(ContextT) /\ Len(one) = 1 /\ one[1] = Context
    BY <1>6
  <2> HIDE DEF one
  <2>2. /\ both \in Seq(ContextT) /\ Len(both) = 1 + Len(frames)
        /\ \A i \in 1 .. 1 + Len(frames) : both[i] = IF i <= 1 THEN one[i] ELSE Callers[i - 1]
    <3> DEFINE rest == Callers
               x == Context
    <3>1. rest \in Seq(ContextT) /\ Len(rest) = Len(frames) /\ x \in ContextT
      BY <1>4, <1>6
    <3> HIDE DEF rest, x
    <3>2. /\ <<x>> \o rest \in Seq(ContextT) /\ Len(<<x>> \o rest) = 1 + Len(rest)
          /\ \A i \in 1 .. 1 + Len(rest) :
               (<<x>> \o rest)[i] = IF i <= 1 THEN x ELSE rest[i - 1]
      BY <3>1, PrependLemma
    <3> QED BY <3>1, <3>2, <2>1 DEF rest, x, both, one
  <2> HIDE DEF both
  <2>3. Len(Callers') = Len(both)
    BY <2>2, <1>3, <1>5
  <2>4. ASSUME NEW i \in 1 .. Len(Callers') PROVE Callers'[i] = both[i]
    <3>1. CASE i = 1
      <4>1. Entered[1].caller = Context
        BY <1>1
      <4>2. both[1] = Context
        BY <2>1, <2>2, <1>3
      <4> QED BY <3>1, <4>1, <4>2, <1>3, <1>5
    <3>2. CASE i # 1
      <4>1. i - 1 \in 1 .. Len(frames) /\ i \in 1 .. Len(frames) + 1 /\ (i - 1) + 1 = i /\ ~ (i <= 1)
        BY <3>2, <1>3, <1>5
      <4>2. Entered[i].caller = frames[i - 1].caller
        BY <4>1, <1>1
      <4>3. both[i] = Callers[i - 1]
        BY <4>1, <2>2, <1>3
      <4>4. Callers[i - 1] = frames[i - 1].caller
        BY <4>1, <1>4
      <4>5. Callers'[i] = Entered[i].caller
        BY <4>1, <1>5
      <4> QED BY <4>2, <4>3, <4>4, <4>5
    <3> QED BY <3>1, <3>2
  <2>5. Callers' = both
    BY <2>2, <2>3, <2>4, <1>5, SeqEqual
  <2> QED BY <2>5 DEF both, one
<1>8. [priv |-> priv, mie |-> copy.mie]' = Promise!AtReset
  BY <1>2 DEF Pushed, Promise!AtReset
<1> QED BY <1>2, <1>7, <1>8 DEF Promise!Trap, Context

(* ... and a return a return: the copy has what the caller had. *)
LEMMA ReturnRefines ==
  ASSUME TrapInv, Return
  PROVE  Promise!Return
<1>1. /\ priv = Machine /\ frames # <<>> /\ Head(frames).own /\ frames' = Tail(frames)
      /\ copy' = RestoredCopy /\ priv' = copy.mpp /\ mcause' = mcause
  BY DEF Return, Mret
<1>2. frames \in Seq(Frames) /\ Len(frames) \in Nat \ {0} /\ Head(frames) = frames[1]
  BY <1>1, EmptySeq DEF TrapInv
<1>3. copy.mpie = frames[1].caller.mie /\ copy.mpp = frames[1].caller.priv
      /\ frames[1].caller \in ContextT
  <2>1. 1 \in 1 .. Len(frames) /\ frames[1] \in Frames
    BY <1>2, ElementOfSeq
  <2> QED BY <2>1, <1>1, <1>2 DEF TrapInv, Frames, ContextT
<1>4. [priv |-> priv, mie |-> copy.mie]' = frames[1].caller
  BY <1>1, <1>3 DEF RestoredCopy, ContextT
<1>5. /\ Callers \in Seq(ContextT) /\ Len(Callers) = Len(frames)
      /\ \A i \in 1 .. Len(frames) : Callers[i] = frames[i].caller
  BY <1>2, CallersLemma DEF Callers
<1>6. /\ Tail(frames) \in Seq(Frames) /\ Len(Tail(frames)) = Len(frames) - 1
      /\ \A i \in 1 .. Len(Tail(frames)) :
           Tail(frames)[i] = frames[i + 1] /\ i + 1 \in 1 .. Len(frames)
  BY <1>1, TailLemma
<1>7. /\ Callers' \in Seq(ContextT) /\ Len(Callers') = Len(frames) - 1
      /\ \A i \in 1 .. Len(frames) - 1 : Callers'[i] = Tail(frames)[i].caller
  <2> DEFINE f == Tail(frames)
             g == Callers'
  <2>1. f \in Seq(Frames) /\ Len(f) = Len(frames) - 1
    BY <1>6
  <2>2. g = [i \in DOMAIN f |-> f[i].caller]
    BY <1>1 DEF Callers
  <2> HIDE DEF f, g
  <2>3. g \in Seq(ContextT) /\ Len(g) = Len(f) /\ \A i \in 1 .. Len(f) : g[i] = f[i].caller
    BY <2>1, <2>2, CallersLemma
  <2> QED BY <2>1, <2>3 DEF f, g
<1>8. Callers # <<>> /\ Head(Callers) = frames[1].caller
  <2>1. Len(Callers) \in Nat \ {0}
    BY <1>2, <1>5
  <2>2. Callers # <<>>
    BY <2>1, EmptySeq
  <2>3. Head(Callers) = Callers[1]
    BY <2>2, <1>5
  <2> QED BY <2>2, <2>3, <1>2, <1>5
<1>9. Callers' = Tail(Callers)
  <2>1. /\ Tail(Callers) \in Seq(ContextT) /\ Len(Tail(Callers)) = Len(Callers) - 1
        /\ \A i \in 1 .. Len(Tail(Callers)) : Tail(Callers)[i] = Callers[i + 1]
    BY <1>5, <1>8, HeadTailProperties
  <2>2. Len(Callers') = Len(Tail(Callers))
    BY <2>1, <1>5, <1>7
  <2>3. ASSUME NEW i \in 1 .. Len(Callers') PROVE Callers'[i] = Tail(Callers)[i]
    <3>1. i \in 1 .. Len(Tail(frames)) /\ i \in 1 .. Len(Tail(Callers)) /\ i \in 1 .. Len(frames) - 1
      BY <2>2, <1>6, <1>7
    <3>2. Callers'[i] = frames[i + 1].caller /\ i + 1 \in 1 .. Len(frames)
      BY <3>1, <1>6, <1>7
    <3>3. Tail(Callers)[i] = Callers[i + 1]
      BY <3>1, <2>1
    <3> QED BY <3>2, <3>3, <1>5
  <2> QED BY <2>1, <2>2, <2>3, <1>7, SeqEqual
<1> QED BY <1>1, <1>4, <1>8, <1>9 DEF Promise!Return

(* A write by the software changes at most the enable of what is running.  *)
LEMMA WriteRefines ==
  ASSUME TrapInv, NEW b \in BOOLEAN, priv = Machine, priv' = priv, copy'.mie = b,
         Callers' = Callers, mcause' = mcause
  PROVE  Promise!Enable
<1>1. [priv |-> priv, mie |-> copy.mie]' = [[priv |-> priv, mie |-> copy.mie] EXCEPT !.mie = b]
  OBVIOUS
<1> QED BY <1>1 DEF Promise!Enable

LEMMA StartRefines ==
  ASSUME TrapInv, Start
  PROVE  Promise!Start
<1>1. /\ priv = Machine /\ frames = <<>> /\ frames' = frames /\ mcause' = mcause
      /\ copy' = RestoredCopy /\ priv' = copy.mpp
  BY DEF Start, Mret
<1>2. Callers = <<>> /\ Callers' = Callers
  BY <1>1, EmptyCallers DEF Callers
<1>3. [priv |-> priv, mie |-> copy.mie]' \in Promise!Contexts
  BY <1>1 DEF TrapInv, Status, RestoredCopy, Promise!Contexts
<1> QED BY <1>1, <1>2, <1>3 DEF Promise!Start

LEMMA ResetRefines ==
  ASSUME Reset
  PROVE  Promise!Reset
<1>1. frames' = <<>> /\ mcause' = "NONE" /\ priv' = Machine /\ copy'.mie = FALSE
  BY DEF Reset, AfterReset
<1>2. Callers' = <<>>
  <2> DEFINE g == Callers'
  <2>1. g = [i \in DOMAIN <<>> |-> <<>>[i].caller]
    BY <1>1 DEF Callers
  <2> HIDE DEF g
  <2>2. <<>> \in Seq(Frames) /\ Len(<<>>) = 0
    BY EmptySeq
  <2>3. g \in Seq(ContextT) /\ Len(g) = 0
    BY <2>1, <2>2, CallersLemma
  <2> QED BY <2>3, EmptySeq DEF g
<1> QED BY <1>1, <1>2 DEF Promise!Reset, Promise!AtReset

LEMMA StepRefines ==
  TrapInv /\ TrapInv' /\ [Next]_vars
    => [Promise!Next]_<<[priv |-> priv, mie |-> copy.mie], Callers, mcause>>
<1> SUFFICES ASSUME TrapInv, TrapInv', [Next]_vars
             PROVE  [Promise!Next]_<<[priv |-> priv, mie |-> copy.mie], Callers, mcause>>
  OBVIOUS
<1>1. CASE Exception
  <2>1. PICK c \in Exceptions : Trap(c)
    BY <1>1 DEF Exception
  <2>2. c \in Causes /\ c \notin Interrupts
    BY CsrAssumption DEF Causes
  <2> QED BY <2>1, <2>2, TrapRefines DEF Promise!Next
<1>2. CASE EnvironmentCall
  <2>1. Trap(Ecall[priv])
    BY <1>2 DEF EnvironmentCall
  <2>2. Ecall[priv] \in {"ECALL_U", "ECALL_S", "ECALL_M"}
    BY DEF TrapInv, Ecall, Modes, User, Supervisor, Machine
  <2>3. Ecall[priv] \in Causes /\ Ecall[priv] \notin Interrupts
    BY <2>2, CsrAssumption DEF Causes, TrapInv
  <2> QED BY <2>1, <2>3, TrapRefines DEF Promise!Next
<1>3. CASE Interrupt
  <2>1. copy.mie /\ \E c \in Interrupts : Trap(c)
    BY <1>3 DEF Interrupt
  <2>2. PICK c \in Interrupts : Trap(c)
    BY <2>1
  <2>3. c \in Causes
    BY DEF Causes
  <2> QED BY <2>1, <2>2, <2>3, TrapRefines DEF Promise!Next
<1>4. CASE Return
  BY <1>4, ReturnRefines DEF Promise!Next
<1>5. CASE Start
  BY <1>5, StartRefines DEF Promise!Next
<1>6. CASE Enable
  <2>1. /\ priv = Machine /\ priv' = priv /\ Callers' = Callers /\ mcause' = mcause
    BY <1>6 DEF Enable, Callers
  <2>2. copy'.mie \in BOOLEAN
    BY DEF TrapInv, Status
  <2> QED BY <2>1, <2>2, WriteRefines DEF Promise!Next
<1>7. CASE WriteBack
  <2>1. Callers' = Callers /\ copy'.mie = FALSE
    BY <1>7, WriteBackKeeps
  <2>2. priv = Machine /\ priv' = priv /\ mcause' = mcause
    BY <1>7 DEF WriteBack
  <2> QED BY <2>1, <2>2, WriteRefines DEF Promise!Next
<1>8. CASE Prepare
  <2>1. /\ priv = Machine /\ priv' = priv /\ Callers' = Callers /\ mcause' = mcause
    BY <1>8 DEF Prepare, Callers
  <2>2. copy'.mie \in BOOLEAN
    BY DEF TrapInv, Status
  <2> QED BY <2>1, <2>2, WriteRefines DEF Promise!Next
<1>9. CASE Reset
  BY <1>9, ResetRefines DEF Promise!Next
<1>10. CASE UNCHANGED vars
  BY <1>10 DEF vars, Callers
<1> QED BY <1>1, <1>2, <1>3, <1>4, <1>5, <1>6, <1>7, <1>8, <1>9, <1>10 DEF Next

(* Traps nest as TrapStack promises: every behaviour of the registers is   *)
(* one of a stack of contexts, so a handler that keeps and restores        *)
(* mstatus when it was interrupted always gives its caller back what it    *)
(* had (csr_take_exception, csr_take_interrupt, csr_mret).                 *)
THEOREM Nesting == Spec => NestsLikeAStack
<1>1. Init => Promise!Init
  <2> SUFFICES ASSUME Init PROVE Promise!Init
    OBVIOUS
  <2>1. Callers = <<>>
    BY EmptyCallers DEF Init
  <2> QED BY <2>1 DEF Init, Promise!Init, Promise!AtReset
<1> QED BY <1>1, TrapInvariant, StepRefines, PTL DEF Spec, NestsLikeAStack, Promise!Spec
-----------------------------------------------------------------------------
(* The pipeline. *)
Addresses == 0 .. ProgramSize - 1

(* What a latch is: nothing, or the instruction with the fields it needs.  *)
Shapes ==
  /\ exmem = Bubble \/ exmem = [valid |-> TRUE, inst |-> exmem.inst, store |-> exmem.store,
                                link |-> exmem.link, result |-> exmem.result]
  /\ ifid.valid \in BOOLEAN /\ idex.valid \in BOOLEAN
  /\ exmem.valid \in BOOLEAN /\ memwb.valid \in BOOLEAN

(* Nothing is under way before a program is loaded, and the hazard unit,   *)
(* on the programs it is consulted with, leaves no stall and no flush.     *)
Running ==
  /\ running \in BOOLEAN
  /\ IF running THEN imem \in Programs /\ HazardFree(imem)
     ELSE ~ ifid.valid /\ ~ idex.valid /\ ~ exmem.valid /\ ~ memwb.valid
  /\ stall = [if |-> FALSE, id |-> FALSE] /\ flushEx = FALSE
  /\ DOMAIN regs = 0 .. NumRegs - 1

(* The latches hold the instructions of a path through the program: each   *)
(* latch the successor of the one before it.                               *)
Younger ==
  /\ pc \in Addresses
  /\ ifid.valid => ifid.pc \in Addresses /\ ifid.inst = imem[ifid.pc] /\ pc = Arch!Wrapped(ifid.pc + 1)
  /\ idex.valid => /\ idex.pc \in Addresses /\ idex.inst = imem[idex.pc]
                   /\ ifid.valid /\ ifid.pc = Arch!Wrapped(idex.pc + 1)

Middle(p, mem, ex, id) ==
  /\ ex.inst = mem[p] /\ ~ Arch!Branches(mem[p])
  /\ id.valid /\ id.pc = Arch!Wrapped(p + 1)

Older ==
  /\ exmem.valid => \E p \in Addresses : Middle(p, imem, exmem, idex)
  /\ memwb.valid /\ Arch!Writes(memwb.inst) =>
       \E n, p \in Addresses :
         /\ memwb.inst = imem[n] /\ p \in After(imem, n)
         /\ exmem.valid /\ Middle(p, imem, exmem, idex)

(* The operands in ID/EX are what the registers hold, the result in MEM/WB *)
(* not counted.                                                            *)
Operands ==
  idex.valid => idex.a = regs[idex.inst.rs1] /\ idex.b = regs[idex.inst.rs2]

PipeInv == Shapes /\ Running /\ Younger /\ Older /\ Operands
-----------------------------------------------------------------------------
LEMMA WrappedLemma ==
  ASSUME NEW n
  PROVE  Arch!Wrapped(n) \in Addresses
  BY PipelineAssumption DEF Arch!Wrapped, Addresses

LEMMA WriteRegLemma ==
  ASSUME NEW r, NEW d, NEW v
  PROVE  /\ DOMAIN Arch!WriteReg(r, d, v) = DOMAIN r
         /\ \A x \in DOMAIN r : x # d => Arch!WriteReg(r, d, v)[x] = r[x]
         /\ d \in DOMAIN r /\ d # 0 => Arch!WriteReg(r, d, v)[d] = v
  BY DEF Arch!WriteReg

LEMMA InstrLemma ==
  ASSUME imem \in Programs, NEW n \in Addresses
  PROVE  /\ imem[n].rd \in 0 .. NumRegs - 1 /\ imem[n].rs1 \in 0 .. NumRegs - 1
         /\ imem[n].rs2 \in 0 .. NumRegs - 1
         /\ n \in DOMAIN imem /\ Arch!Wrapped(n + 1) \in After(imem, n)
<1>1. imem[n] \in Alphabet /\ n \in DOMAIN imem
  BY DEF Programs, Addresses
<1> QED BY <1>1, PipelineAssumption DEF After

(* What a hazard-free program says of three instructions in a row.         *)
LEMMA TwoBack ==
  ASSUME HazardFree(imem), NEW n \in DOMAIN imem, NEW k \in After(imem, n), NEW l \in After(imem, k),
         Arch!Writes(imem[n]), imem[n].rd \in {imem[l].rs1, imem[l].rs2}
  PROVE  Arch!Writes(imem[k]) /\ imem[k].rd = imem[n].rd
<1>1. imem[n].rd \in Reads(imem[l])
  BY DEF Arch!Writes, Reads
<1> QED BY <1>1 DEF HazardFree, ReadsTwoBack

LEMMA OneBack ==
  ASSUME HazardFree(imem), NEW n \in DOMAIN imem, NEW k \in After(imem, n), Arch!Writes(imem[n])
  PROVE  /\ ~ Arch!Branches(imem[k])
         /\ imem[n].rd \in {imem[k].rs1, imem[k].rs2} => ~ Arch!Links(imem[n])
<1>1. ASSUME imem[n].rd \in {imem[k].rs1, imem[k].rs2} PROVE imem[n].rd \in Reads(imem[k])
  BY <1>1 DEF Arch!Writes, Reads
<1> QED BY <1>1 DEF HazardFree, WritesBeforeBranch, ForwardsLink
-----------------------------------------------------------------------------
LEMMA NewResult ==
  ASSUME NEW i, NEW s, NEW l, NEW r, NEW v
  PROVE  LET e == [valid |-> TRUE, inst |-> i, store |-> s, link |-> l, result |-> r]
             n == [e EXCEPT !.result = v]
         IN  n.valid = TRUE /\ n.inst = i /\ n.store = s /\ n.link = l /\ n.result = v
  OBVIOUS

LEMMA LoadedLemma ==
  ASSUME Shapes
  PROVE  /\ ~ exmem.valid => Loaded = exmem /\ exmem = Bubble
         /\ exmem.valid =>
              /\ Loaded.valid = TRUE /\ Loaded.inst = exmem.inst /\ Loaded.link = exmem.link
              /\ Loaded.result = IF exmem.inst.op = "LW" THEN Arch!ReadWord(dmem, exmem.result)
                                 ELSE exmem.result
<1>1. CASE ~ exmem.valid
  BY <1>1 DEF Loaded, Shapes
<1>2. CASE exmem.valid
  <2> DEFINE e == [valid |-> TRUE, inst |-> exmem.inst, store |-> exmem.store,
                   link |-> exmem.link, result |-> exmem.result]
             v == Arch!ReadWord(dmem, e.result)
             n == [e EXCEPT !.result = v]
  <2>1. exmem = e
    BY <1>2 DEF Shapes, Bubble
  <2>2. n.valid = TRUE /\ n.inst = exmem.inst /\ n.link = exmem.link /\ n.result = v
    BY NewResult
  <2>3. CASE exmem.inst.op = "LW"
    <3>1. Loaded = n
      BY <1>2, <2>1, <2>3 DEF Loaded
    <3>2. v = Arch!ReadWord(dmem, exmem.result)
      OBVIOUS
    <3> HIDE DEF e, v, n
    <3> QED BY <1>2, <2>2, <2>3, <3>1, <3>2
  <2>4. CASE exmem.inst.op # "LW"
    <3>1. Loaded = e
      BY <1>2, <2>1, <2>4 DEF Loaded
    <3> QED BY <1>2, <2>4, <3>1
  <2> QED BY <2>3, <2>4
<1> QED BY <1>1, <1>2 DEF Shapes

(* The write-back stage changes one register at most. *)
LEMMA WrittenBackLemma ==
  ASSUME DOMAIN regs = 0 .. NumRegs - 1
  PROVE  /\ DOMAIN WrittenBack = 0 .. NumRegs - 1
         /\ \A r \in 0 .. NumRegs - 1 :
              ~ (memwb.valid /\ Arch!Writes(memwb.inst) /\ memwb.inst.rd = r) => WrittenBack[r] = regs[r]
<1> DEFINE v == IF Arch!Links(memwb.inst) THEN memwb.link ELSE memwb.result
<1>1. CASE ~ memwb.valid \/ ~ Arch!Writes(memwb.inst)
  <2>1. WrittenBack = regs
    BY <1>1 DEF WrittenBack
  <2> QED BY <2>1
<1>2. CASE memwb.valid /\ Arch!Writes(memwb.inst)
  <2>1. WrittenBack = Arch!WriteReg(regs, memwb.inst.rd, v)
    BY <1>2 DEF WrittenBack
  <2> HIDE DEF v
  <2>2. /\ DOMAIN WrittenBack = DOMAIN regs
        /\ \A x \in DOMAIN regs : x # memwb.inst.rd => WrittenBack[x] = regs[x]
    BY <2>1 DEF Arch!WriteReg
  <2> QED BY <1>2, <2>2
<1> QED BY <1>1, <1>2

(* ArchRegs is what is written back and, over it, the result in EX/MEM. *)
LEMMA ArchRegsLemma ==
  ASSUME DOMAIN regs = 0 .. NumRegs - 1, NEW r \in 0 .. NumRegs - 1
  PROVE  /\ ~ (exmem.valid /\ Arch!Writes(exmem.inst) /\ exmem.inst.rd = r) => ArchRegs[r] = WrittenBack[r]
         /\ exmem.valid /\ Arch!Writes(exmem.inst) /\ exmem.inst.rd = r /\ ~ Arch!Links(exmem.inst)
              => ArchRegs[r] = Loaded.result
<1> DEFINE v == IF Arch!Links(exmem.inst) THEN exmem.link ELSE Loaded.result
<1>1. CASE ~ exmem.valid \/ ~ Arch!Writes(exmem.inst)
  <2>1. ArchRegs = WrittenBack
    BY <1>1 DEF ArchRegs, Pending
  <2> QED BY <1>1, <2>1
<1>2. CASE exmem.valid /\ Arch!Writes(exmem.inst)
  <2>1. ArchRegs = Arch!WriteReg(WrittenBack, exmem.inst.rd, v)
    BY <1>2 DEF ArchRegs, Pending
  <2>2. ~ Arch!Links(exmem.inst) => v = Loaded.result
    OBVIOUS
  <2> HIDE DEF v
  <2>3. /\ \A x \in DOMAIN WrittenBack : x # exmem.inst.rd => ArchRegs[x] = WrittenBack[x]
        /\ exmem.inst.rd \in DOMAIN WrittenBack /\ exmem.inst.rd # 0 => ArchRegs[exmem.inst.rd] = v
    BY <2>1, WriteRegLemma
  <2>4. exmem.inst.rd # 0
    BY <1>2 DEF Arch!Writes
  <2>5. r \in DOMAIN WrittenBack
    BY WrittenBackLemma
  <2> QED BY <1>2, <2>2, <2>3, <2>4, <2>5
<1> QED BY <1>1, <1>2

(* What EX gets is what the registers would hold if all older instructions *)
(* were done.                                                              *)
LEMMA ForwardLemma ==
  ASSUME PipeInv, running, idex.valid, NEW rs \in {idex.inst.rs1, idex.inst.rs2}
  PROVE  Forward(rs, regs[rs], Loaded, Retiring(Loaded)) = ArchRegs[rs]
<1>1. imem \in Programs /\ HazardFree(imem) /\ DOMAIN regs = 0 .. NumRegs - 1
  BY DEF PipeInv, Running
<1>2. idex.pc \in Addresses /\ idex.inst = imem[idex.pc]
  BY DEF PipeInv, Younger
<1>3. rs \in 0 .. NumRegs - 1
  BY <1>1, <1>2, InstrLemma
<1>4. /\ DOMAIN WrittenBack = 0 .. NumRegs - 1
      /\ ~ (memwb.valid /\ Arch!Writes(memwb.inst) /\ memwb.inst.rd = rs) => WrittenBack[rs] = regs[rs]
  BY <1>1, <1>3, WrittenBackLemma
<1>5. ASSUME memwb.valid, Arch!Writes(memwb.inst), memwb.inst.rd = rs
      PROVE  exmem.valid /\ Arch!Writes(exmem.inst) /\ exmem.inst.rd = rs
  <2>1. PICK n \in Addresses, p \in Addresses :
          memwb.inst = imem[n] /\ p \in After(imem, n) /\ exmem.valid /\ Middle(p, imem, exmem, idex)
    BY <1>5 DEF PipeInv, Older
  <2>2. idex.pc \in After(imem, p) /\ n \in DOMAIN imem
    BY <1>1, <2>1, InstrLemma DEF Middle
  <2> QED BY <1>1, <1>2, <1>5, <2>1, <2>2, TwoBack DEF Middle
<1>6. CASE exmem.valid /\ Arch!Writes(exmem.inst) /\ exmem.inst.rd = rs
  <2>1. PICK p \in Addresses : Middle(p, imem, exmem, idex)
    BY <1>6 DEF PipeInv, Older
  <2>2. idex.pc \in After(imem, p) /\ p \in DOMAIN imem
    BY <1>1, <2>1, InstrLemma DEF Middle
  <2>3. ~ Arch!Links(exmem.inst)
    BY <1>1, <1>2, <1>6, <2>1, <2>2, OneBack DEF Middle
  <2>4. Loaded.valid /\ Loaded.inst = exmem.inst
    BY <1>6, LoadedLemma DEF PipeInv
  <2>5. Forward(rs, regs[rs], Loaded, Retiring(Loaded)) = Loaded.result
    BY <1>6, <2>4 DEF Forward
  <2> QED BY <1>1, <1>3, <1>6, <2>3, <2>5, ArchRegsLemma
<1>7. CASE ~ (exmem.valid /\ Arch!Writes(exmem.inst) /\ exmem.inst.rd = rs)
  <2>1. WrittenBack[rs] = regs[rs]
    BY <1>4, <1>5, <1>7
  <2>2. /\ Loaded.valid = exmem.valid /\ Retiring(Loaded).valid = exmem.valid
        /\ exmem.valid => Loaded.inst = exmem.inst /\ Retiring(Loaded).inst = exmem.inst
    <3>1. CASE exmem.valid
      <4>1. Loaded.valid = TRUE /\ Loaded.inst = exmem.inst
        BY <3>1, LoadedLemma DEF PipeInv
      <4>2. Retiring(Loaded) = [valid |-> TRUE, inst |-> Loaded.inst, result |-> Loaded.result,
                                link |-> Loaded.link]
        BY <4>1 DEF Retiring
      <4>3. exmem.valid = TRUE
        BY <3>1 DEF PipeInv, Shapes
      <4>4. Retiring(Loaded).valid = TRUE /\ Retiring(Loaded).inst = Loaded.inst
        BY <4>2
      <4> QED BY <4>1, <4>3, <4>4
    <3>2. CASE ~ exmem.valid
      BY <3>2, LoadedLemma DEF PipeInv, Shapes, Retiring, Bubble
    <3> QED BY <3>1, <3>2
  <2>3. Forward(rs, regs[rs], Loaded, Retiring(Loaded)) = regs[rs]
    BY <1>7, <2>2 DEF Forward
  <2>4. ArchRegs[rs] = WrittenBack[rs]
    BY <1>1, <1>3, <1>7, ArchRegsLemma
  <2> QED BY <2>1, <2>3, <2>4
<1> QED BY <1>6, <1>7
-----------------------------------------------------------------------------
LEMMA ExecutedLemma ==
  ASSUME PipeInv, running, idex.valid
  PROVE  LET i == idex.inst
             a == ArchRegs[i.rs1]
             b == ArchRegs[i.rs2]
             m == Loaded
             w == Retiring(Loaded)
         IN  /\ Mispredicted(m, w) <=> Arch!Branches(i) /\ Arch!Taken(i, a, b)
             /\ Arch!Branches(i) => Executed(m, w) = Bubble
             /\ ~ Arch!Branches(i) =>
                  Executed(m, w) = [valid |-> TRUE, inst |-> i, store |-> b,
                                    link |-> Arch!Word(idex.pc + 1),
                                    result |-> Arch!Alu(i, Arch!AluA(i, idex.pc, a), Arch!AluB(i, b))]
<1> DEFINE m == Loaded
           w == Retiring(Loaded)
<1>1. idex.a = regs[idex.inst.rs1] /\ idex.b = regs[idex.inst.rs2]
  BY DEF PipeInv, Operands
<1>2. /\ Forward(idex.inst.rs1, idex.a, m, w) = ArchRegs[idex.inst.rs1]
      /\ Forward(idex.inst.rs2, idex.b, m, w) = ArchRegs[idex.inst.rs2]
  BY <1>1, ForwardLemma
<1> HIDE DEF m, w
<1>3. Mispredicted(m, w) <=>
        /\ Arch!Branches(idex.inst)
        /\ Arch!Taken(idex.inst, ArchRegs[idex.inst.rs1], ArchRegs[idex.inst.rs2])
  BY <1>2 DEF Mispredicted
<1>4. CASE Arch!Branches(idex.inst)
  BY <1>3, <1>4 DEF Executed, m, w
<1>5. CASE ~ Arch!Branches(idex.inst)
  BY <1>2, <1>3, <1>5 DEF Executed, m, w
<1> QED BY <1>4, <1>5

(* What every tick does. *)
LEMMA TickLemma ==
  ASSUME PipeInv, Tick
  PROVE  /\ running /\ running' = running /\ imem' = imem
         /\ regs' = WrittenBack /\ dmem' = Stored /\ DOMAIN regs' = 0 .. NumRegs - 1
         /\ stall' = [if |-> FALSE, id |-> FALSE] /\ flushEx' = FALSE
<1>1. running /\ running' = running /\ imem' = imem /\ regs' = WrittenBack /\ dmem' = Stored
  BY DEF Tick
<1>2. DOMAIN regs' = 0 .. NumRegs - 1
  BY <1>1, WrittenBackLemma DEF PipeInv, Running
<1>3. stall.id = FALSE /\ flushEx = FALSE
  BY DEF PipeInv, Running
<1>4. Decode(WrittenBack).stalled = FALSE /\ Decode(WrittenBack).flush = FALSE
  <2>1. CASE ~ ifid.valid
    BY <1>3, <2>1 DEF Decode
  <2>2. CASE ifid.valid
    BY <1>3, <2>2 DEF Decode
  <2> QED BY <2>1, <2>2
<1>5. stall' = [if |-> FALSE, id |-> Decode(WrittenBack).stalled] /\ flushEx' = Decode(WrittenBack).flush
  BY DEF Tick
<1> QED BY <1>1, <1>2, <1>4, <1>5

LEMMA JumpLemma ==
  ASSUME PipeInv, Tick, Mispredicted(Loaded, Retiring(Loaded))
  PROVE  /\ memwb' = Bubble /\ exmem' = Bubble /\ idex' = Bubble /\ ifid' = Bubble
         /\ pc' = Arch!Wrapped(idex.pc + idex.inst.imm)
  BY DEF Tick, Squashed

LEMMA OnLemma ==
  ASSUME PipeInv, Tick, ~ Mispredicted(Loaded, Retiring(Loaded))
  PROVE  /\ memwb' = Retiring(Loaded) /\ exmem' = Executed(Loaded, Retiring(Loaded))
         /\ ifid' = [valid |-> TRUE, pc |-> pc, inst |-> imem[pc]]
         /\ ~ ifid.valid => idex' = Bubble
         /\ ifid.valid =>
              idex' = [valid |-> TRUE, pc |-> ifid.pc, inst |-> ifid.inst,
                       a |-> regs'[ifid.inst.rs1], b |-> regs'[ifid.inst.rs2]]
         /\ pc' = Arch!Wrapped(pc + 1)
<1>1. /\ memwb' = Retiring(Loaded) /\ exmem' = Executed(Loaded, Retiring(Loaded))
      /\ ifid' = Fetched /\ idex' = Decode(regs').latch /\ pc' = Arch!Wrapped(pc + 1)
  BY DEF Tick, Squashed
<1>2. stall.if = FALSE /\ stall.id = FALSE /\ flushEx = FALSE
  BY DEF PipeInv, Running
<1>3. Fetched = [valid |-> TRUE, pc |-> pc, inst |-> imem[pc]]
  BY <1>2 DEF Fetched
<1>4. ~ ifid.valid => Decode(regs').latch = Bubble
  BY DEF Decode
<1>5. ifid.valid =>
        Decode(regs').latch = [valid |-> TRUE, pc |-> ifid.pc, inst |-> ifid.inst,
                               a |-> regs'[ifid.inst.rs1], b |-> regs'[ifid.inst.rs2]]
  BY <1>2 DEF Decode
<1> QED BY <1>1, <1>3, <1>4, <1>5

LEMMA OlderWaits ==
  ASSUME PipeInv, exmem.valid
  PROVE  idex.valid
  BY DEF PipeInv, Older, Middle
-----------------------------------------------------------------------------
LEMMA TickKeeps ==
  ASSUME PipeInv, Tick
  PROVE  PipeInv'
<1>1. /\ running /\ running' = running /\ imem' = imem
      /\ regs' = WrittenBack /\ dmem' = Stored /\ DOMAIN regs' = 0 .. NumRegs - 1
      /\ stall' = [if |-> FALSE, id |-> FALSE] /\ flushEx' = FALSE
  BY TickLemma
<1>2. imem \in Programs /\ HazardFree(imem) /\ pc \in Addresses
  BY <1>1 DEF PipeInv, Running, Younger
<1>3. Running'
  <2>1. imem' \in Programs /\ HazardFree(imem')
    BY <1>1, <1>2
  <2>2. running' /\ running' \in BOOLEAN
    BY <1>1 DEF PipeInv, Running
  <2>3. Programs' = Programs
    BY DEF Programs
  <2> QED BY <1>1, <2>1, <2>2 DEF Running
<1>4. CASE Mispredicted(Loaded, Retiring(Loaded))
  <2>1. /\ memwb' = Bubble /\ exmem' = Bubble /\ idex' = Bubble /\ ifid' = Bubble
        /\ pc' \in Addresses
    BY <1>4, JumpLemma, WrappedLemma
  <2>2. Shapes' /\ Younger' /\ Older' /\ Operands'
    BY <2>1 DEF Shapes, Younger, Older, Operands, Bubble
  <2> QED BY <1>3, <2>2 DEF PipeInv
<1>5. CASE ~ Mispredicted(Loaded, Retiring(Loaded))
  <2>1. /\ memwb' = Retiring(Loaded) /\ exmem' = Executed(Loaded, Retiring(Loaded))
        /\ ifid' = [valid |-> TRUE, pc |-> pc, inst |-> imem[pc]]
        /\ ~ ifid.valid => idex' = Bubble
        /\ ifid.valid =>
             idex' = [valid |-> TRUE, pc |-> ifid.pc, inst |-> ifid.inst,
                      a |-> regs'[ifid.inst.rs1], b |-> regs'[ifid.inst.rs2]]
        /\ pc' = Arch!Wrapped(pc + 1)
    BY <1>5, OnLemma
  <2>2. Younger'
    <3>1. pc' \in Addresses
      BY <2>1, WrappedLemma
    <3>2. ifid'.valid /\ ifid'.pc = pc /\ ifid'.inst = imem[pc]
      BY <2>1
    <3>3. ASSUME idex'.valid
          PROVE  /\ idex'.pc \in Addresses /\ idex'.inst = imem[idex'.pc]
                 /\ ifid'.pc = Arch!Wrapped(idex'.pc + 1)
      <4>1. ifid.valid
        BY <2>1, <3>3 DEF Bubble
      <4>2. idex'.pc = ifid.pc /\ idex'.inst = ifid.inst
        BY <2>1, <4>1
      <4> QED BY <3>2, <4>1, <4>2 DEF PipeInv, Younger
    <3>4. Addresses' = Addresses
      BY DEF Addresses
    <3> QED BY <1>1, <1>2, <2>1, <3>1, <3>2, <3>3, <3>4 DEF Younger
  <2>3. ASSUME idex.valid PROVE idex'.valid /\ idex'.pc = Arch!Wrapped(idex.pc + 1)
    <3>1. ifid.valid /\ ifid.pc = Arch!Wrapped(idex.pc + 1)
      BY <2>3 DEF PipeInv, Younger
    <3> QED BY <2>1, <3>1
  <2>4. Operands'
    BY <2>1 DEF Operands, Bubble
  <2>5. ASSUME ~ idex.valid PROVE exmem' = Bubble /\ memwb' = Bubble
    <3>1. ~ exmem.valid
      BY <2>5, OlderWaits
    <3>2. exmem' = Bubble
      BY <2>1, <2>5 DEF Executed
    <3>3. memwb' = Bubble
      BY <2>1, <3>1, LoadedLemma DEF PipeInv, Retiring, Bubble
    <3> QED BY <3>2, <3>3
  <2>6. ASSUME idex.valid, ~ Arch!Branches(idex.inst)
        PROVE  /\ exmem' = [valid |-> TRUE, inst |-> exmem'.inst, store |-> exmem'.store,
                            link |-> exmem'.link, result |-> exmem'.result]
               /\ exmem'.inst = idex.inst /\ Middle(idex.pc, imem', exmem', idex')
    <3> DEFINE e == Executed(Loaded, Retiring(Loaded))
    <3>1. /\ e = [valid |-> TRUE, inst |-> e.inst, store |-> e.store,
                  link |-> e.link, result |-> e.result]
          /\ e.inst = idex.inst
      BY <1>1, <2>6, ExecutedLemma
    <3> HIDE DEF e
    <3>2. exmem' = e
      BY <2>1 DEF e
    <3>3. idex.inst = imem[idex.pc] /\ exmem'.inst = imem'[idex.pc]
      BY <1>1, <2>6, <3>1, <3>2 DEF PipeInv, Younger
    <3> QED BY <1>1, <2>3, <2>6, <3>1, <3>2, <3>3 DEF Middle
  <2>7. ASSUME idex.valid, Arch!Branches(idex.inst) PROVE exmem' = Bubble
    BY <1>1, <2>1, <2>7, ExecutedLemma
  <2>8. exmem.valid => /\ memwb'.valid = TRUE /\ memwb'.inst = exmem.inst
    <3> SUFFICES ASSUME exmem.valid PROVE memwb'.valid = TRUE /\ memwb'.inst = exmem.inst
      OBVIOUS
    <3>1. Loaded.valid = TRUE /\ Loaded.inst = exmem.inst
      BY LoadedLemma DEF PipeInv
    <3>2. memwb' = [valid |-> TRUE, inst |-> Loaded.inst, result |-> Loaded.result, link |-> Loaded.link]
      BY <2>1, <3>1 DEF Retiring
    <3> QED BY <3>1, <3>2
  <2>9. ~ exmem.valid => memwb' = Bubble
    BY <2>1, LoadedLemma DEF PipeInv, Retiring, Bubble
  <2>10. Shapes'
    <3>1. ifid'.valid = TRUE
      BY <2>1
    <3>2. idex'.valid \in BOOLEAN
      <4>1. CASE ifid.valid
        <5>1. idex'.valid = TRUE
          BY <2>1, <4>1
        <5> QED BY <5>1
      <4>2. CASE ~ ifid.valid
        <5>1. idex'.valid = FALSE
          BY <2>1, <4>2 DEF Bubble
        <5> QED BY <5>1
      <4> QED BY <4>1, <4>2
    <3>3. exmem' = Bubble \/ exmem' = [valid |-> TRUE, inst |-> exmem'.inst, store |-> exmem'.store,
                                       link |-> exmem'.link, result |-> exmem'.result]
      BY <2>5, <2>6, <2>7
    <3>4. exmem'.valid = FALSE \/ exmem'.valid = TRUE
      BY <3>3 DEF Bubble
    <3>5. memwb'.valid = FALSE \/ memwb'.valid = TRUE
      BY <2>8, <2>9 DEF Bubble
    <3> QED BY <3>1, <3>2, <3>3, <3>4, <3>5 DEF Shapes
  <2>11. ASSUME exmem'.valid PROVE idex.valid /\ Middle(idex.pc, imem', exmem', idex') /\ idex.pc \in Addresses
    <3>1. idex.valid /\ ~ Arch!Branches(idex.inst)
      BY <2>5, <2>7, <2>11 DEF Bubble
    <3> QED BY <2>6, <3>1 DEF PipeInv, Younger
  <2>12. ASSUME memwb'.valid, Arch!Writes(memwb'.inst)
         PROVE  \E n, p \in Addresses :
                  /\ memwb'.inst = imem'[n] /\ p \in After(imem', n)
                  /\ exmem'.valid /\ Middle(p, imem', exmem', idex')
    <3>1. exmem.valid /\ memwb'.inst = exmem.inst
      BY <2>8, <2>9, <2>12 DEF Bubble
    <3>2. PICK n \in Addresses : Middle(n, imem, exmem, idex)
      BY <3>1 DEF PipeInv, Older
    <3>3. idex.valid /\ idex.pc \in Addresses /\ idex.inst = imem[idex.pc]
      BY <3>2 DEF Middle, PipeInv, Younger
    <3>4. idex.pc \in After(imem, n) /\ n \in DOMAIN imem /\ exmem.inst = imem[n]
      BY <1>2, <3>2, InstrLemma DEF Middle
    <3>5. ~ Arch!Branches(idex.inst)
      BY <1>2, <2>12, <3>1, <3>3, <3>4, OneBack
    <3>6. exmem'.valid /\ Middle(idex.pc, imem', exmem', idex')
      BY <2>6, <3>3, <3>5
    <3>7. memwb'.inst = imem'[n] /\ idex.pc \in After(imem', n)
      BY <1>1, <3>1, <3>4
    <3> QED BY <3>3, <3>6, <3>7
  <2>13. Older'
    <3>1. Addresses' = Addresses
      BY DEF Addresses
    <3> QED BY <2>11, <2>12, <3>1 DEF Older
  <2> QED BY <1>3, <2>2, <2>4, <2>10, <2>13 DEF PipeInv
<1> QED BY <1>4, <1>5
-----------------------------------------------------------------------------
(* On the programs it is consulted with, the hazard unit finds nothing.    *)
LEMMA ResolveStutters ==
  ASSUME PipeInv, Resolve, UnitQuiet(imem)
  PROVE  UNCHANGED coreVars
<1>1. imem \in Programs /\ HazardFree(imem) /\ running
  BY DEF PipeInv, Running, Resolve
<1>2. ~ LoadUse
  <2> SUFFICES ASSUME LoadUse PROVE FALSE
    OBVIOUS
  <2>1. /\ idex.valid /\ exmem.valid /\ exmem.inst.op = "LW" /\ Arch!Writes(exmem.inst)
        /\ exmem.inst.rd \in {idex.inst.rs1, idex.inst.rs2}
    BY DEF LoadUse
  <2>2. PICK p \in Addresses : Middle(p, imem, exmem, idex)
    BY <2>1 DEF PipeInv, Older
  <2>3. idex.pc \in After(imem, p) /\ p \in DOMAIN imem /\ exmem.inst = imem[p]
    BY <1>1, <2>2, InstrLemma DEF Middle
  <2>4. idex.inst = imem[idex.pc]
    BY <2>1 DEF PipeInv, Younger
  <2>5. imem[p].rd \notin Reads(imem[idex.pc])
    BY <2>1, <2>3 DEF UnitQuiet
  <2>6. imem[p].rd # 0
    BY <2>1, <2>3 DEF Arch!Writes
  <2> QED BY <2>1, <2>3, <2>4, <2>5, <2>6 DEF Reads
<1>3. ~ BranchTaken
  <2> SUFFICES ASSUME BranchTaken PROVE FALSE
    OBVIOUS
  <2>1. /\ idex.valid /\ Arch!Branches(idex.inst)
        /\ Arch!Taken(idex.inst, Forward(idex.inst.rs1, idex.a, exmem, memwb),
                                 Forward(idex.inst.rs2, idex.b, exmem, memwb))
    BY DEF BranchTaken
  <2>2. idex.pc \in Addresses /\ idex.inst = imem[idex.pc]
    BY <2>1 DEF PipeInv, Younger
  <2>3. idex.inst.op = "BNE" /\ idex.inst.rs1 = idex.inst.rs2
    BY <1>1, <2>1, <2>2, InstrLemma DEF UnitQuiet
  <2>4. idex.a = idex.b
    BY <2>1, <2>3 DEF PipeInv, Operands
  <2> QED BY <2>1, <2>3, <2>4 DEF Arch!Taken
<1>4. stall = [if |-> FALSE, id |-> FALSE]
  BY DEF PipeInv, Running
<1>5. LoadUse = FALSE
  BY <1>2 DEF LoadUse
<1>6. stall' = [if |-> FALSE, id |-> FALSE]
  BY <1>5 DEF Resolve
<1>7. /\ UNCHANGED <<ifid, idex, exmem, flushEx>>
      /\ UNCHANGED <<imem, running, regs, dmem, pc, memwb>>
  BY <1>2, <1>3 DEF Resolve
<1> QED BY <1>4, <1>6, <1>7 DEF coreVars

(* The invariant: the latches always hold consecutive instructions of one  *)
(* path through the program, with the operands in-order execution would    *)
(* have read once the results under way are counted.                       *)
THEOREM PipelineInvariant == CoreSpec => []PipeInv
<1>1. CoreInit => PipeInv
  <2> SUFFICES ASSUME CoreInit PROVE PipeInv
    OBVIOUS
  <2>1. /\ ifid = Bubble /\ idex = Bubble /\ exmem = Bubble /\ memwb = Bubble
        /\ stall = [if |-> FALSE, id |-> FALSE] /\ flushEx = FALSE
        /\ running = FALSE /\ pc = 0 /\ regs = [r \in 0 .. NumRegs - 1 |-> 0]
    BY DEF CoreInit, Arch!Init, Arch!RegIds
  <2>2. Shapes /\ Older /\ Operands
    BY <2>1 DEF Shapes, Older, Operands, Bubble
  <2>3. 0 \in Addresses
    BY PipelineAssumption DEF Addresses
  <2>4. Younger
    BY <2>1, <2>3 DEF Younger, Bubble
  <2>5. Running
    BY <2>1 DEF Running, Bubble
  <2> QED BY <2>2, <2>4, <2>5 DEF PipeInv
<1>2. PipeInv /\ [CoreNext]_coreVars => PipeInv'
  <2> SUFFICES ASSUME PipeInv, [CoreNext]_coreVars PROVE PipeInv'
    OBVIOUS
  <2>1. CASE LoadProgram /\ HazardFree(imem')
    <3>1. /\ ~ running /\ running' = TRUE /\ imem' \in Programs
          /\ UNCHANGED <<regs, dmem, pc, latches, stall, flushEx>>
      BY <2>1 DEF LoadProgram, Arch!Load
    <3>2. ~ ifid.valid /\ ~ idex.valid /\ ~ exmem.valid /\ ~ memwb.valid
      BY <3>1 DEF PipeInv, Running
    <3>3. UNCHANGED <<ifid, idex, exmem, memwb>>
      BY <3>1 DEF latches
    <3>4. Shapes' /\ Operands'
      BY <3>2, <3>3 DEF PipeInv, Shapes, Operands
    <3>5. Older' /\ Younger'
      BY <3>1, <3>2, <3>3 DEF PipeInv, Older, Younger, Addresses
    <3>6. Running'
      BY <2>1, <3>1 DEF PipeInv, Running, Programs
    <3> QED BY <3>4, <3>5, <3>6 DEF PipeInv
  <2>2. CASE Tick
    BY <2>2, TickKeeps
  <2>3. CASE UNCHANGED coreVars
    <3>1. Shapes' /\ Operands' /\ Running'
      BY <2>3 DEF PipeInv, coreVars, Shapes, Operands, Running, Programs
    <3>2. Younger' /\ Older'
      BY <2>3 DEF PipeInv, coreVars, Younger, Older, Addresses
    <3> QED BY <3>1, <3>2 DEF PipeInv
  <2>4. CASE UnitQuiet(imem) /\ Resolve
    BY <2>3, <2>4, ResolveStutters
  <2> QED BY <2>1, <2>2, <2>3, <2>4 DEF CoreNext
<1> QED BY <1>1, <1>2, PTL DEF CoreSpec
-----------------------------------------------------------------------------
(* The operators of InOrder are those the pipeline is built from. *)
LEMMA SameInstructions ==
  /\ \A i : Architecture!Writes(i) = Arch!Writes(i)
  /\ \A i : Architecture!Links(i) = Arch!Links(i)
  /\ \A i : Architecture!Branches(i) = Arch!Branches(i)
  /\ \A i, a, b : Architecture!Taken(i, a, b) = Arch!Taken(i, a, b)
  BY DEF Architecture!Writes, Arch!Writes, Architecture!Links, Arch!Links, Architecture!Branches,
         Arch!Branches, Architecture!Taken, Arch!Taken

LEMMA SameResults ==
  /\ \A n : Architecture!Word(n) = Arch!Word(n)
  /\ \A i, a, b : Architecture!Alu(i, a, b) = Arch!Alu(i, a, b)
  /\ \A i, n, a : Architecture!AluA(i, n, a) = Arch!AluA(i, n, a)
  /\ \A i, b : Architecture!AluB(i, b) = Arch!AluB(i, b)
  BY DEF Architecture!Word, Arch!Word, Architecture!Alu, Arch!Alu, Architecture!AluA, Arch!AluA,
         Architecture!AluB, Arch!AluB, Architecture!Immediate, Arch!Immediate

LEMMA SameStores ==
  /\ \A m, n : Architecture!ReadWord(m, n) = Arch!ReadWord(m, n)
  /\ \A m, n, v : Architecture!WriteWord(m, n, v) = Arch!WriteWord(m, n, v)
  /\ \A r, n, v : Architecture!WriteReg(r, n, v) = Arch!WriteReg(r, n, v)
  /\ \A n : Architecture!Wrapped(n) = Arch!Wrapped(n)
  BY DEF Architecture!ReadWord, Arch!ReadWord, Architecture!WriteWord, Arch!WriteWord,
         Architecture!WriteReg, Arch!WriteReg, Architecture!Wrapped, Arch!Wrapped

(* In-order execution, in the pipeline's own operators. *)
LEMMA ExecuteLemma ==
  ASSUME NEW i, NEW a, NEW b, NEW result, NEW p,
         p = ArchPc, i = imem[p], a = ArchRegs[i.rs1], b = ArchRegs[i.rs2],
         result = Arch!Alu(i, Arch!AluA(i, p, a), Arch!AluB(i, b)),
         running, running' = running, imem' = imem,
         Stored' = IF i.op = "SW" THEN Arch!WriteWord(Stored, result, b) ELSE Stored,
         ArchRegs' = IF ~ Arch!Writes(i) THEN ArchRegs
                     ELSE Arch!WriteReg(ArchRegs, i.rd,
                            IF Arch!Links(i) THEN Arch!Word(p + 1)
                            ELSE IF i.op = "LW" THEN Arch!ReadWord(Stored, result) ELSE result),
         ArchPc' = Arch!Wrapped(IF Arch!Branches(i) /\ Arch!Taken(i, a, b) THEN p + i.imm ELSE p + 1)
  PROVE  Architecture!Execute
  BY SameInstructions, SameResults, SameStores DEF Architecture!Execute
-----------------------------------------------------------------------------
(* A tick without a jump: what was in EX/MEM and MEM/WB is in the          *)
(* registers and in MEM/WB now.                                            *)
LEMMA RetireLemma ==
  ASSUME PipeInv, Tick, ~ Mispredicted(Loaded, Retiring(Loaded))
  PROVE  WrittenBack' = ArchRegs
<1>1. regs' = WrittenBack /\ memwb' = Retiring(Loaded)
  BY TickLemma, OnLemma
<1>2. CASE ~ exmem.valid
  <2>1. Retiring(Loaded) = Bubble
    BY <1>2, LoadedLemma DEF PipeInv, Retiring, Bubble
  <2>2. ~ memwb'.valid
    BY <1>1, <2>1 DEF Bubble
  <2>3. WrittenBack' = regs'
    BY <2>2 DEF WrittenBack
  <2> QED BY <1>1, <1>2, <2>3 DEF ArchRegs, Pending
<1>3. CASE exmem.valid
  <2>1. Loaded.valid = TRUE /\ Loaded.inst = exmem.inst /\ Loaded.link = exmem.link
    BY <1>3, LoadedLemma DEF PipeInv
  <2>2. memwb' = [valid |-> TRUE, inst |-> Loaded.inst, result |-> Loaded.result, link |-> Loaded.link]
    BY <1>1, <2>1 DEF Retiring
  <2>3. /\ memwb'.valid = TRUE /\ memwb'.inst = exmem.inst /\ memwb'.link = exmem.link
        /\ memwb'.result = Loaded.result
    BY <2>1, <2>2
  <2>4. WrittenBack' = IF ~ Arch!Writes(exmem.inst) THEN WrittenBack
                       ELSE Arch!WriteReg(WrittenBack, exmem.inst.rd,
                              IF Arch!Links(exmem.inst) THEN exmem.link ELSE Loaded.result)
    BY <1>1, <2>3 DEF WrittenBack
  <2> QED BY <1>3, <2>4 DEF ArchRegs, Pending
<1> QED BY <1>2, <1>3

(* The instruction that leaves EX without a jump. *)
LEMMA OnExecutes ==
  ASSUME PipeInv, Tick, ~ Mispredicted(Loaded, Retiring(Loaded)), idex.valid
  PROVE  Architecture!Execute
<1> DEFINE i == idex.inst
           a == ArchRegs[i.rs1]
           b == ArchRegs[i.rs2]
           result == Arch!Alu(i, Arch!AluA(i, idex.pc, a), Arch!AluB(i, b))
<1>1. /\ running /\ running' = running /\ imem' = imem /\ dmem' = Stored
  BY TickLemma
<1>2. /\ exmem' = Executed(Loaded, Retiring(Loaded)) /\ WrittenBack' = ArchRegs
  BY OnLemma, RetireLemma
<1>3. /\ ~ (Arch!Branches(i) /\ Arch!Taken(i, a, b))
      /\ Arch!Branches(i) => exmem' = Bubble
      /\ ~ Arch!Branches(i) => exmem' = [valid |-> TRUE, inst |-> i, store |-> b,
                                         link |-> Arch!Word(idex.pc + 1), result |-> result]
  BY <1>1, <1>2, ExecutedLemma
<1>4. ArchPc = idex.pc /\ i = imem[idex.pc]
  BY DEF ArchPc, PipeInv, Younger
<1>5. ArchPc' = Arch!Wrapped(idex.pc + 1)
  <2>1. ifid.valid /\ ifid.pc = Arch!Wrapped(idex.pc + 1)
    BY DEF PipeInv, Younger
  <2>2. idex' = [valid |-> TRUE, pc |-> ifid.pc, inst |-> ifid.inst,
                 a |-> regs'[ifid.inst.rs1], b |-> regs'[ifid.inst.rs2]]
    BY <2>1, OnLemma
  <2>3. idex'.valid = TRUE /\ idex'.pc = ifid.pc
    BY <2>2
  <2> QED BY <2>1, <2>3 DEF ArchPc
<1> HIDE DEF a, b, result
<1>6. CASE Arch!Branches(i)
  <2>1. ~ exmem'.valid
    BY <1>3, <1>6 DEF Bubble
  <2>2. ArchRegs' = ArchRegs /\ Stored' = Stored
    BY <1>1, <1>2, <2>1 DEF ArchRegs, Pending, Stored
  <2>3. ~ Arch!Writes(i) /\ i.op # "SW"
    BY <1>6 DEF Arch!Branches, Arch!Writes
  <2> QED BY <1>1, <1>3, <1>4, <1>5, <2>2, <2>3, ExecuteLemma DEF a, b, result
<1>7. CASE ~ Arch!Branches(i)
  <2>1. /\ exmem'.valid = TRUE /\ exmem'.inst = i /\ exmem'.store = b
        /\ exmem'.link = Arch!Word(idex.pc + 1) /\ exmem'.result = result
    BY <1>3, <1>7
  <2>2. Stored' = IF i.op = "SW" THEN Arch!WriteWord(Stored, result, b) ELSE Stored
    BY <1>1, <2>1 DEF Stored
  <2>3. Loaded'.result = IF i.op = "LW" THEN Arch!ReadWord(Stored, result) ELSE result
    <3> DEFINE e == [valid |-> TRUE, inst |-> i, store |-> b,
                     link |-> Arch!Word(idex.pc + 1), result |-> result]
               v == Arch!ReadWord(dmem', e.result)
               n == [e EXCEPT !.result = v]
    <3>1. exmem' = e
      BY <1>3, <1>7
    <3>2. n.result = v /\ v = Arch!ReadWord(Stored, result)
      BY <1>1
    <3>3. CASE i.op = "LW"
      <4>1. Loaded' = n
        BY <2>1, <3>1, <3>3 DEF Loaded
      <4> HIDE DEF n, v, e
      <4> QED BY <3>2, <3>3, <4>1
    <3>4. CASE i.op # "LW"
      BY <2>1, <3>4 DEF Loaded
    <3> QED BY <3>3, <3>4
  <2>4. ArchRegs' = IF ~ Arch!Writes(i) THEN ArchRegs
                    ELSE Arch!WriteReg(ArchRegs, i.rd,
                           IF Arch!Links(i) THEN Arch!Word(idex.pc + 1)
                           ELSE IF i.op = "LW" THEN Arch!ReadWord(Stored, result) ELSE result)
    BY <1>2, <2>1, <2>3 DEF ArchRegs, Pending
  <2> QED BY <1>1, <1>3, <1>4, <1>5, <2>2, <2>4, ExecuteLemma DEF a, b, result
<1> QED BY <1>6, <1>7

(* A taken branch drops the latches behind it and before it: nothing that  *)
(* writes a register or the memory is lost.                                *)
LEMMA JumpExecutes ==
  ASSUME PipeInv, Tick, Mispredicted(Loaded, Retiring(Loaded))
  PROVE  Architecture!Execute
<1> DEFINE i == idex.inst
           a == ArchRegs[i.rs1]
           b == ArchRegs[i.rs2]
           result == Arch!Alu(i, Arch!AluA(i, idex.pc, a), Arch!AluB(i, b))
<1>1. /\ running /\ running' = running /\ imem' = imem /\ dmem' = Stored /\ regs' = WrittenBack
  BY TickLemma
<1>2. idex.valid /\ imem \in Programs /\ HazardFree(imem)
  BY <1>1 DEF Mispredicted, PipeInv, Running
<1>3. Arch!Branches(i) /\ Arch!Taken(i, a, b)
  BY <1>1, <1>2, ExecutedLemma
<1>4. ArchPc = idex.pc /\ i = imem[idex.pc] /\ idex.pc \in Addresses
  BY <1>2 DEF ArchPc, PipeInv, Younger
<1>5. /\ memwb' = Bubble /\ exmem' = Bubble /\ idex' = Bubble /\ ifid' = Bubble
      /\ pc' = Arch!Wrapped(idex.pc + i.imm)
  BY JumpLemma
<1>6. ~ memwb'.valid /\ ~ exmem'.valid /\ ~ idex'.valid /\ ~ ifid'.valid
  BY <1>5 DEF Bubble
<1>7. ArchPc' = Arch!Wrapped(idex.pc + i.imm)
  BY <1>5, <1>6 DEF ArchPc
<1>8. ~ (exmem.valid /\ Arch!Writes(exmem.inst))
  <2> SUFFICES ASSUME exmem.valid, Arch!Writes(exmem.inst) PROVE FALSE
    OBVIOUS
  <2>1. PICK p \in Addresses : Middle(p, imem, exmem, idex)
    BY DEF PipeInv, Older
  <2>2. idex.pc \in After(imem, p) /\ p \in DOMAIN imem /\ exmem.inst = imem[p]
    BY <1>2, <2>1, InstrLemma DEF Middle
  <2> QED BY <1>2, <1>3, <1>4, <2>2, OneBack
<1>9. ArchRegs = WrittenBack
  BY <1>8 DEF ArchRegs, Pending
<1>10. WrittenBack' = regs'
  BY <1>6 DEF WrittenBack
<1>11. ArchRegs' = ArchRegs /\ Stored' = Stored
  BY <1>1, <1>6, <1>9, <1>10 DEF ArchRegs, Pending, Stored
<1>12. ~ Arch!Writes(i) /\ i.op # "SW"
  BY <1>3 DEF Arch!Branches, Arch!Writes
<1> QED BY <1>1, <1>3, <1>4, <1>7, <1>11, <1>12, ExecuteLemma

(* With nothing in EX, a tick only moves younger instructions on. *)
LEMMA EmptyTickStutters ==
  ASSUME PipeInv, Tick, ~ idex.valid
  PROVE  UNCHANGED Architecture!state
<1>1. /\ running' = running /\ imem' = imem /\ dmem' = Stored /\ regs' = WrittenBack
  BY TickLemma
<1>2. ~ Mispredicted(Loaded, Retiring(Loaded))
  BY DEF Mispredicted
<1>3. ~ exmem.valid
  BY OlderWaits
<1>4. exmem' = Bubble
  BY <1>2, OnLemma DEF Executed
<1>5. ~ exmem'.valid
  BY <1>4 DEF Bubble
<1>6. ArchRegs' = ArchRegs /\ Stored' = Stored
  <2>1. WrittenBack' = ArchRegs
    BY <1>2, RetireLemma
  <2> QED BY <1>1, <1>3, <1>5, <2>1 DEF ArchRegs, Pending, Stored
<1>7. ArchPc' = ArchPc
  <2>1. /\ ifid' = [valid |-> TRUE, pc |-> pc, inst |-> imem[pc]]
        /\ ~ ifid.valid => idex' = Bubble
        /\ ifid.valid =>
             idex' = [valid |-> TRUE, pc |-> ifid.pc, inst |-> ifid.inst,
                      a |-> regs'[ifid.inst.rs1], b |-> regs'[ifid.inst.rs2]]
    BY <1>2, OnLemma
  <2>2. ifid'.valid = TRUE /\ ifid'.pc = pc
    BY <2>1
  <2>3. CASE ifid.valid
    <3>1. idex'.valid = TRUE /\ idex'.pc = ifid.pc
      BY <2>1, <2>3
    <3> QED BY <2>3, <3>1 DEF ArchPc
  <2>4. CASE ~ ifid.valid
    <3>1. ~ idex'.valid
      BY <2>1, <2>4 DEF Bubble
    <3> QED BY <2>2, <2>4, <3>1 DEF ArchPc
  <2> QED BY <2>3, <2>4
<1> QED BY <1>1, <1>6, <1>7 DEF Architecture!state

(* ImplementsInOrder: the pipeline executes one instruction at a time, in  *)
(* program order, on every hazard-free program, for every size.            *)
THEOREM PipelineImplements == CoreSpec => ImplementsInOrder
<1>1. CoreInit => Architecture!Init
  <2> SUFFICES ASSUME CoreInit PROVE Architecture!Init
    OBVIOUS
  <2>1. /\ ~ memwb.valid /\ ~ exmem.valid /\ ~ idex.valid /\ ~ ifid.valid
    BY DEF CoreInit, Bubble
  <2>2. ArchRegs = regs /\ Stored = dmem /\ ArchPc = pc
    BY <2>1 DEF ArchRegs, Pending, WrittenBack, Stored, ArchPc
  <2> QED BY <2>2 DEF CoreInit, Arch!Init, Architecture!Init, Arch!RegIds, Architecture!RegIds,
                      Arch!Zero, Architecture!Zero
<1>2. PipeInv /\ [CoreNext]_coreVars => [Architecture!Next]_(Architecture!state)
  <2> SUFFICES ASSUME PipeInv, [CoreNext]_coreVars
               PROVE  Architecture!Execute \/ Architecture!Load \/ UNCHANGED Architecture!state
    BY DEF Architecture!Next
  <2>1. CASE LoadProgram
    <3>1. /\ ~ running /\ running' = TRUE /\ imem' \in Programs
          /\ UNCHANGED <<regs, dmem, pc, ifid, idex, exmem, memwb>>
      BY <2>1 DEF LoadProgram, Arch!Load, latches
    <3>2. ~ memwb.valid /\ ~ exmem.valid /\ ~ memwb'.valid /\ ~ exmem'.valid
      BY <3>1 DEF PipeInv, Running
    <3>3. ArchRegs = regs /\ ArchRegs' = regs'
      BY <3>2 DEF ArchRegs, Pending, WrittenBack
    <3>4. Stored = dmem /\ Stored' = dmem'
      BY <3>2 DEF Stored
    <3>5. ArchPc' = ArchPc
      BY <3>1 DEF ArchPc
    <3> QED BY <3>1, <3>3, <3>4, <3>5 DEF Architecture!Load
  <2>2. CASE Tick
    BY <2>2, OnExecutes, JumpExecutes, EmptyTickStutters
  <2>3. CASE UNCHANGED coreVars
    <3>1. ArchRegs' = ArchRegs
      BY <2>3 DEF coreVars, ArchRegs, Pending, WrittenBack, Loaded
    <3>2. Stored' = Stored /\ ArchPc' = ArchPc
      BY <2>3 DEF coreVars, Stored, ArchPc
    <3> QED BY <2>3, <3>1, <3>2 DEF coreVars, Architecture!state
  <2>4. CASE UnitQuiet(imem) /\ Resolve
    BY <2>3, <2>4, ResolveStutters
  <2> QED BY <2>1, <2>2, <2>3, <2>4 DEF CoreNext
<1> QED BY <1>1, <1>2, PipelineInvariant, PTL DEF CoreSpec, ImplementsInOrder, Architecture!Spec
-----------------------------------------------------------------------------
(* The small units.                                                          *)
CONSTANTS
  Pcs, BtbSize, TlbSize, Half, Irqs, MaxBreakpoints, ByteBits, MemSize, Samples, Words
VARIABLES
  unit, btb, recorded, mmu, irq, requests, debug, wanted, inst, bytes, stored
Units == INSTANCE HartUnits

(* A target in the buffer was recorded for its branch.                       *)
TargetsInv ==
  /\ btb \in Seq([pc : Pcs, target : Pcs])
  /\ \A n \in DOMAIN btb : <<btb[n].pc, btb[n].target>> \in recorded

(* Entries of a cache are what the table says, once for each page; while     *)
(* translation is off, which is when the table is written, there are none.   *)
Cached == [page : Half \X Half, frame : (Int \X Half) \cup (Half \X Half)]
Coherent(m, es) ==
  /\ es \in Seq(Cached)
  /\ \A n \in DOMAIN es : es[n].frame = Units!Walk(m, es[n].page)
  /\ \A n, k \in DOMAIN es : es[n].page = es[k].page => n = k
  /\ m.mode = "BARE" => es = <<>>

CacheSound(m, t) == DOMAIN t = {"entries", "victim"} /\ Coherent(m, t.entries)
TlbInv ==
  /\ DOMAIN mmu = {"mode", "rooted", "valid", "itlb", "dtlb"}
  /\ mmu.rooted \in BOOLEAN /\ mmu.mode \in {"BARE", "SV32", "SV39"}
  /\ CacheSound(mmu, mmu.itlb) /\ CacheSound(mmu, mmu.dtlb)

(* A breakpoint stands for what is wanted at its place, or is disabled.      *)
Point == [pc : Pcs, instr : BOOLEAN, enabled : BOOLEAN]
PointsInv ==
  /\ debug \in [state : {"RUNNING", "HALTED", "STEPPING"}, halted : BOOLEAN, ack : BOOLEAN, points : Seq(Point)]
  /\ wanted \in Seq(SUBSET (Pcs \X BOOLEAN)) /\ Len(wanted) = Len(debug.points)
  /\ \A n \in DOMAIN wanted : LET p == debug.points[n] IN wanted[n] = IF p.enabled THEN {<<p.pc, p.instr>>} ELSE {}

IrqInv ==
  /\ irq \in [pending : SUBSET Irqs, enabled : SUBSET Irqs, global : BOOLEAN]
  /\ requests = irq.pending

UnitsInv == TargetsInv /\ TlbInv /\ PointsInv /\ IrqInv

LEMMA LeastNumber ==
  ASSUME NEW T \in SUBSET Nat, T # {}
  PROVE  \E x \in T : \A y \in T : x <= y
<1> DEFINE less == {ss \in Nat \X Nat : ss[1] < ss[2]}
<1>1. IsWellFoundedOn(less, Nat)
  BY NatLessThanWellFounded, Zenon DEF OpToRel
<1>2. PICK x \in T : \A y \in T : ~ (<<y, x>> \in less)
  BY <1>1, WFMin
<1>3. ASSUME NEW y \in T PROVE x <= y
  <2>1. x \in Nat /\ y \in Nat
    OBVIOUS
  <2>2. y < x => <<y, x>> \in less
    BY <2>1
  <2> HIDE DEF less
  <2>3. ~ (y < x)
    BY <1>2, <2>2
  <2> QED BY <2>1, <2>3
<1> QED BY <1>3

(* A page that is not found has no entry.                                    *)
LEMMA NotFound ==
  ASSUME NEW t, t.entries \in Seq(Cached), NEW page, Units!TlbLookup(t, page) = {}
  PROVE  \A n \in DOMAIN t.entries : t.entries[n].page # page
<1> DEFINE T == {n \in DOMAIN t.entries : t.entries[n].page = page}
<1>1. SUFFICES ASSUME T # {} PROVE FALSE
  OBVIOUS
<1>2. T \in SUBSET Nat /\ DOMAIN t.entries = 1 .. Len(t.entries) /\ Len(t.entries) \in Nat
  OBVIOUS
<1>3. PICK n \in T : \A k \in T : n <= k
  BY <1>1, <1>2, LeastNumber
<1>4. n \in Units!First(t.entries, LAMBDA e : e.page = page)
  BY <1>2, <1>3 DEF Units!First
<1> QED BY <1>4 DEF Units!TlbLookup

LEMMA InsertKeeps ==
  ASSUME NEW m, NEW t, CacheSound(m, t), m.mode # "BARE", NEW e \in Cached, e.frame = Units!Walk(m, e.page),
         \A n \in DOMAIN t.entries : t.entries[n].page # e.page
  PROVE  CacheSound(m, Units!TlbInsert(t, e))
<1> DEFINE es == t.entries
<1>1. es \in Seq(Cached) /\ DOMAIN t = {"entries", "victim"} /\ DOMAIN es = 1 .. Len(es) /\ Len(es) \in Nat
  BY DEF CacheSound, Coherent
<1>2. CASE Len(es) < TlbSize
  <2>1. Units!TlbInsert(t, e) = [t EXCEPT !.entries = Append(es, e)]
    BY <1>2 DEF Units!TlbInsert
  <2>2. DOMAIN Units!TlbInsert(t, e) = {"entries", "victim"} /\ Units!TlbInsert(t, e).entries = Append(es, e)
    BY <1>1, <2>1
  <2> DEFINE f == Append(es, e)
  <2>3. /\ f \in Seq(Cached) /\ DOMAIN f = DOMAIN es \cup {Len(es) + 1} /\ f[Len(es) + 1] = e
        /\ \A n \in DOMAIN es : f[n] = es[n]
    BY <1>1
  <2> HIDE DEF f
  <2>4. Coherent(m, f)
    BY <2>3 DEF CacheSound, Coherent
  <2> QED BY <2>2, <2>4 DEF CacheSound, f
<1>3. CASE ~ (Len(es) < TlbSize)
  <2> DEFINE f == [es EXCEPT ![t.victim] = e]
  <2>1. DOMAIN Units!TlbInsert(t, e) = {"entries", "victim"} /\ Units!TlbInsert(t, e).entries = f
    BY <1>3 DEF Units!TlbInsert
  <2>2. /\ f \in Seq(Cached) /\ DOMAIN f = DOMAIN es
        /\ \A n \in DOMAIN es : f[n] = IF n = t.victim THEN e ELSE es[n]
    <3>1. CASE t.victim \in DOMAIN es
      BY <1>1, <3>1, ExceptSeq
    <3>2. CASE t.victim \notin DOMAIN es
      <4>1. DOMAIN f = DOMAIN es /\ \A n \in DOMAIN es : f[n] = es[n]
        BY <3>2
      <4>2. f = es
        BY <1>1, <4>1
      <4> QED BY <1>1, <3>2, <4>2
    <3> QED BY <3>1, <3>2
  <2> HIDE DEF f
  <2>3. m.mode # "BARE" /\ \A n \in DOMAIN f : f[n].frame = Units!Walk(m, f[n].page)
    BY <2>2 DEF CacheSound, Coherent
  <2>4. \A n, k \in DOMAIN f : f[n].page = f[k].page => n = k
    BY <2>2 DEF CacheSound, Coherent
  <2>5. Coherent(m, f)
    BY <2>2, <2>3, <2>4 DEF Coherent
  <2> QED BY <2>1, <2>5 DEF CacheSound
<1> QED BY <1>2, <1>3

(* What a cache is depends on the table and the mode alone.                  *)
LEMMA SameTable ==
  ASSUME NEW m, NEW n, n.mode = m.mode, n.rooted = m.rooted, n.valid = m.valid, NEW t, CacheSound(m, t)
  PROVE  CacheSound(n, t)
<1>1. \A page : Units!Walk(n, page) = Units!Walk(m, page)
  BY DEF Units!Walk
<1> QED BY <1>1 DEF CacheSound, Coherent

LEMMA TranslateKeeps == ASSUME TlbInv, Units!Translate PROVE TlbInv'
<1>1. PICK tlb \in {"itlb", "dtlb"}, page \in Half \X Half :
        /\ mmu.mode # "BARE" /\ Units!TlbLookup(mmu[tlb], page) = {} /\ Units!Walk(mmu, page) # Units!Fault
        /\ mmu' = [mmu EXCEPT ![tlb] = Units!TlbInsert(mmu[tlb], [page |-> page, frame |-> Units!Walk(mmu, page)])]
  BY DEF Units!Translate
<1> DEFINE e == [page |-> page, frame |-> Units!Walk(mmu, page)]
<1>2. Units!Walk(mmu, page) \in (Int \X Half) \cup (Half \X Half)
  BY <1>1 DEF TlbInv, Units!Walk, Units!Fault
<1>3. e \in Cached /\ e.page = page /\ e.frame = Units!Walk(mmu, e.page)
  BY <1>1, <1>2 DEF Cached
<1>4. CacheSound(mmu, mmu[tlb]) /\ mmu[tlb].entries \in Seq(Cached)
  BY <1>1 DEF TlbInv, CacheSound, Coherent
<1> HIDE DEF e
<1>5. PICK m : m = mmu
  OBVIOUS
<1>6. PICK u : u = Units!TlbInsert(m[tlb], e)
  OBVIOUS
<1>7. \A n \in DOMAIN m[tlb].entries : m[tlb].entries[n].page # page
  BY <1>1, <1>4, <1>5, NotFound
<1>8. CacheSound(m, u)
  BY <1>1, <1>3, <1>4, <1>5, <1>6, <1>7, InsertKeeps
<1>9. /\ DOMAIN mmu' = DOMAIN m /\ mmu'[tlb] = u /\ \A o \in DOMAIN m \ {tlb} : mmu'[o] = m[o]
      /\ mmu'.mode = m.mode /\ mmu'.rooted = m.rooted /\ mmu'.valid = m.valid
  BY <1>1, <1>5, <1>6 DEF TlbInv, e
<1>10. CacheSound(m, mmu'.itlb) /\ CacheSound(m, mmu'.dtlb)
  BY <1>5, <1>8, <1>9 DEF TlbInv
<1>11. PICK n : n = mmu'
  OBVIOUS
<1>12. CacheSound(n, n.itlb) /\ CacheSound(n, n.dtlb)
  BY <1>9, <1>10, <1>11, SameTable
<1>13. (CacheSound(mmu, mmu.itlb) /\ CacheSound(mmu, mmu.dtlb))'
  BY <1>11, <1>12 DEF CacheSound, Coherent, Units!Walk
<1> QED BY <1>5, <1>9, <1>13 DEF TlbInv

LEMMA TableKeeps == ASSUME TlbInv, Units!SetMode \/ Units!WriteTable PROVE TlbInv'
<1>1. ASSUME NEW mode \in {"BARE", "SV32", "SV39"}, mmu' = Units!InMode(mode) PROVE TlbInv'
  <2>1. /\ DOMAIN mmu' = {"mode", "rooted", "valid", "itlb", "dtlb"} /\ mmu'.rooted = mmu.rooted /\ mmu'.mode = mode
        /\ mmu'.itlb = Units!NoEntries /\ mmu'.dtlb = Units!NoEntries
    BY <1>1 DEF TlbInv, Units!InMode
  <2>2. DOMAIN Units!NoEntries = {"entries", "victim"} /\ Units!NoEntries.entries = <<>>
    BY DEF Units!NoEntries
  <2> QED BY <2>1, <2>2 DEF TlbInv, CacheSound, Coherent
<1>2. ASSUME NEW v \in SUBSET Half, mmu.mode = "BARE", mmu' = [mmu EXCEPT !.rooted = TRUE, !.valid = v] PROVE TlbInv'
  <2>1. /\ DOMAIN mmu' = {"mode", "rooted", "valid", "itlb", "dtlb"} /\ mmu'.rooted = TRUE /\ mmu'.mode = mmu.mode
        /\ mmu'.itlb = mmu.itlb /\ mmu'.dtlb = mmu.dtlb
    BY <1>2 DEF TlbInv
  <2>2. mmu.itlb.entries = <<>> /\ mmu.dtlb.entries = <<>>
    BY <1>2 DEF TlbInv, CacheSound, Coherent
  <2>3. DOMAIN mmu.itlb = {"entries", "victim"} /\ DOMAIN mmu.dtlb = {"entries", "victim"}
    BY DEF TlbInv, CacheSound
  <2>4. <<>> \in Seq(Cached) /\ DOMAIN (<<>>) = {}
    OBVIOUS
  <2>5. CacheSound(mmu, mmu.itlb)' /\ CacheSound(mmu, mmu.dtlb)'
    BY <2>1, <2>2, <2>3, <2>4 DEF CacheSound, Coherent
  <2>6. mmu'.mode \in {"BARE", "SV32", "SV39"} /\ mmu'.rooted \in BOOLEAN
    BY <1>2, <2>1
  <2> QED BY <2>1, <2>5, <2>6 DEF TlbInv
<1> QED BY <1>1, <1>2 DEF Units!SetMode, Units!WriteTable

LEMMA PointsKept == ASSUME PointsInv, Units!DebugControl \/ Units!SetBreakpoint \/ Units!ClearBreakpoint PROVE PointsInv'
<1> DEFINE Module == [state : {"RUNNING", "HALTED", "STEPPING"}, halted : BOOLEAN, ack : BOOLEAN, points : Seq(Point)]
<1>1. /\ debug \in Module /\ debug.points \in Seq(Point) /\ wanted \in Seq(SUBSET (Pcs \X BOOLEAN))
      /\ Len(wanted) = Len(debug.points) /\ DOMAIN wanted = DOMAIN debug.points /\ DOMAIN wanted = 1 .. Len(wanted)
      /\ Len(wanted) \in Nat
      /\ \A n \in DOMAIN wanted : wanted[n] = IF debug.points[n].enabled THEN {<<debug.points[n].pc, debug.points[n].instr>>} ELSE {}
  BY DEF PointsInv
<1>2. CASE Units!DebugControl
  <2>1. wanted' = wanted /\ debug' \in Module /\ debug'.points = debug.points
    BY <1>1, <1>2 DEF Units!DebugControl
  <2> QED BY <1>1, <2>1 DEF PointsInv
<1>3. CASE Units!SetBreakpoint
  <2>1. PICK at \in Pcs, instr \in BOOLEAN :
          /\ debug' = [debug EXCEPT !.points = Append(debug.points, [pc |-> at, instr |-> instr, enabled |-> TRUE])]
          /\ wanted' = Append(wanted, {<<at, instr>>})
    BY <1>3 DEF Units!SetBreakpoint
  <2> DEFINE p == [pc |-> at, instr |-> instr, enabled |-> TRUE]
             ps == Append(debug.points, p)
  <2>2. p \in Point /\ p.pc = at /\ p.instr = instr /\ p.enabled = TRUE
    BY DEF Point
  <2> HIDE DEF p
  <2>3. /\ ps \in Seq(Point) /\ DOMAIN ps = DOMAIN debug.points \cup {Len(wanted) + 1} /\ Len(ps) = Len(wanted) + 1
        /\ ps[Len(wanted) + 1] = p /\ \A n \in DOMAIN debug.points : ps[n] = debug.points[n]
    BY <1>1, <2>2
  <2> HIDE DEF ps
  <2>4. debug' \in Module /\ debug'.points = ps
    BY <1>1, <2>1, <2>3 DEF ps, p
  <2>5. {<<at, instr>>} \in SUBSET (Pcs \X BOOLEAN)
    OBVIOUS
  <2>6. /\ wanted' \in Seq(SUBSET (Pcs \X BOOLEAN)) /\ Len(wanted') = Len(wanted) + 1
        /\ DOMAIN wanted' = DOMAIN wanted \cup {Len(wanted) + 1} /\ wanted'[Len(wanted) + 1] = {<<at, instr>>}
        /\ \A n \in DOMAIN wanted : wanted'[n] = wanted[n]
    BY <1>1, <2>1, <2>5
  <2>7. ASSUME NEW n \in DOMAIN wanted'
        PROVE  wanted'[n] = IF ps[n].enabled THEN {<<ps[n].pc, ps[n].instr>>} ELSE {}
    BY <1>1, <2>2, <2>3, <2>6
  <2> QED BY <2>3, <2>4, <2>6, <2>7 DEF PointsInv
<1>4. CASE Units!ClearBreakpoint
  <2>1. PICK n \in DOMAIN debug.points :
          debug' = [debug EXCEPT !.points[n].enabled = FALSE] /\ wanted' = [wanted EXCEPT ![n] = {}]
    BY <1>4 DEF Units!ClearBreakpoint
  <2> DEFINE p == [debug.points[n] EXCEPT !.enabled = FALSE]
             ps == [debug.points EXCEPT ![n] = p]
  <2>2. debug.points[n] \in Point /\ n \in 1 .. Len(debug.points)
    BY <1>1, ElementOfSeq
  <2>3. p \in Point /\ p.enabled = FALSE
    BY <2>2 DEF Point
  <2> HIDE DEF p
  <2>4. /\ ps \in Seq(Point) /\ DOMAIN ps = DOMAIN wanted /\ Len(ps) = Len(wanted) /\ ps[n] = p
        /\ \A k \in DOMAIN wanted \ {n} : ps[k] = debug.points[k]
    BY <1>1, <2>2, <2>3, ExceptSeq
  <2>5. debug' = [debug EXCEPT !.points = ps]
    BY <2>1 DEF ps, p
  <2> HIDE DEF ps
  <2>6. debug' \in Module /\ debug'.points = ps
    BY <1>1, <2>4, <2>5
  <2>7. {} \in SUBSET (Pcs \X BOOLEAN)
    OBVIOUS
  <2>8. /\ wanted' \in Seq(SUBSET (Pcs \X BOOLEAN)) /\ Len(wanted') = Len(wanted) /\ DOMAIN wanted' = DOMAIN wanted
        /\ wanted'[n] = {} /\ \A k \in DOMAIN wanted \ {n} : wanted'[k] = wanted[k]
    BY <1>1, <2>1, <2>2, <2>7, ExceptSeq
  <2>9. ASSUME NEW k \in DOMAIN wanted'
        PROVE  wanted'[k] = IF ps[k].enabled THEN {<<ps[k].pc, ps[k].instr>>} ELSE {}
    BY <1>1, <2>3, <2>4, <2>8
  <2> QED BY <2>4, <2>6, <2>8, <2>9 DEF PointsInv
<1> QED BY <1>2, <1>3, <1>4

LEMMA TargetsKept == ASSUME TargetsInv, Units!Update PROVE TargetsInv'
<1>1. PICK at \in Pcs, target \in Pcs :
        /\ btb' = IF Len(btb) < BtbSize THEN Append(btb, [pc |-> at, target |-> target])
                  ELSE [btb EXCEPT ![1] = [pc |-> at, target |-> target]]
        /\ recorded' = recorded \cup {<<at, target>>}
  BY DEF Units!Update
<1> DEFINE e == [pc |-> at, target |-> target]
           Targets == [pc : Pcs, target : Pcs]
<1>2. e \in Targets /\ <<e.pc, e.target>> \in recorded'
  BY <1>1
<1>3. btb \in Seq(Targets) /\ \A n \in DOMAIN btb : <<btb[n].pc, btb[n].target>> \in recorded'
  BY <1>1 DEF TargetsInv
<1>4. btb' = Append(btb, e) \/ btb' = [btb EXCEPT ![1] = e]
  BY <1>1
<1> HIDE DEF e, Targets
<1>5. CASE btb' = Append(btb, e)
  <2>1. btb' \in Seq(Targets) /\ \A n \in DOMAIN btb' : btb'[n] = e \/ (n \in DOMAIN btb /\ btb'[n] = btb[n])
    BY <1>2, <1>3, <1>5
  <2> QED BY <1>2, <1>3, <2>1 DEF TargetsInv, Targets
<1>6. CASE btb' = [btb EXCEPT ![1] = e]
  <2>1. DOMAIN btb' = DOMAIN btb /\ \A n \in DOMAIN btb : btb'[n] = e \/ btb'[n] = btb[n]
    BY <1>3, <1>6
  <2>2. btb' \in Seq(Targets)
    <3>1. CASE 1 \in 1 .. Len(btb)
      BY <1>2, <1>3, <1>6, <3>1, ExceptSeq
    <3>2. CASE 1 \notin 1 .. Len(btb)
      <4>1. DOMAIN btb = {} /\ btb = <<>>
        BY <1>3, <3>2
      <4>2. btb' = btb
        BY <1>6, <4>1
      <4> QED BY <1>3, <4>2
    <3> QED BY <3>1, <3>2
  <2> QED BY <1>2, <1>3, <2>1, <2>2 DEF TargetsInv, Targets
<1> QED BY <1>4, <1>5, <1>6

LEMMA IrqKept ==
  ASSUME IrqInv, Units!IrqConfigure \/ Units!IrqAssert \/ Units!IrqClear \/ Units!IrqTake
  PROVE  IrqInv'
<1>1. irq \in [pending : SUBSET Irqs, enabled : SUBSET Irqs, global : BOOLEAN] /\ requests = irq.pending
  BY DEF IrqInv
<1>2. CASE Units!IrqConfigure
  BY <1>1, <1>2 DEF Units!IrqConfigure, IrqInv
<1>3. CASE Units!IrqAssert
  BY <1>1, <1>3 DEF Units!IrqAssert, IrqInv
<1>4. CASE Units!IrqClear
  BY <1>1, <1>4 DEF Units!IrqClear, IrqInv
<1>5. CASE Units!IrqTake
  BY <1>1, <1>5 DEF Units!IrqTake, Units!LeftPending, Units!Candidates, IrqInv
<1> QED BY <1>2, <1>3, <1>4, <1>5

LEMMA UnitsStart == Units!Init => UnitsInv
<1> SUFFICES ASSUME Units!Init PROVE UnitsInv
  OBVIOUS
<1>1. TargetsInv /\ IrqInv /\ PointsInv
  BY DEF Units!Init, TargetsInv, IrqInv, PointsInv
<1>2. mmu = [mode |-> "BARE", rooted |-> FALSE, valid |-> {}, itlb |-> Units!NoEntries, dtlb |-> Units!NoEntries]
  BY DEF Units!Init
<1>3. DOMAIN Units!NoEntries = {"entries", "victim"} /\ Units!NoEntries.entries = <<>>
  BY DEF Units!NoEntries
<1>4. <<>> \in Seq(Cached) /\ DOMAIN (<<>>) = {}
  OBVIOUS
<1>5. CacheSound(mmu, Units!NoEntries)
  BY <1>3, <1>4 DEF CacheSound, Coherent
<1>6. TlbInv
  <2>1. /\ DOMAIN mmu = {"mode", "rooted", "valid", "itlb", "dtlb"}
        /\ mmu.mode = "BARE" /\ mmu.rooted = FALSE /\ mmu.itlb = Units!NoEntries /\ mmu.dtlb = Units!NoEntries
    BY <1>2
  <2> QED BY <1>5, <2>1 DEF TlbInv
<1> QED BY <1>1, <1>6 DEF UnitsInv

LEMMA UnitsStep == UnitsInv /\ [Units!Next]_(Units!unitVars) => UnitsInv'
<1> SUFFICES ASSUME UnitsInv, [Units!Next]_(Units!unitVars) PROVE UnitsInv'
  OBVIOUS
<1>1. /\ (Units!Update \/ UNCHANGED <<btb, recorded>>)
      /\ (Units!Translate \/ Units!SetMode \/ Units!WriteTable \/ UNCHANGED mmu)
      /\ (Units!IrqConfigure \/ Units!IrqAssert \/ Units!IrqClear \/ Units!IrqTake \/ UNCHANGED <<irq, requests>>)
      /\ (Units!DebugControl \/ Units!SetBreakpoint \/ Units!ClearBreakpoint \/ UNCHANGED <<debug, wanted>>)
  BY DEF Units!Next, Units!unitVars
<1>2. TargetsInv'
  <2>1. CASE UNCHANGED <<btb, recorded>>
    BY <2>1 DEF UnitsInv, TargetsInv
  <2> QED BY <1>1, <2>1, TargetsKept DEF UnitsInv
<1>3. TlbInv'
  <2>1. CASE UNCHANGED mmu
    BY <2>1 DEF UnitsInv, TlbInv, CacheSound, Coherent, Units!Walk
  <2> QED BY <1>1, <2>1, TranslateKeeps, TableKeeps DEF UnitsInv
<1>4. IrqInv'
  <2>1. CASE UNCHANGED <<irq, requests>>
    BY <2>1 DEF UnitsInv, IrqInv
  <2> QED BY <1>1, <2>1, IrqKept DEF UnitsInv
<1>5. PointsInv'
  <2>1. CASE UNCHANGED <<debug, wanted>>
    BY <2>1 DEF UnitsInv, PointsInv
  <2> QED BY <1>1, <2>1, PointsKept DEF UnitsInv
<1> QED BY <1>2, <1>3, <1>4, <1>5 DEF UnitsInv

LEMMA UnitsInvImplies == UnitsInv => Units!TlbCoherent /\ Units!NothingForgotten
<1> SUFFICES ASSUME UnitsInv PROVE Units!TlbCoherent /\ Units!NothingForgotten
  OBVIOUS
<1>1. Units!TlbCoherent
  BY DEF UnitsInv, TlbInv, CacheSound, Coherent, Units!TlbCoherent
<1>2. ASSUME NEW at \in Pcs, NEW instr \in BOOLEAN
      PROVE  Units!Hits(at, instr) <=> \E n \in DOMAIN wanted : <<at, instr>> \in wanted[n]
  <2>1. /\ DOMAIN wanted = DOMAIN debug.points
        /\ \A n \in DOMAIN wanted : debug.points[n] \in Point
        /\ \A n \in DOMAIN wanted : LET p == debug.points[n] IN wanted[n] = IF p.enabled THEN {<<p.pc, p.instr>>} ELSE {}
    BY DEF UnitsInv, PointsInv
  <2>2. ASSUME NEW n \in DOMAIN wanted
        PROVE  debug.points[n] = [pc |-> at, instr |-> instr, enabled |-> TRUE] <=> <<at, instr>> \in wanted[n]
    <3>1. PICK p : p = debug.points[n]
      OBVIOUS
    <3>2. p \in Point /\ wanted[n] = IF p.enabled THEN {<<p.pc, p.instr>>} ELSE {}
      BY <2>1, <3>1
    <3>3. p = [pc |-> p.pc, instr |-> p.instr, enabled |-> p.enabled] /\ p.enabled \in BOOLEAN
      BY <3>2 DEF Point
    <3>4. CASE p.enabled = FALSE
      <4>1. wanted[n] = {} /\ p # [pc |-> at, instr |-> instr, enabled |-> TRUE]
        BY <3>2, <3>4
      <4> QED BY <3>1, <4>1
    <3>5. CASE p.enabled = TRUE
      <4>1. wanted[n] = {<<p.pc, p.instr>>}
        BY <3>2, <3>5
      <4>2. p = [pc |-> at, instr |-> instr, enabled |-> TRUE] <=> p.pc = at /\ p.instr = instr
        BY <3>3, <3>5
      <4>3. <<at, instr>> \in wanted[n] <=> p.pc = at /\ p.instr = instr
        BY <4>1
      <4> QED BY <3>1, <4>2, <4>3
    <3> QED BY <3>3, <3>4, <3>5
  <2> QED BY <2>1, <2>2 DEF Units!Hits
<1>3. ASSUME NEW at \in Pcs, NEW target \in Units!Predicted(at) PROVE <<at, target>> \in recorded
  <2>1. PICK n \in Units!First(btb, LAMBDA e : e.pc = at) : target = btb[n].target
    BY <1>3 DEF Units!Predicted
  <2>2. n \in DOMAIN btb /\ btb[n].pc = at
    BY <2>1 DEF Units!First
  <2> QED BY <2>1, <2>2 DEF UnitsInv, TargetsInv
<1>4. requests = irq.pending
  BY DEF UnitsInv, IrqInv
<1> QED BY <1>1, <1>2, <1>3, <1>4 DEF Units!NothingForgotten

(* For every size of the buffer, the caches and the list of breakpoints,     *)
(* every table and all interrupt lines: a cached translation is what a walk   *)
(* finds now and no page is cached twice, whatever was evicted and flushed;   *)
(* no request and no breakpoint is lost or invented, and a predicted target   *)
(* is one the branch has had.                                                *)
THEOREM TablesKeepTheirWord == Units!Spec => [](Units!TlbCoherent /\ Units!NothingForgotten)
<1>1. Units!Init => UnitsInv
  BY UnitsStart
<1>2. UnitsInv /\ [Units!Next]_(Units!unitVars) => UnitsInv'
  BY UnitsStep
<1>3. UnitsInv => Units!TlbCoherent /\ Units!NothingForgotten
  BY UnitsInvImplies
<1> QED BY <1>1, <1>2, <1>3, PTL DEF Units!Spec
=============================================================================
