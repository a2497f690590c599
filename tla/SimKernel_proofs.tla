--------------------------- MODULE SimKernel_proofs ---------------------------
(***************************************************************************)
(* Proofs about SimKernel, for every limit and every bound of the model:   *)
(* no FUTURE event executes before it is due and, as long as callbacks     *)
(* keep out of the region that is being processed, no event is lost and    *)
(* those of every region execute in the order they were scheduled.  The    *)
(* second half of the module is about that order: an event's rank is the   *)
(* number of events of its region before it in the lists.                  *)
(***************************************************************************)
EXTENDS SimKernel, SequenceTheorems, FiniteSetTheorems, WellFoundedInduction, TLAPS

EventT == [home : AllRegions, due : Nat, ahead : Int]
Queues == [AllRegions -> Seq(EventT)]

(* Nothing outside the FUTURE list is due after t. *)
NoneBeyond(q, t) ==
  \A r \in AllRegions \ {"FUTURE"} : \A i \in 1 .. Len(q[r]) : q[r][i].due <= t

(* The kernel goes by sizes: a list that is said to hold events holds some. *)
SizesHonest(q, n, S) ==
  /\ n["FUTURE"] = Len(q["FUTURE"])
  /\ \A r \in S : n[r] > 0 => Len(q[r]) > 0

KernelInv ==
  /\ queue \in Queues /\ size \in [AllRegions -> Nat] /\ time \in Nat
  /\ NoneBeyond(queue, time) /\ SizesHonest(queue, size, AllRegions)

AccountInv == owed = Total(queue)

LEMMA LiveType == ASSUME NEW q, NEW home PROVE Live(q, home) \in Nat
<1>1. IsFiniteSet(AllRegions)
  <2>1. IsFiniteSet({"ACTIVE"}) /\ IsFiniteSet({"INACTIVE"}) /\ IsFiniteSet({"NBA"})
        /\ IsFiniteSet({"MONITOR"}) /\ IsFiniteSet({"FUTURE"}) /\ IsFiniteSet({"POSTPONED"})
    BY FS_Singleton
  <2>2. IsFiniteSet({"ACTIVE"} \cup {"INACTIVE"}) /\ IsFiniteSet({"NBA"} \cup {"MONITOR"})
        /\ IsFiniteSet({"FUTURE"} \cup {"POSTPONED"})
    BY <2>1, FS_Union
  <2>3. IsFiniteSet(({"ACTIVE"} \cup {"INACTIVE"}) \cup ({"NBA"} \cup {"MONITOR"}))
    BY <2>2, FS_Union
  <2>4. IsFiniteSet((({"ACTIVE"} \cup {"INACTIVE"}) \cup ({"NBA"} \cup {"MONITOR"}))
                      \cup ({"FUTURE"} \cup {"POSTPONED"}))
    BY <2>2, <2>3, FS_Union
  <2>5. AllRegions = (({"ACTIVE"} \cup {"INACTIVE"}) \cup ({"NBA"} \cup {"MONITOR"}))
                      \cup ({"FUTURE"} \cup {"POSTPONED"})
    BY DEF AllRegions
  <2> QED BY <2>4, <2>5
<1>2. IsFiniteSet(1 .. MaxLive)
  BY FS_Interval, KernelAssumption
<1>3. IsFiniteSet(AllRegions \X (1 .. MaxLive))
  BY <1>1, <1>2, FS_Product
<1> QED BY <1>3, FS_Subset, FS_CardinalityType DEF Live

(* When one list changes its length, the total changes with it.            *)
LEMMA SumLemma ==
  ASSUME NEW lq \in [AllRegions -> Int], NEW lp \in [AllRegions -> Int], NEW r \in AllRegions,
         \A s \in AllRegions : s # r => lp[s] = lq[s]
  PROVE  lp["ACTIVE"] + lp["INACTIVE"] + lp["NBA"] + lp["MONITOR"] + lp["FUTURE"] + lp["POSTPONED"]
           = (lq["ACTIVE"] + lq["INACTIVE"] + lq["NBA"] + lq["MONITOR"] + lq["FUTURE"] + lq["POSTPONED"])
               + (lp[r] - lq[r])
<1>1. /\ lq["ACTIVE"] \in Int /\ lp["ACTIVE"] \in Int
      /\ lq["INACTIVE"] \in Int /\ lp["INACTIVE"] \in Int
      /\ lq["NBA"] \in Int /\ lp["NBA"] \in Int
      /\ lq["MONITOR"] \in Int /\ lp["MONITOR"] \in Int
      /\ lq["FUTURE"] \in Int /\ lp["FUTURE"] \in Int
      /\ lq["POSTPONED"] \in Int /\ lp["POSTPONED"] \in Int
  BY DEF AllRegions
<1>2. CASE r = "ACTIVE"
  <2>1. lp["INACTIVE"] = lq["INACTIVE"] /\ lp["NBA"] = lq["NBA"] /\ lp["MONITOR"] = lq["MONITOR"]
        /\ lp["FUTURE"] = lq["FUTURE"] /\ lp["POSTPONED"] = lq["POSTPONED"]
    BY <1>2 DEF AllRegions
  <2> QED BY <1>1, <1>2, <2>1
<1>3. CASE r = "INACTIVE"
  <2>1. lp["ACTIVE"] = lq["ACTIVE"] /\ lp["NBA"] = lq["NBA"] /\ lp["MONITOR"] = lq["MONITOR"]
        /\ lp["FUTURE"] = lq["FUTURE"] /\ lp["POSTPONED"] = lq["POSTPONED"]
    BY <1>3 DEF AllRegions
  <2> QED BY <1>1, <1>3, <2>1
<1>4. CASE r = "NBA"
  <2>1. lp["ACTIVE"] = lq["ACTIVE"] /\ lp["INACTIVE"] = lq["INACTIVE"] /\ lp["MONITOR"] = lq["MONITOR"]
        /\ lp["FUTURE"] = lq["FUTURE"] /\ lp["POSTPONED"] = lq["POSTPONED"]
    BY <1>4 DEF AllRegions
  <2> QED BY <1>1, <1>4, <2>1
<1>5. CASE r = "MONITOR"
  <2>1. lp["ACTIVE"] = lq["ACTIVE"] /\ lp["INACTIVE"] = lq["INACTIVE"] /\ lp["NBA"] = lq["NBA"]
        /\ lp["FUTURE"] = lq["FUTURE"] /\ lp["POSTPONED"] = lq["POSTPONED"]
    BY <1>5 DEF AllRegions
  <2> QED BY <1>1, <1>5, <2>1
<1>6. CASE r = "FUTURE"
  <2>1. lp["ACTIVE"] = lq["ACTIVE"] /\ lp["INACTIVE"] = lq["INACTIVE"] /\ lp["NBA"] = lq["NBA"]
        /\ lp["MONITOR"] = lq["MONITOR"] /\ lp["POSTPONED"] = lq["POSTPONED"]
    BY <1>6 DEF AllRegions
  <2> QED BY <1>1, <1>6, <2>1
<1>7. CASE r = "POSTPONED"
  <2>1. lp["ACTIVE"] = lq["ACTIVE"] /\ lp["INACTIVE"] = lq["INACTIVE"] /\ lp["NBA"] = lq["NBA"]
        /\ lp["MONITOR"] = lq["MONITOR"] /\ lp["FUTURE"] = lq["FUTURE"]
    BY <1>7 DEF AllRegions
  <2> QED BY <1>1, <1>7, <2>1
<1> QED BY <1>2, <1>3, <1>4, <1>5, <1>6, <1>7 DEF AllRegions

LEMMA TotalLemma ==
  ASSUME NEW q, NEW p, NEW r \in AllRegions,
         \A s \in AllRegions : Len(q[s]) \in Int /\ Len(p[s]) \in Int,
         \A s \in AllRegions \ {r} : Len(p[s]) = Len(q[s])
  PROVE  Total(p) = Total(q) + (Len(p[r]) - Len(q[r]))
<1> DEFINE lq == [s \in AllRegions |-> Len(q[s])]
           lp == [s \in AllRegions |-> Len(p[s])]
<1>1. lq \in [AllRegions -> Int] /\ lp \in [AllRegions -> Int]
  OBVIOUS
<1>2. /\ Total(q) = lq["ACTIVE"] + lq["INACTIVE"] + lq["NBA"] + lq["MONITOR"] + lq["FUTURE"] + lq["POSTPONED"]
      /\ Total(p) = lp["ACTIVE"] + lp["INACTIVE"] + lp["NBA"] + lp["MONITOR"] + lp["FUTURE"] + lp["POSTPONED"]
  BY DEF Total, AllRegions
<1>3. \A s \in AllRegions : s # r => lp[s] = lq[s]
  OBVIOUS
<1>4. lq[r] = Len(q[r]) /\ lp[r] = Len(p[r])
  OBVIOUS
<1> HIDE DEF lq, lp
<1>5. lp["ACTIVE"] + lp["INACTIVE"] + lp["NBA"] + lp["MONITOR"] + lp["FUTURE"] + lp["POSTPONED"]
        = (lq["ACTIVE"] + lq["INACTIVE"] + lq["NBA"] + lq["MONITOR"] + lq["FUTURE"] + lq["POSTPONED"])
            + (lp[r] - lq[r])
  BY <1>1, <1>3, SumLemma
<1> QED BY <1>2, <1>4, <1>5, Zenon

LEMMA CallsLemma ==
  ASSUME NEW c \in Calls
  PROVE  c.region \in AllRegions /\ c # NoCall /\ c.delay \in Nat
<1>1. Regions \subseteq AllRegions /\ Delays \subseteq Nat
  BY KernelAssumption
<1>2. c.region \in AllRegions /\ c.delay \in Nat
  <2>1. CASE c \in [region : Regions \ {"FUTURE"}, delay : {0}]
    BY <1>1, <2>1
  <2>2. CASE c \in [region : Regions \cap {"FUTURE"}, delay : Delays]
    BY <1>1, <2>2
  <2> QED BY <2>1, <2>2 DEF Calls
<1>3. NoCall.region \notin AllRegions
  BY DEF NoCall, AllRegions
<1> QED BY <1>2, <1>3

(* Scheduling one event adds one event, which is not due before now.       *)
LEMMA LinkedLemma ==
  ASSUME NEW q \in Queues, NEW n \in [AllRegions -> Nat], time \in Nat,
         NEW c \in Calls, NEW S \in SUBSET AllRegions,
         NoneBeyond(q, time), SizesHonest(q, n, S)
  PROVE  /\ Linked(q, c) \in Queues /\ Counted(n, c) \in [AllRegions -> Nat]
         /\ NoneBeyond(Linked(q, c), time) /\ SizesHonest(Linked(q, c), Counted(n, c), S)
         /\ Total(Linked(q, c)) = Total(q) + 1
         /\ \A r \in AllRegions \ {c.region} : Linked(q, c)[r] = q[r]
<1> DEFINE e == Event(q, c)
<1>1. c.region \in AllRegions /\ c # NoCall /\ c.delay \in Nat
  BY CallsLemma
<1>2. e \in EventT /\ (c.region # "FUTURE" => e.due = 0)
  BY <1>1, LiveType DEF Event, EventT
<1> HIDE DEF e
<1>3. Linked(q, c) = [q EXCEPT ![c.region] = Append(@, e)]
  BY <1>1 DEF Linked, e
<1>4. Counted(n, c) = [n EXCEPT ![c.region] = @ + 1]
  BY <1>1 DEF Counted
<1>5. q[c.region] \in Seq(EventT)
  BY <1>1 DEF Queues
<1>6. /\ Append(q[c.region], e) \in Seq(EventT)
      /\ Len(Append(q[c.region], e)) = Len(q[c.region]) + 1
      /\ \A i \in 1 .. Len(q[c.region]) : Append(q[c.region], e)[i] = q[c.region][i]
      /\ Append(q[c.region], e)[Len(q[c.region]) + 1] = e
  BY <1>2, <1>5
<1>7. Linked(q, c) \in Queues /\ Counted(n, c) \in [AllRegions -> Nat]
  BY <1>1, <1>3, <1>4, <1>6 DEF Queues
<1>8. NoneBeyond(Linked(q, c), time)
  <2> SUFFICES ASSUME NEW r \in AllRegions \ {"FUTURE"}, NEW i \in 1 .. Len(Linked(q, c)[r])
               PROVE Linked(q, c)[r][i].due <= time
    BY DEF NoneBeyond
  <2>1. CASE r # c.region
    BY <2>1, <1>3 DEF NoneBeyond, Queues
  <2>2. CASE r = c.region
    <3>1. Linked(q, c)[r] = Append(q[r], e) /\ Len(q[r]) \in Nat
      BY <2>2, <1>3, <1>5, LenProperties DEF Queues
    <3>2. CASE i = Len(q[r]) + 1
      BY <3>1, <3>2, <2>2, <1>2, <1>6
    <3>3. CASE i \in 1 .. Len(q[r])
      BY <3>1, <3>3, <2>2, <1>6 DEF NoneBeyond
    <3> QED BY <3>1, <3>2, <3>3, <2>2, <1>6
  <2> QED BY <2>1, <2>2
<1>9. /\ Len(Linked(q, c)[c.region]) = Len(q[c.region]) + 1
      /\ \A r \in AllRegions \ {c.region} : Linked(q, c)[r] = q[r]
  BY <1>1, <1>3, <1>6 DEF Queues
<1>10. \A r \in AllRegions : Len(q[r]) \in Nat
  BY LenProperties DEF Queues
<1>11. SizesHonest(Linked(q, c), Counted(n, c), S)
  <2>1. "FUTURE" \in AllRegions
    BY DEF AllRegions
  <2>2. Counted(n, c)["FUTURE"] = Len(Linked(q, c)["FUTURE"])
    <3>1. CASE c.region = "FUTURE"
      BY <2>1, <3>1, <1>1, <1>4, <1>9 DEF SizesHonest
    <3>2. CASE c.region # "FUTURE"
      BY <2>1, <3>2, <1>1, <1>4, <1>9 DEF SizesHonest
    <3> QED BY <3>1, <3>2
  <2>3. ASSUME NEW r \in S, Counted(n, c)[r] > 0 PROVE Len(Linked(q, c)[r]) > 0
    <3>1. CASE r = c.region
      BY <3>1, <1>9, <1>10
    <3>2. CASE r # c.region
      BY <2>3, <3>2, <1>4, <1>9 DEF SizesHonest
    <3> QED BY <3>1, <3>2
  <2> QED BY <2>2, <2>3 DEF SizesHonest
<1>12. Total(Linked(q, c)) = Total(q) + 1
  <2>1. /\ \A r \in AllRegions : Len(q[r]) \in Int /\ Len(Linked(q, c)[r]) \in Int
        /\ \A r \in AllRegions \ {c.region} : Len(Linked(q, c)[r]) = Len(q[r])
    BY <1>9, <1>10
  <2>2. Total(Linked(q, c)) = Total(q) + (Len(Linked(q, c)[c.region]) - Len(q[c.region]))
    BY <1>1, <2>1, TotalLemma
  <2>3. Total(q) \in Int
    BY <1>10 DEF Total, AllRegions
  <2> QED BY <1>1, <1>9, <1>10, <2>2, <2>3
<1> QED BY <1>7, <1>8, <1>9, <1>11, <1>12

(* Taking the first event off a list takes nothing else.                   *)
LEMMA WithoutLemma ==
  ASSUME NEW q \in Queues, NEW r \in AllRegions \ {"FUTURE"}, Len(q[r]) > 0,
         NEW t \in Nat, NoneBeyond(q, t)
  PROVE  /\ Without(q, r) \in Queues /\ NoneBeyond(Without(q, r), t)
         /\ Len(Without(q, r)[r]) = Len(q[r]) - 1
         /\ \A s \in AllRegions \ {r} : Len(Without(q, r)[s]) = Len(q[s])
         /\ Total(Without(q, r)) = Total(q) - 1
<1> DEFINE W == Without(q, r)
           rest == [q EXCEPT ![r] = Tail(@)]
           closer(e) == IF e.home = Head(q[r]).home THEN [e EXCEPT !.ahead = @ - 1] ELSE e
<1>1. W = [s \in AllRegions |-> [i \in DOMAIN rest[s] |-> closer(rest[s][i])]]
  BY DEF Without
<1>2. \A s \in AllRegions : q[s] \in Seq(EventT) /\ Len(q[s]) \in Nat
  BY LenProperties DEF Queues
<1>3. \A e \in EventT : closer(e) \in EventT /\ closer(e).due = e.due
  BY DEF EventT
<1>4. /\ Tail(q[r]) \in Seq(EventT) /\ Len(Tail(q[r])) = Len(q[r]) - 1
      /\ \A i \in 1 .. Len(Tail(q[r])) : Tail(q[r])[i] = q[r][i + 1]
  BY <1>2, HeadTailProperties
<1>5. \A s \in AllRegions : rest[s] = IF s = r THEN Tail(q[r]) ELSE q[s]
  BY DEF Queues
<1>6. \A s \in AllRegions : rest[s] \in Seq(EventT) /\ Len(rest[s]) \in Nat
  BY <1>2, <1>4, <1>5
<1> HIDE DEF rest, closer
<1>7. NoneBeyond(rest, t)
  <2> SUFFICES ASSUME NEW s \in AllRegions \ {"FUTURE"}, NEW i \in 1 .. Len(rest[s])
               PROVE rest[s][i].due <= t
    BY DEF NoneBeyond
  <2>1. CASE s = r
    <3>1. rest[s] = Tail(q[r])
      BY <2>1, <1>5
    <3>2. i \in 1 .. Len(Tail(q[r])) /\ rest[s][i] = Tail(q[r])[i]
      BY <3>1
    <3>3. i + 1 \in 1 .. Len(q[r]) /\ rest[s][i] = q[r][i + 1]
      BY <3>2, <1>2, <1>4
    <3>4. \A k \in 1 .. Len(q[r]) : q[r][k].due <= t
      BY DEF NoneBeyond
    <3> QED BY <3>3, <3>4
  <2>2. CASE s # r
    BY <2>2, <1>5 DEF NoneBeyond
  <2> QED BY <2>1, <2>2
<1>8. ASSUME NEW s \in AllRegions
      PROVE W[s] \in Seq(EventT) /\ Len(W[s]) = Len(rest[s])
            /\ \A i \in 1 .. Len(rest[s]) : W[s][i].due = rest[s][i].due
  <2>1. W[s] = [i \in 1 .. Len(rest[s]) |-> closer(rest[s][i])]
    BY <1>1, <1>6, LenProperties
  <2>2. \A i \in 1 .. Len(rest[s]) : rest[s][i] \in EventT
    BY <1>6, ElementOfSeq
  <2>3. W[s] \in [1 .. Len(rest[s]) -> EventT]
    BY <2>1, <2>2, <1>3
  <2>4. W[s] \in Seq(EventT) /\ Len(W[s]) = Len(rest[s])
    <3>1. PICK n \in Nat : n = Len(rest[s])
      BY <1>6
    <3>2. W[s] \in [1 .. n -> EventT]
      BY <2>3, <3>1
    <3>3. W[s] \in Seq(EventT)
      BY <3>2
    <3>4. Len(W[s]) = n
      BY <3>2
    <3> QED BY <3>1, <3>3, <3>4
  <2> QED BY <2>1, <2>2, <2>4, <1>3
<1> HIDE DEF W
<1>9. W \in Queues
  <2>1. W = [s \in AllRegions |-> W[s]]
    BY <1>1
  <2> QED BY <2>1, <1>8 DEF Queues
<1>10. NoneBeyond(W, t)
  BY <1>7, <1>8 DEF NoneBeyond
<1>11. Len(W[r]) = Len(q[r]) - 1
  BY <1>4, <1>5, <1>8
<1>12. \A s \in AllRegions \ {r} : Len(W[s]) = Len(q[s])
  BY <1>5, <1>8
<1>13. Total(W) = Total(q) - 1
  <2>1. \A s \in AllRegions : Len(q[s]) \in Int /\ Len(W[s]) \in Int
    BY <1>2, <1>6, <1>8
  <2>2. Total(W) = Total(q) + (Len(W[r]) - Len(q[r]))
    BY <2>1, <1>12, TotalLemma
  <2>3. Total(q) \in Int
    BY <1>2 DEF Total, AllRegions
  <2> QED BY <1>2, <1>11, <2>2, <2>3
<1> QED BY <1>9, <1>10, <1>11, <1>12, <1>13 DEF W

LEMMA LeastElement ==
  ASSUME NEW T \in SUBSET Nat, T # {}
  PROVE  \E m \in T : \A k \in T : m <= k
<1> DEFINE R == {ss \in Nat \X Nat : ss[1] < ss[2]}
<1>1. IsWellFoundedOn(R, Nat)
  BY NatLessThanWellFounded DEF OpToRel
<1> HIDE DEF R
<1>2. PICK m \in T : \A k \in T : ~ (<<k, m>> \in R)
  BY <1>1, WFMin
<1>3. ASSUME NEW k \in T PROVE m <= k
  <2>1. ~ (<<k, m>> \in R)
    BY <1>2
  <2>2. k \in Nat /\ m \in Nat
    OBVIOUS
  <2> QED BY <2>1, <2>2 DEF R
<1> QED BY <1>3

(* There is a longest run of due events at the head of the FUTURE list.    *)
LEMMA DueLemma ==
  ASSUME queue \in Queues, time \in Nat
  PROVE  /\ Due \in 0 .. Len(queue["FUTURE"])
         /\ \A i \in 1 .. Due : queue["FUTURE"][i].due <= time
         /\ Due < Len(queue["FUTURE"]) => queue["FUTURE"][Due + 1].due > time
<1> DEFINE f == queue["FUTURE"]
           Cut(n) == /\ \A i \in 1 .. n : f[i].due <= time
                     /\ n < Len(f) => f[n + 1].due > time
           late == {i \in 1 .. Len(f) : f[i].due > time}
<1>1. f \in Seq(EventT)
  BY DEF Queues, AllRegions
<1>2. Len(f) \in Nat /\ \A i \in 1 .. Len(f) : f[i] \in EventT
  BY <1>1, LenProperties, ElementOfSeq
<1>3. \A i \in 1 .. Len(f) : f[i].due \in Nat
  BY <1>2 DEF EventT
<1>4. \E n \in 0 .. Len(f) : Cut(n)
  <2>1. CASE late = {}
    <3>1. Cut(Len(f))
      BY <2>1, <1>2, <1>3
    <3> QED BY <3>1, <1>2
  <2>2. CASE late # {}
    <3>1. late \in SUBSET Nat
      BY <1>2
    <3>2. \A k \in 1 .. Len(f) : (k \in late) <=> (f[k].due > time)
      OBVIOUS
    <3>3. late \subseteq 1 .. Len(f)
      OBVIOUS
    <3> HIDE DEF late
    <3>4. PICK m \in late : \A k \in late : m <= k
      BY <2>2, <3>1, LeastElement
    <3>5. m \in 1 .. Len(f)
      BY <3>3, <3>4
    <3>6. f[m].due > time
      BY <3>2, <3>4, <3>5
    <3>7. \A k \in 1 .. Len(f) : k < m => f[k].due <= time
      BY <3>2, <3>4, <3>5, <1>3
    <3>8. m - 1 \in 0 .. Len(f) /\ Cut(m - 1)
      BY <3>5, <3>6, <3>7, <1>2
    <3> QED BY <3>8
  <2> QED BY <2>1, <2>2
<1>5. Due = CHOOSE n \in 0 .. Len(f) : Cut(n)
  BY DEF Due
<1> QED BY <1>4, <1>5
(* What one turn of the loop in hv_sim_run does to the lists: due events   *)
(* change from one list to the other.                                      *)
LEMMA StepLemma ==
  ASSUME KernelInv, Step
  PROVE  /\ queue' \in Queues /\ size' \in [AllRegions -> Nat]
         /\ NoneBeyond(queue', time) /\ SizesHonest(queue', size', AllRegions)
         /\ Total(queue') = Total(queue)
<1> DEFINE f == queue["FUTURE"]
           a == queue["ACTIVE"]
           late == SubSeq(f, Due + 1, Len(f))
           soon == SubSeq(f, 1, Due)
           mid == [queue EXCEPT !["FUTURE"] = late]
<1>1. /\ queue \in Queues /\ time \in Nat /\ size \in [AllRegions -> Nat]
      /\ NoneBeyond(queue, time) /\ SizesHonest(queue, size, AllRegions)
  BY DEF KernelInv
<1>2. Due \in 0 .. Len(f) /\ \A i \in 1 .. Due : f[i].due <= time
  BY <1>1, DueLemma
<1>3. f \in Seq(EventT) /\ a \in Seq(EventT) /\ Len(f) \in Nat /\ Len(a) \in Nat
  BY <1>1, LenProperties DEF Queues, AllRegions
<1>4. "FUTURE" \in AllRegions /\ "ACTIVE" \in AllRegions /\ "FUTURE" # "ACTIVE"
  BY DEF AllRegions
<1>5. /\ queue' = [queue EXCEPT !["FUTURE"] = late, !["ACTIVE"] = a \o soon]
      /\ size' = [size EXCEPT !["FUTURE"] = @ - Due, !["ACTIVE"] = @ + Due]
  BY <1>1, <1>4 DEF Step, Queues
<1>6. late \in Seq(EventT) /\ Len(late) = Len(f) - Due
  BY <1>2, <1>3, SubSeqProperties
<1>7. /\ soon \in Seq(EventT) /\ Len(soon) = Due
      /\ \A i \in 1 .. Due : soon[i] = f[i]
  BY <1>2, <1>3, SubSeqProperties
<1> HIDE DEF late, soon
<1>8. /\ a \o soon \in Seq(EventT) /\ Len(a \o soon) = Len(a) + Due
      /\ \A i \in 1 .. Len(a) : (a \o soon)[i] = a[i]
      /\ \A i \in 1 .. Due : (a \o soon)[Len(a) + i] = soon[i]
  <2>1. /\ a \o soon \in Seq(EventT) /\ Len(a \o soon) = Len(a) + Len(soon)
        /\ \A i \in 1 .. Len(a) + Len(soon) :
             (a \o soon)[i] = IF i <= Len(a) THEN a[i] ELSE soon[i - Len(a)]
    BY <1>3, <1>7, ConcatProperties
  <2>2. \A i \in 1 .. Len(a) : (a \o soon)[i] = a[i]
    BY <2>1, <1>3, <1>7, <1>2
  <2>3. \A i \in 1 .. Due : (a \o soon)[Len(a) + i] = soon[i]
    BY <2>1, <1>3, <1>7, <1>2
  <2> QED BY <2>1, <2>2, <2>3, <1>7
<1>9. queue' \in Queues
  BY <1>1, <1>5, <1>6, <1>8 DEF Queues
<1>10. /\ queue'["FUTURE"] = late /\ queue'["ACTIVE"] = a \o soon
       /\ \A r \in AllRegions \ {"FUTURE", "ACTIVE"} : queue'[r] = queue[r]
  BY <1>1, <1>4, <1>5 DEF Queues
<1>11. /\ size["FUTURE"] = Len(f) /\ size["FUTURE"] \in Nat /\ size["ACTIVE"] \in Nat
       /\ \A r \in AllRegions : size[r] > 0 => Len(queue[r]) > 0
  BY <1>1, <1>4 DEF SizesHonest
<1>12. /\ size'["FUTURE"] = size["FUTURE"] - Due /\ size'["ACTIVE"] = size["ACTIVE"] + Due
       /\ \A r \in AllRegions \ {"FUTURE", "ACTIVE"} : size'[r] = size[r]
  BY <1>1, <1>4, <1>5
<1>13. size' \in [AllRegions -> Nat]
  <2>1. size["FUTURE"] - Due \in Nat /\ size["ACTIVE"] + Due \in Nat
    BY <1>2, <1>3, <1>11
  <2> QED BY <1>1, <1>4, <1>5, <2>1
<1>14. NoneBeyond(queue', time)
  <2> SUFFICES ASSUME NEW r \in AllRegions \ {"FUTURE"}, NEW i \in 1 .. Len(queue'[r])
               PROVE queue'[r][i].due <= time
    BY DEF NoneBeyond
  <2>1. CASE r # "ACTIVE"
    BY <2>1, <1>1, <1>10 DEF NoneBeyond
  <2>2. CASE r = "ACTIVE"
    <3>1. queue'[r] = a \o soon /\ i \in 1 .. Len(a) + Due
      BY <2>2, <1>8, <1>10
    <3>2. \A k \in 1 .. Len(a) : a[k].due <= time
      BY <1>1, <1>4 DEF NoneBeyond
    <3>3. CASE i \in 1 .. Len(a)
      BY <3>1, <3>2, <3>3, <1>8
    <3>4. CASE i \notin 1 .. Len(a)
      <4> DEFINE k == i - Len(a)
      <4>1. k \in 1 .. Due /\ i = Len(a) + k
        BY <3>1, <3>4, <1>2, <1>3
      <4> HIDE DEF k
      <4>2. (a \o soon)[i] = soon[k]
        BY <4>1, <1>8
      <4>3. soon[k] = f[k] /\ f[k].due <= time
        BY <4>1, <1>2, <1>7
      <4> QED BY <3>1, <4>2, <4>3
    <3> QED BY <3>3, <3>4
  <2> QED BY <2>1, <2>2
<1>15. SizesHonest(queue', size', AllRegions)
  <2>1. size'["FUTURE"] = Len(queue'["FUTURE"])
    BY <1>6, <1>10, <1>11, <1>12
  <2>2. ASSUME NEW r \in AllRegions, size'[r] > 0 PROVE Len(queue'[r]) > 0
    <3>1. CASE r = "FUTURE"
      BY <2>1, <2>2, <3>1
    <3>2. CASE r = "ACTIVE"
      <4>1. size["ACTIVE"] + Due > 0
        BY <2>2, <3>2, <1>12
      <4>2. size["ACTIVE"] > 0 => Len(a) > 0
        BY <1>4, <1>11
      <4>3. Len(a) + Due > 0
        BY <4>1, <4>2, <1>2, <1>3, <1>11
      <4> QED BY <4>3, <3>2, <1>8, <1>10
    <3>3. CASE r \notin {"FUTURE", "ACTIVE"}
      BY <2>2, <3>3, <1>10, <1>11, <1>12
    <3> QED BY <3>1, <3>2, <3>3
  <2> QED BY <2>1, <2>2 DEF SizesHonest
<1>16. Total(queue') = Total(queue)
  <2>1. /\ mid["FUTURE"] = late
        /\ \A r \in AllRegions \ {"FUTURE"} : mid[r] = queue[r]
    BY <1>1, <1>4 DEF Queues
  <2> HIDE DEF mid
  <2>2. \A r \in AllRegions : Len(queue[r]) \in Int
    BY <1>1, LenProperties DEF Queues
  <2>3. \A r \in AllRegions : Len(queue'[r]) \in Int
    BY <1>9, LenProperties DEF Queues
  <2>4. \A r \in AllRegions : Len(mid[r]) \in Int
    BY <2>1, <2>2, <1>2, <1>3, <1>6
  <2>5. Total(mid) = Total(queue) + (Len(mid["FUTURE"]) - Len(queue["FUTURE"]))
    BY <2>1, <2>2, <2>4, <1>4, TotalLemma
  <2>6. \A r \in AllRegions \ {"ACTIVE"} : Len(queue'[r]) = Len(mid[r])
    BY <2>1, <1>10
  <2>7. Total(queue') = Total(mid) + (Len(queue'["ACTIVE"]) - Len(mid["ACTIVE"]))
    BY <2>3, <2>4, <2>6, <1>4, TotalLemma
  <2>8. Len(mid["FUTURE"]) = Len(f) - Due /\ Len(queue'["ACTIVE"]) = Len(mid["ACTIVE"]) + Due
        /\ Len(mid["ACTIVE"]) = Len(a)
    BY <2>1, <1>4, <1>6, <1>8, <1>10
  <2>9. Total(queue) \in Int
    BY <2>2 DEF Total, AllRegions
  <2> QED BY <2>5, <2>7, <2>8, <2>9, <1>2, <1>3
<1> QED BY <1>9, <1>13, <1>14, <1>15, <1>16
(* What a callback leaves behind, whether it schedules an event or not.    *)
LEMMA AfterLemma ==
  ASSUME KernelInv, NEW r \in Passes, size[r] > 0, NEW c \in Calls \cup {NoCall}
  PROVE  LET q == Linked(Without(queue, r), c)
             n == Counted(size, c)
         IN /\ q \in Queues /\ n \in [AllRegions -> Nat]
            /\ NoneBeyond(q, time) /\ SizesHonest(q, n, AllRegions \ {r})
            /\ Total(q) = IF c = NoCall THEN Total(queue) - 1 ELSE Total(queue)
            /\ Len(q[r]) >= Len(queue[r]) - 1
            /\ c.region # r => Len(q[r]) = Len(queue[r]) - 1
<1> DEFINE W == Without(queue, r)
<1>1. /\ queue \in Queues /\ time \in Nat /\ size \in [AllRegions -> Nat]
      /\ NoneBeyond(queue, time) /\ SizesHonest(queue, size, AllRegions)
  BY DEF KernelInv
<1>2. r \in AllRegions \ {"FUTURE"} /\ "FUTURE" \in AllRegions
  BY DEF Passes, AllRegions
<1>3. Len(queue[r]) > 0
  BY <1>1, <1>2 DEF SizesHonest
<1>4. /\ W \in Queues /\ NoneBeyond(W, time)
      /\ Len(W[r]) = Len(queue[r]) - 1
      /\ \A s \in AllRegions \ {r} : Len(W[s]) = Len(queue[s])
      /\ Total(W) = Total(queue) - 1
  BY <1>1, <1>2, <1>3, WithoutLemma
<1> HIDE DEF W
<1>5. SizesHonest(W, size, AllRegions \ {r})
  BY <1>1, <1>2, <1>4 DEF SizesHonest
<1>6. Len(queue[r]) \in Nat /\ Total(queue) \in Int
  BY <1>1, <1>2, LenProperties DEF Queues, Total, AllRegions
<1>7. CASE c = NoCall
  <2>1. Linked(W, c) = W /\ Counted(size, c) = size
    BY <1>7 DEF Linked, Counted
  <2> QED BY <2>1, <1>1, <1>4, <1>5, <1>6, <1>7 DEF W
<1>8. CASE c \in Calls
  <2>1. AllRegions \ {r} \in SUBSET AllRegions
    OBVIOUS
  <2>2. /\ Linked(W, c) \in Queues /\ Counted(size, c) \in [AllRegions -> Nat]
        /\ NoneBeyond(Linked(W, c), time)
        /\ SizesHonest(Linked(W, c), Counted(size, c), AllRegions \ {r})
        /\ Total(Linked(W, c)) = Total(W) + 1
        /\ \A s \in AllRegions \ {c.region} : Linked(W, c)[s] = W[s]
    BY <1>1, <1>4, <1>5, <1>8, <2>1, LinkedLemma
  <2>3. c # NoCall /\ c.region \in AllRegions
    BY <1>8, CallsLemma
  <2>4. Total(Linked(W, c)) = Total(queue)
    BY <2>2, <1>4, <1>6
  <2>5. c.region # r => Len(Linked(W, c)[r]) = Len(queue[r]) - 1
    BY <2>2, <1>2, <1>4
  <2>6. Len(Linked(W, c)[r]) >= Len(queue[r]) - 1
    <3>1. CASE c.region # r
      BY <2>5, <3>1, <1>6
    <3>2. CASE c.region = r
      <4>1. Linked(W, c)[r] = Append(W[r], Event(W, c))
        BY <2>3, <3>2, <1>2, <1>4 DEF Linked, Queues
      <4>2. Event(W, c) \in EventT
        BY <2>3, <1>1, <1>8, CallsLemma, LiveType DEF Event, EventT
      <4>3. W[r] \in Seq(EventT)
        BY <1>2, <1>4 DEF Queues
      <4>4. Len(Append(W[r], Event(W, c))) = Len(W[r]) + 1
        BY <4>2, <4>3
      <4> QED BY <4>1, <4>4, <1>4, <1>6
    <3> QED BY <3>1, <3>2
  <2> QED BY <2>2, <2>3, <2>4, <2>5, <2>6 DEF W
<1> QED BY <1>7, <1>8

LEMMA ExecuteLemma ==
  ASSUME KernelInv, NEW r \in Passes, Execute(r)
  PROVE  KernelInv' /\ (~ OwnRegion /\ AccountInv => AccountInv')
<1>1. PICK c \in Reentrant(r) :
        LET q == Linked(Without(queue, r), c)
            n == Counted(size, c)
        IN /\ owed' = IF c = NoCall THEN owed - 1 ELSE owed
           /\ IF Tail(queue[r]) = <<>>
              THEN /\ queue' = [q EXCEPT ![r] = <<>>] /\ size' = [n EXCEPT ![r] = 0]
                   /\ again' = (again \/ r \in {"ACTIVE", "INACTIVE"})
                   /\ pc' = Passed[r]
              ELSE queue' = q /\ size' = n /\ UNCHANGED <<again, pc>>
  BY DEF Execute
<1> DEFINE q == Linked(Without(queue, r), c)
           n == Counted(size, c)
<1>2. size[r] > 0 /\ time' = time
  BY DEF Execute
<1>3. c \in Calls \cup {NoCall} /\ (~ OwnRegion => c.region # r)
  <2>1. NoCall.region # r
    BY DEF NoCall, Passes
  <2> QED BY <2>1 DEF Reentrant
<1>4. /\ q \in Queues /\ n \in [AllRegions -> Nat]
      /\ NoneBeyond(q, time) /\ SizesHonest(q, n, AllRegions \ {r})
      /\ Total(q) = IF c = NoCall THEN Total(queue) - 1 ELSE Total(queue)
      /\ Len(q[r]) >= Len(queue[r]) - 1
      /\ c.region # r => Len(q[r]) = Len(queue[r]) - 1
  BY <1>2, <1>3, AfterLemma
<1>5. /\ owed' = IF c = NoCall THEN owed - 1 ELSE owed
      /\ Tail(queue[r]) = <<>> => /\ queue' = [q EXCEPT ![r] = <<>>]
                                  /\ size' = [n EXCEPT ![r] = 0]
      /\ Tail(queue[r]) # <<>> => queue' = q /\ size' = n
  BY <1>1
<1> HIDE DEF q, n
<1>6. r \in AllRegions /\ r # "FUTURE" /\ "FUTURE" \in AllRegions
  BY DEF Passes, AllRegions
<1>7. queue[r] \in Seq(EventT) /\ Len(queue[r]) > 0 /\ time \in Nat
  BY <1>2, <1>6 DEF KernelInv, Queues, SizesHonest
<1>8. Len(Tail(queue[r])) = Len(queue[r]) - 1 /\ Tail(queue[r]) \in Seq(EventT)
      /\ Len(queue[r]) \in Nat
  BY <1>7, HeadTailProperties, LenProperties
<1>9. \A s \in AllRegions : Len(q[s]) \in Nat
  BY <1>4, LenProperties DEF Queues
<1> DEFINE tail == Tail(queue[r])
           l == Len(queue[r])
<1>10. Len(tail) = l - 1 /\ tail \in Seq(EventT) /\ l \in Nat
  BY <1>8
<1>11. (tail # <<>> => Len(tail) \in Nat \ {0}) /\ (tail = <<>> => Len(tail) = 0)
  BY <1>10, EmptySeq, Zenon
<1>12. (tail # <<>> => l > 1) /\ (tail = <<>> => l = 1)
  <2> HIDE DEF tail, l
  <2> QED BY <1>10, <1>11
<1> HIDE DEF tail, l
<1>13. CASE Tail(queue[r]) # <<>>
  <2>1. Len(queue[r]) > 1
    BY <1>13, <1>12 DEF tail, l
  <2>2. Len(q[r]) > 0
    BY <2>1, <1>4, <1>6, <1>8, <1>9
  <2>3. SizesHonest(q, n, AllRegions)
    BY <2>2, <1>4 DEF SizesHonest
  <2>4. queue' = q /\ size' = n
    BY <1>5, <1>13
  <2>5. KernelInv'
    BY <2>3, <2>4, <1>2, <1>4, <1>7 DEF KernelInv
  <2>6. AccountInv => AccountInv'
    BY <2>4, <1>4, <1>5 DEF AccountInv
  <2> QED BY <2>5, <2>6
<1>14. CASE Tail(queue[r]) = <<>>
  <2>1. queue' = [q EXCEPT ![r] = <<>>] /\ size' = [n EXCEPT ![r] = 0]
    BY <1>5, <1>14
  <2>2. queue' \in Queues /\ size' \in [AllRegions -> Nat]
    <3>1. <<>> \in Seq(EventT)
      BY EmptySeq
    <3> QED BY <2>1, <3>1, <1>4 DEF Queues
  <2>3. /\ queue'[r] = <<>> /\ size'[r] = 0
        /\ \A s \in AllRegions \ {r} : queue'[s] = q[s] /\ size'[s] = n[s]
    BY <2>1, <1>4, <1>6 DEF Queues
  <2>4. NoneBeyond(queue', time)
    <3> SUFFICES ASSUME NEW s \in AllRegions \ {"FUTURE"}, NEW i \in 1 .. Len(queue'[s])
                 PROVE queue'[s][i].due <= time
      BY DEF NoneBeyond
    <3>1. CASE s = r
      BY <3>1, <2>3
    <3>2. CASE s # r
      BY <3>2, <2>3, <1>4 DEF NoneBeyond
    <3> QED BY <3>1, <3>2
  <2>5. SizesHonest(queue', size', AllRegions)
    <3>1. size'["FUTURE"] = Len(queue'["FUTURE"])
      BY <2>3, <1>4, <1>6 DEF SizesHonest
    <3>2. ASSUME NEW s \in AllRegions, size'[s] > 0 PROVE Len(queue'[s]) > 0
      <4>1. s # r
        BY <3>2, <2>3
      <4> QED BY <4>1, <3>2, <2>3, <1>4 DEF SizesHonest
    <3> QED BY <3>1, <3>2 DEF SizesHonest
  <2>6. KernelInv'
    BY <2>2, <2>4, <2>5, <1>2, <1>7 DEF KernelInv
  <2>7. ASSUME ~ OwnRegion, AccountInv PROVE AccountInv'
    <3>1. Len(queue[r]) = 1
      BY <1>14, <1>12 DEF tail, l
    <3>2. Len(q[r]) = 0
      BY <3>1, <2>7, <1>3, <1>4
    <3>3. Len(queue'[r]) = 0
      BY <2>3
    <3>4. \A s \in AllRegions : Len(q[s]) \in Int /\ Len(queue'[s]) \in Int
      BY <2>3, <1>9
    <3>5. \A s \in AllRegions \ {r} : Len(queue'[s]) = Len(q[s])
      BY <2>3
    <3>6. Total(queue') = Total(q) + (Len(queue'[r]) - Len(q[r]))
      BY <3>4, <3>5, <1>6, TotalLemma
    <3>7. Total(q) \in Int
      BY <1>9 DEF Total, AllRegions
    <3>8. Total(queue') = Total(q)
      BY <3>2, <3>3, <3>6, <3>7
    <3> QED BY <3>8, <2>7, <1>4, <1>5 DEF AccountInv
  <2> QED BY <2>6, <2>7
<1> QED BY <1>13, <1>14
(* Where the second of two lists of lengths m and n lies in both together.  *)
LEMMA Beyond ==
  ASSUME NEW m \in Nat, NEW n \in Nat
  PROVE  /\ m > 0 => m + n > 0
         /\ \A i \in 1 .. m + n : ~ (i <= m) => i - m \in 1 .. n
OBVIOUS

(* Non-blocking events change from one list to the other, without a size.  *)
LEMMA NonBlockingLemma ==
  ASSUME KernelInv, NonBlocking
  PROVE  KernelInv' /\ Total(queue') = Total(queue)
<1> DEFINE a == queue["ACTIVE"]
           b == queue["NBA"]
           mid == [queue EXCEPT !["NBA"] = <<>>]
<1>1. /\ queue \in Queues /\ time \in Nat /\ size \in [AllRegions -> Nat]
      /\ NoneBeyond(queue, time) /\ SizesHonest(queue, size, AllRegions)
  BY DEF KernelInv
<1>2. "ACTIVE" \in AllRegions /\ "NBA" \in AllRegions /\ "FUTURE" \in AllRegions
  BY DEF AllRegions
<1>3. a \in Seq(EventT) /\ b \in Seq(EventT) /\ <<>> \in Seq(EventT) /\ Len(a) \in Nat /\ Len(b) \in Nat
  BY <1>1, <1>2, EmptySeq, LenProperties DEF Queues
<1>4. /\ a \o b \in Seq(EventT) /\ Len(a \o b) = Len(a) + Len(b)
      /\ \A i \in 1 .. Len(a) + Len(b) : (a \o b)[i] = IF i <= Len(a) THEN a[i] ELSE b[i - Len(a)]
  BY <1>3, ConcatProperties
<1>5. /\ queue' = [queue EXCEPT !["ACTIVE"] = a \o b, !["NBA"] = <<>>]
      /\ size' = [size EXCEPT !["NBA"] = 0] /\ time' = time
  BY DEF NonBlocking, Promote
<1>6. queue' \in Queues /\ size' \in [AllRegions -> Nat]
  BY <1>1, <1>3, <1>4, <1>5 DEF Queues
<1>7. /\ queue'["NBA"] = <<>> /\ queue'["ACTIVE"] = a \o b
      /\ \A r \in AllRegions \ {"NBA", "ACTIVE"} : queue'[r] = queue[r]
      /\ size'["NBA"] = 0 /\ \A r \in AllRegions \ {"NBA"} : size'[r] = size[r]
  BY <1>1, <1>2, <1>5 DEF Queues
<1>8. NoneBeyond(queue', time)
  <2> SUFFICES ASSUME NEW r \in AllRegions \ {"FUTURE"}, NEW i \in 1 .. Len(queue'[r])
               PROVE queue'[r][i].due <= time
    BY DEF NoneBeyond
  <2>1. CASE r \notin {"NBA", "ACTIVE"}
    BY <2>1, <1>1, <1>7 DEF NoneBeyond
  <2>2. CASE r = "NBA"
    BY <2>2, <1>7
  <2>3. CASE r = "ACTIVE"
    <3>1. queue'[r] = a \o b /\ i \in 1 .. Len(a) + Len(b)
      BY <2>3, <1>4, <1>7
    <3>2. /\ \A k \in 1 .. Len(a) : a[k].due <= time
          /\ \A k \in 1 .. Len(b) : b[k].due <= time
      BY <1>1, <1>2 DEF NoneBeyond
    <3>3. CASE i <= Len(a)
      <4>1. (a \o b)[i] = a[i] /\ i \in 1 .. Len(a)
        BY <3>1, <3>3, <1>3, <1>4
      <4> QED BY <4>1, <3>1, <3>2
    <3>4. CASE ~ (i <= Len(a))
      <4> DEFINE k == i - Len(a)
      <4>1. (a \o b)[i] = b[k]
        BY <3>1, <3>4, <1>4
      <4>2. k \in 1 .. Len(b)
        BY <3>1, <3>4, <1>3, Beyond, Zenon
      <4> HIDE DEF k
      <4> QED BY <4>1, <4>2, <3>1, <3>2
    <3> QED BY <3>3, <3>4
  <2> QED BY <2>1, <2>2, <2>3
<1>9. SizesHonest(queue', size', AllRegions)
  <2>1. size'["FUTURE"] = Len(queue'["FUTURE"])
    BY <1>1, <1>2, <1>7 DEF SizesHonest
  <2>2. ASSUME NEW r \in AllRegions, size'[r] > 0 PROVE Len(queue'[r]) > 0
    <3>1. r # "NBA" /\ size[r] > 0
      BY <2>2, <1>7
    <3>2. Len(queue[r]) > 0
      BY <3>1, <1>1 DEF SizesHonest
    <3>3. CASE r = "ACTIVE"
      <4>1. Len(queue'[r]) = Len(a) + Len(b)
        BY <3>3, <1>4, <1>7
      <4>2. Len(a) > 0
        BY <3>2, <3>3
      <4>3. Len(a) + Len(b) > 0
        BY <4>2, <1>3, Beyond, Zenon
      <4> QED BY <4>1, <4>3
    <3>4. CASE r # "ACTIVE"
      BY <3>1, <3>2, <3>4, <1>7
    <3> QED BY <3>3, <3>4
  <2> QED BY <2>1, <2>2 DEF SizesHonest
<1>10. Total(queue') = Total(queue)
  <2>1. mid["NBA"] = <<>> /\ \A r \in AllRegions \ {"NBA"} : mid[r] = queue[r]
    BY <1>1, <1>2 DEF Queues
  <2> HIDE DEF mid
  <2>2. \A r \in AllRegions : Len(queue[r]) \in Int /\ Len(queue'[r]) \in Int
    BY <1>1, <1>6, LenProperties DEF Queues
  <2>3. Len(mid["NBA"]) = 0 /\ \A r \in AllRegions : Len(mid[r]) \in Int
    BY <2>1, <2>2
  <2>4. Total(mid) = Total(queue) + (Len(mid["NBA"]) - Len(queue["NBA"]))
    BY <2>1, <2>2, <2>3, <1>2, TotalLemma
  <2>5. \A r \in AllRegions \ {"ACTIVE"} : Len(queue'[r]) = Len(mid[r])
    BY <2>1, <1>7
  <2>6. Total(queue') = Total(mid) + (Len(queue'["ACTIVE"]) - Len(mid["ACTIVE"]))
    BY <2>2, <2>3, <2>5, <1>2, TotalLemma
  <2>7. Len(queue'["ACTIVE"]) = Len(mid["ACTIVE"]) + Len(b) /\ Len(mid["ACTIVE"]) = Len(a)
    BY <2>1, <1>2, <1>4, <1>7
  <2>8. Total(queue) \in Int
    BY <2>2 DEF Total, AllRegions
  <2> QED BY <2>3, <2>4, <2>6, <2>7, <2>8, <1>3
<1>11. KernelInv'
  BY <1>1, <1>5, <1>6, <1>8, <1>9 DEF KernelInv
<1> QED BY <1>10, <1>11

(* A caller, or the evaluation of the DUT, schedules an event; time may    *)
(* then go on.                                                             *)
LEMMA ScheduleLemma ==
  ASSUME KernelInv, NEW c \in Calls \cup {NoCall},
         queue' = Linked(queue, c), size' = Counted(size, c),
         time' \in Nat, time <= time',
         owed' = IF c = NoCall THEN owed ELSE owed + 1
  PROVE  KernelInv' /\ (AccountInv => AccountInv')
<1>1. /\ queue \in Queues /\ time \in Nat /\ size \in [AllRegions -> Nat]
      /\ NoneBeyond(queue, time) /\ SizesHonest(queue, size, AllRegions)
  BY DEF KernelInv
<1>2. /\ queue' \in Queues /\ size' \in [AllRegions -> Nat]
      /\ NoneBeyond(queue', time) /\ SizesHonest(queue', size', AllRegions)
      /\ AccountInv => AccountInv'
  <2>1. CASE c = NoCall
    BY <2>1, <1>1 DEF Linked, Counted, AccountInv
  <2>2. CASE c \in Calls
    <3>1. AllRegions \in SUBSET AllRegions /\ c # NoCall
      BY <2>2, CallsLemma
    <3>2. /\ Linked(queue, c) \in Queues /\ Counted(size, c) \in [AllRegions -> Nat]
          /\ NoneBeyond(Linked(queue, c), time)
          /\ SizesHonest(Linked(queue, c), Counted(size, c), AllRegions)
          /\ Total(Linked(queue, c)) = Total(queue) + 1
      BY <2>2, <3>1, <1>1, LinkedLemma
    <3> QED BY <3>1, <3>2 DEF AccountInv
  <2> QED BY <2>1, <2>2
<1>3. NoneBeyond(queue', time')
  <2> SUFFICES ASSUME NEW r \in AllRegions \ {"FUTURE"}, NEW i \in 1 .. Len(queue'[r])
               PROVE queue'[r][i].due <= time'
    BY DEF NoneBeyond
  <2>1. queue'[r][i].due <= time
    BY <1>2 DEF NoneBeyond
  <2>2. queue'[r] \in Seq(EventT)
    BY <1>2 DEF Queues
  <2>3. queue'[r][i] \in EventT
    BY <2>2, ElementOfSeq
  <2>4. queue'[r][i].due \in Nat
    BY <2>3 DEF EventT
  <2> QED BY <2>1, <2>4, <1>1
<1> QED BY <1>2, <1>3 DEF KernelInv

LEMMA ResetLemma ==
  ASSUME queue = [r \in AllRegions |-> <<>>], size = [r \in AllRegions |-> 0],
         time = 0, owed = 0
  PROVE  KernelInv /\ AccountInv
<1>1. <<>> \in Seq(EventT) /\ Len(<<>>) = 0
  BY EmptySeq
<1>2. queue \in Queues /\ size \in [AllRegions -> Nat]
  BY <1>1 DEF Queues
<1>3. NoneBeyond(queue, time)
  BY <1>1 DEF NoneBeyond
<1>4. SizesHonest(queue, size, AllRegions)
  BY <1>1 DEF SizesHonest, AllRegions
<1>5. AccountInv
  <2>1. \A r \in AllRegions : Len(queue[r]) = 0
    BY <1>1
  <2> QED BY <2>1 DEF AccountInv, Total, AllRegions
<1> QED BY <1>2, <1>3, <1>4, <1>5 DEF KernelInv
(* Every step of the kernel and of its callers keeps the invariant, and,   *)
(* when callbacks keep out of the region being processed, the account.     *)
LEMMA KernelStep ==
  ASSUME KernelInv, [Next]_vars
  PROVE  KernelInv' /\ (~ OwnRegion /\ AccountInv => AccountInv')
<1>1. CASE Schedule
  <2>1. PICK c \in Room : /\ queue' = Linked(queue, c) /\ size' = Counted(size, c)
                          /\ owed' = owed + 1
    BY <1>1 DEF Schedule
  <2>2. c \in Calls /\ c # NoCall
    BY CallsLemma DEF Room
  <2>3. time' = time /\ time \in Nat
    BY <1>1 DEF Schedule, KernelInv
  <2> QED BY <2>1, <2>2, <2>3, ScheduleLemma
<1>2. CASE Eval
  <2>1. PICK c \in Room \cup {NoCall} :
          /\ queue' = Linked(queue, c) /\ size' = Counted(size, c)
          /\ owed' = IF c = NoCall THEN owed ELSE owed + 1
    BY <1>2 DEF Eval
  <2>2. c \in Calls \cup {NoCall}
    BY DEF Room
  <2>3. time' \in Nat /\ time <= time'
    BY <1>2 DEF Eval, KernelInv
  <2> QED BY <2>1, <2>2, <2>3, ScheduleLemma
<1>3. CASE Reset
  <2>1. /\ queue' = [r \in AllRegions |-> <<>>] /\ size' = [r \in AllRegions |-> 0]
        /\ time' = 0 /\ owed' = 0
    BY <1>3 DEF Reset
  <2>2. KernelInv' /\ AccountInv'
    <3>1. <<>> \in Seq(EventT) /\ Len(<<>>) = 0
      BY EmptySeq
    <3>2. queue' \in Queues /\ size' \in [AllRegions -> Nat]
      BY <2>1, <3>1 DEF Queues
    <3>3. NoneBeyond(queue', time') /\ SizesHonest(queue', size', AllRegions)
      BY <2>1, <3>1 DEF NoneBeyond, SizesHonest, AllRegions
    <3>4. \A r \in AllRegions : Len(queue'[r]) = 0
      BY <2>1, <3>1
    <3>5. AccountInv'
      BY <2>1, <3>4 DEF AccountInv, Total, AllRegions
    <3> QED BY <2>1, <3>2, <3>3, <3>5 DEF KernelInv
  <2> QED BY <2>2
<1>4. CASE Step
  <2>1. /\ queue' \in Queues /\ size' \in [AllRegions -> Nat]
        /\ NoneBeyond(queue', time) /\ SizesHonest(queue', size', AllRegions)
        /\ Total(queue') = Total(queue)
    BY <1>4, StepLemma
  <2>2. time' = time /\ owed' = owed
    BY <1>4 DEF Step
  <2> QED BY <2>1, <2>2 DEF KernelInv, AccountInv
<1>5. CASE NonBlocking
  <2>1. KernelInv' /\ Total(queue') = Total(queue)
    BY <1>5, NonBlockingLemma
  <2>2. owed' = owed
    BY <1>5 DEF NonBlocking
  <2> QED BY <2>1, <2>2 DEF AccountInv
<1>6. CASE \E r \in Passes : Execute(r)
  BY <1>6, ExecuteLemma
<1>7. ASSUME UNCHANGED <<queue, size, time, owed>>
      PROVE  KernelInv' /\ (~ OwnRegion /\ AccountInv => AccountInv')
  BY <1>7 DEF KernelInv, AccountInv
<1>8. CASE Run \/ ProcessDelta \/ Finish \/ Skip("NBA") \/ (\E r \in Passes : Skip(r)) \/ UNCHANGED vars
  <2>1. UNCHANGED <<queue, size, time, owed>>
    BY <1>8 DEF Run, ProcessDelta, Finish, Skip, vars
  <2> QED BY <2>1, <1>7
<1> QED BY <1>1, <1>2, <1>3, <1>4, <1>5, <1>6, <1>8 DEF Next, Kernel

(* The lists hold events, the sizes the kernel goes by are honest, and     *)
(* nothing outside the FUTURE list is due later than now.                  *)
THEOREM KernelInvariant == Spec => []KernelInv
<1>1. Init => KernelInv
  BY ResetLemma DEF Init
<1>2. KernelInv /\ [Next]_vars => KernelInv'
  BY KernelStep
<1> QED BY <1>1, <1>2, PTL DEF Spec

(* No FUTURE event reaches the ACTIVE list, from which it is executed,     *)
(* before it is due (hv_sim_run, the FUTURE loop).                         *)
THEOREM FutureNotEarly == Spec => []NotEarly
<1>1. KernelInv => NotEarly
  <2> SUFFICES ASSUME KernelInv, NEW i \in DOMAIN queue["ACTIVE"]
               PROVE queue["ACTIVE"][i].due <= time
    BY DEF NotEarly
  <2>1. "ACTIVE" \in AllRegions \ {"FUTURE"}
    BY DEF AllRegions
  <2>2. DOMAIN queue["ACTIVE"] = 1 .. Len(queue["ACTIVE"])
    BY <2>1, LenProperties DEF KernelInv, Queues
  <2> QED BY <2>1, <2>2 DEF KernelInv, NoneBeyond
<1> QED BY <1>1, KernelInvariant, PTL

(* While lists are walked, cleared, split and joined no event is lost or   *)
(* executed twice, as long as no callback schedules into the very region   *)
(* whose events are being executed (sim_process_region).                   *)
THEOREM NoEventLost == ~ OwnRegion => (Spec => []NothingLost)
<1> SUFFICES ASSUME ~ OwnRegion PROVE Spec => []NothingLost
  OBVIOUS
<1>1. Init => AccountInv
  BY ResetLemma DEF Init
<1>2. KernelInv /\ AccountInv /\ [Next]_vars => AccountInv'
  BY KernelStep
<1>3. AccountInv => NothingLost
  BY DEF AccountInv, NothingLost
<1> QED BY <1>1, <1>2, <1>3, KernelInvariant, PTL DEF Spec
-----------------------------------------------------------------------------
(* How many of the first n events of a list have a home in H.              *)
NumIn(s, H, n) == Cardinality({i \in 1 .. n : s[i].home \in H})
One(e, H) == IF e.home \in H THEN 1 ELSE 0

(* What holds of 0 and goes on from n to n + 1 holds of every number.       *)
LEMMA Climb ==
  ASSUME NEW T \in SUBSET Nat, 0 \in T, \A n \in T : n + 1 \in T
  PROVE  \A n \in Nat : n \in T
<1> SUFFICES ASSUME Nat \ T # {} PROVE FALSE
  OBVIOUS
<1>1. PICK m \in Nat \ T : \A k \in Nat \ T : m <= k
  BY LeastElement
<1>2. m # 0 /\ m - 1 \in Nat
  BY <1>1
<1>3. m - 1 \in T
  BY <1>1, <1>2
<1>4. (m - 1) + 1 \in T
  BY <1>3
<1> QED BY <1>1, <1>4

LEMMA NumType ==
  ASSUME NEW s, NEW H, NEW n \in Nat
  PROVE  /\ NumIn(s, H, n) \in Nat /\ NumIn(s, H, 0) = 0
         /\ NumIn(s, H, n + 1) = NumIn(s, H, n) + One(s[n + 1], H)
<1> DEFINE I == {i \in 1 .. n : s[i].home \in H}
           J == {i \in 1 .. n + 1 : s[i].home \in H}
<1>1. IsFiniteSet(1 .. n)
  BY FS_Interval
<1>2. IsFiniteSet(I) /\ Cardinality(I) \in Nat
  BY <1>1, FS_Subset, FS_CardinalityType
<1>3. {i \in 1 .. 0 : s[i].home \in H} = {}
  OBVIOUS
<1>4. NumIn(s, H, 0) = 0
  BY <1>3, FS_EmptySet DEF NumIn
<1>5. CASE s[n + 1].home \in H
  <2>1. J = I \cup {n + 1} /\ n + 1 \notin I
    BY <1>5
  <2> QED BY <1>2, <1>4, <1>5, <2>1, FS_AddElement DEF NumIn, One
<1>6. CASE s[n + 1].home \notin H
  <2>1. J = I
    BY <1>6
  <2>2. NumIn(s, H, n + 1) = NumIn(s, H, n) /\ NumIn(s, H, n) \in Nat
    BY <1>2, <2>1 DEF NumIn
  <2> QED BY <1>4, <1>6, <2>2 DEF One
<1> QED BY <1>5, <1>6

LEMMA NumSame ==
  ASSUME NEW s, NEW u, NEW H, NEW n \in Nat, \A i \in 1 .. n : s[i].home = u[i].home
  PROVE  NumIn(s, H, n) = NumIn(u, H, n)
<1>1. {i \in 1 .. n : s[i].home \in H} = {i \in 1 .. n : u[i].home \in H}
  OBVIOUS
<1> QED BY <1>1 DEF NumIn

LEMMA NumNext ==
  ASSUME NEW s, NEW H, NEW n \in Nat
  PROVE  NumIn(s, H, n + 1) = NumIn(s, H, n) + One(s[n + 1], H)
BY NumType

LEMMA NumAppend ==
  ASSUME NEW s, NEW u, NEW H, NEW n \in Nat, \A i \in 1 .. n : s[i].home = u[i].home
  PROVE  NumIn(s, H, n + 1) = NumIn(u, H, n) + One(s[n + 1], H)
<1>1. NumIn(s, H, n + 1) = NumIn(s, H, n) + One(s[n + 1], H)
  BY NumNext
<1>2. NumIn(s, H, n) = NumIn(u, H, n)
  BY NumSame
<1> QED BY <1>1, <1>2

(* The rest of a list has what the list has, but for its first event.      *)
LEMMA NumTail ==
  ASSUME NEW s, NEW u, NEW H, NEW n \in Nat, \A i \in 1 .. n : u[i].home = s[i + 1].home
  PROVE  NumIn(s, H, n + 1) = NumIn(u, H, n) + One(s[1], H)
<1> DEFINE d == One(s[1], H)
           T == {k \in Nat : k <= n => NumIn(s, H, k + 1) = NumIn(u, H, k) + d}
<1>1. d \in Nat
  BY DEF One
<1>2. 0 \in T
  <2>1. NumIn(s, H, 0 + 1) = NumIn(s, H, 0) + One(s[0 + 1], H)
    BY NumType
  <2>2. NumIn(s, H, 0) = 0 /\ NumIn(u, H, 0) = 0
    BY NumType
  <2> QED BY <2>1, <2>2
<1>3. ASSUME NEW k \in T PROVE k + 1 \in T
  <2> SUFFICES ASSUME k + 1 <= n
               PROVE NumIn(s, H, (k + 1) + 1) = NumIn(u, H, k + 1) + d
    OBVIOUS
  <2>1. k \in Nat /\ k + 1 \in Nat /\ NumIn(s, H, k + 1) = NumIn(u, H, k) + d
    OBVIOUS
  <2> HIDE DEF d, T
  <2>2. NumIn(s, H, (k + 1) + 1) = NumIn(s, H, k + 1) + One(s[(k + 1) + 1], H)
    BY <2>1, NumType
  <2>3. NumIn(u, H, k + 1) = NumIn(u, H, k) + One(u[k + 1], H)
    BY <2>1, NumType
  <2>4. u[k + 1].home = s[(k + 1) + 1].home
    BY <2>1
  <2>5. NumIn(u, H, k) \in Nat
    BY <2>1, NumType
  <2> QED BY <1>1, <2>1, <2>2, <2>3, <2>4, <2>5 DEF One
<1>4. T \in SUBSET Nat
  OBVIOUS
<1> HIDE DEF T, d
<1>5. n \in T
  BY <1>2, <1>3, <1>4, Climb
<1> QED BY <1>5 DEF T, d

(* One list behind another: the second adds all its events, or none.       *)
LEMMA NumAll ==
  ASSUME NEW s, NEW H, NEW n \in Nat, NEW m \in Nat, \A i \in 1 .. m : s[n + i].home \in H
  PROVE  NumIn(s, H, n + m) = NumIn(s, H, n) + m
<1> DEFINE T == {k \in Nat : k <= m => NumIn(s, H, n + k) = NumIn(s, H, n) + k}
<1>1. NumIn(s, H, n) \in Nat /\ n + 0 = n
  BY NumType
<1>2. 0 \in T
  BY <1>1
<1>3. ASSUME NEW k \in T PROVE k + 1 \in T
  <2> SUFFICES ASSUME k + 1 <= m
               PROVE NumIn(s, H, n + (k + 1)) = NumIn(s, H, n) + (k + 1)
    OBVIOUS
  <2>1. k \in Nat /\ n + k \in Nat /\ n + (k + 1) = (n + k) + 1
        /\ NumIn(s, H, n + k) = NumIn(s, H, n) + k
    OBVIOUS
  <2> HIDE DEF T
  <2>2. NumIn(s, H, (n + k) + 1) = NumIn(s, H, n + k) + One(s[(n + k) + 1], H)
    BY <2>1, NumType
  <2>3. s[n + (k + 1)].home \in H
    BY <2>1
  <2> QED BY <1>1, <2>1, <2>2, <2>3 DEF One
<1>4. T \in SUBSET Nat
  OBVIOUS
<1> HIDE DEF T
<1>5. m \in T
  BY <1>2, <1>3, <1>4, Climb
<1> QED BY <1>5 DEF T

LEMMA NumNone ==
  ASSUME NEW s, NEW H, NEW n \in Nat, NEW m \in Nat, \A i \in 1 .. m : s[n + i].home \notin H
  PROVE  NumIn(s, H, n + m) = NumIn(s, H, n)
<1> DEFINE T == {k \in Nat : k <= m => NumIn(s, H, n + k) = NumIn(s, H, n)}
<1>1. NumIn(s, H, n) \in Nat /\ n + 0 = n
  BY NumType
<1>2. 0 \in T
  BY <1>1
<1>3. ASSUME NEW k \in T PROVE k + 1 \in T
  <2> SUFFICES ASSUME k + 1 <= m
               PROVE NumIn(s, H, n + (k + 1)) = NumIn(s, H, n)
    OBVIOUS
  <2>1. k \in Nat /\ n + k \in Nat /\ n + (k + 1) = (n + k) + 1
        /\ NumIn(s, H, n + k) = NumIn(s, H, n)
    OBVIOUS
  <2> HIDE DEF T
  <2>2. NumIn(s, H, (n + k) + 1) = NumIn(s, H, n + k) + One(s[(n + k) + 1], H)
    BY <2>1, NumType
  <2>3. s[n + (k + 1)].home \notin H
    BY <2>1
  <2> QED BY <1>1, <2>1, <2>2, <2>3 DEF One
<1>4. T \in SUBSET Nat
  OBVIOUS
<1> HIDE DEF T
<1>5. m \in T
  BY <1>2, <1>3, <1>4, Climb
<1> QED BY <1>5 DEF T

LEMMA TagLemma ==
  ASSUME NEW S, IsFiniteSet(S), NEW x
  PROVE  IsFiniteSet({<<x, i>> : i \in S}) /\ Cardinality({<<x, i>> : i \in S}) = Cardinality(S)
<1> DEFINE T == {<<x, i>> : i \in S}
           f == [i \in S |-> <<x, i>>]
<1>1. f \in Bijection(S, T)
  <2>1. f \in Injection(S, T)
    BY DEF Injection, IsInjective
  <2>2. f \in Surjection(S, T)
    BY DEF Surjection
  <2> QED BY <2>1, <2>2 DEF Bijection
<1>2. ExistsBijection(S, T)
  BY <1>1 DEF ExistsBijection
<1> QED BY <1>2, FS_Bijection

(* Events of the region h that wait in the ACTIVE list.                    *)
Before(q, h) == NumIn(q["ACTIVE"], {h}, Len(q["ACTIVE"]))

(* Only NBA and FUTURE events change lists, and only to the ACTIVE one ... *)
Homes(q) ==
  /\ \A r \in AllRegions \ {"ACTIVE"} : \A i \in 1 .. Len(q[r]) : q[r][i].home = r
  /\ \A i \in 1 .. Len(q["ACTIVE"]) : q["ACTIVE"][i].home \in {"ACTIVE", "NBA", "FUTURE"}

(* ... where they stay in order: those of a region that have moved come    *)
(* before those that have not, and its events execute in that order.       *)
Ranks(q) ==
  /\ \A r \in AllRegions \ {"ACTIVE"} : \A i \in 1 .. Len(q[r]) :
       q[r][i].ahead = Before(q, r) + i - 1
  /\ \A i \in 1 .. Len(q["ACTIVE"]) :
       q["ACTIVE"][i].ahead = NumIn(q["ACTIVE"], {q["ACTIVE"][i].home}, i - 1)

Ranked(q) == Homes(q) /\ Ranks(q)

(* The size of a list is right, except of the one that is being executed.  *)
Blockers == AllRegions \ {"NBA"}
Agrees(q, n, r) ==
  n[r] = IF r = "ACTIVE" THEN NumIn(q[r], Blockers, Len(q[r])) ELSE Len(q[r])
SizesInv(q, n, here) == \A r \in AllRegions : Agrees(q, n, r) \/ (r = here /\ n[r] > 0)

LEMMA QueueFacts ==
  ASSUME NEW q \in Queues
  PROVE  \A r \in AllRegions :
           /\ q[r] \in Seq(EventT) /\ Len(q[r]) \in Nat /\ DOMAIN q[r] = 1 .. Len(q[r])
           /\ \A i \in 1 .. Len(q[r]) : /\ q[r][i].home \in AllRegions
                                        /\ q[r][i].due \in Nat /\ q[r][i].ahead \in Int
<1> SUFFICES ASSUME NEW r \in AllRegions
             PROVE /\ q[r] \in Seq(EventT) /\ Len(q[r]) \in Nat /\ DOMAIN q[r] = 1 .. Len(q[r])
                   /\ \A i \in 1 .. Len(q[r]) : /\ q[r][i].home \in AllRegions
                                                /\ q[r][i].due \in Nat /\ q[r][i].ahead \in Int
  OBVIOUS
<1>1. q[r] \in Seq(EventT)
  BY DEF Queues
<1>2. Len(q[r]) \in Nat /\ DOMAIN q[r] = 1 .. Len(q[r])
  BY <1>1, LenProperties
<1>3. ASSUME NEW i \in 1 .. Len(q[r])
      PROVE q[r][i].home \in AllRegions /\ q[r][i].due \in Nat /\ q[r][i].ahead \in Int
  <2>1. q[r][i] \in EventT
    BY <1>1, ElementOfSeq
  <2> QED BY <2>1 DEF EventT
<1> QED BY <1>1, <1>2, <1>3

(* The events of a region that have yet to execute are those in its own    *)
(* list and those in the ACTIVE one.                                       *)
LEMMA LiveLemma ==
  ASSUME NEW q \in Queues, Homes(q), NEW h \in AllRegions,
         \A r \in AllRegions : Len(q[r]) <= MaxLive
  PROVE  Live(q, h) = Before(q, h) + (IF h = "ACTIVE" THEN 0 ELSE Len(q[h]))
<1> DEFINE P == {p \in AllRegions \X (1 .. MaxLive) : p[2] <= Len(q[p[1]]) /\ q[p[1]][p[2]].home = h}
           I == {i \in 1 .. Len(q["ACTIVE"]) : q["ACTIVE"][i].home \in {h}}
           A == {<<"ACTIVE", i>> : i \in I}
           J == 1 .. Len(q[h])
           B == {<<h, i>> : i \in J}
<1>1. "ACTIVE" \in AllRegions
  BY DEF AllRegions
<1>2. \A r \in AllRegions : Len(q[r]) \in Nat
  BY QueueFacts
<1>3. MaxLive \in Nat
  BY KernelAssumption
<1>4. IsFiniteSet(1 .. Len(q["ACTIVE"])) /\ IsFiniteSet(J) /\ Cardinality(J) = Len(q[h])
  <2>1. ASSUME NEW k \in Nat PROVE IsFiniteSet(1 .. k) /\ Cardinality(1 .. k) = k
    <3>1. Cardinality(1 .. k) = IF 1 > k THEN 0 ELSE k - 1 + 1
      BY FS_Interval
    <3> QED BY <3>1, FS_Interval
  <2> QED BY <2>1, <1>1, <1>2
<1>5. IsFiniteSet(I)
  BY <1>4, FS_Subset
<1>6. Cardinality(I) = Before(q, h) /\ Cardinality(P) = Live(q, h)
  BY DEF Before, NumIn, Live
<1>7. IsFiniteSet(A) /\ Cardinality(A) = Cardinality(I)
  <2> HIDE DEF I
  <2> QED BY <1>5, TagLemma
<1>8. IsFiniteSet(B) /\ Cardinality(B) = Cardinality(J)
  <2> HIDE DEF J
  <2> QED BY <1>4, TagLemma
<1>9. A \subseteq P
  BY <1>1, <1>2, <1>3
<1>10. CASE h = "ACTIVE"
  <2>1. P \subseteq A
    <3> SUFFICES ASSUME NEW r \in AllRegions, NEW i \in 1 .. MaxLive,
                        i <= Len(q[r]), q[r][i].home = h
                 PROVE <<r, i>> \in A
      OBVIOUS
    <3>1. r = "ACTIVE"
      BY <1>2, <1>10 DEF Homes
    <3> QED BY <3>1, <1>2
  <2>2. Before(q, h) \in Nat
    BY <1>5, <1>6, FS_CardinalityType
  <2>3. P = A
    BY <2>1, <1>9
  <2> HIDE DEF P, A, I, J, B
  <2>4. Live(q, h) = Before(q, h)
    BY <2>3, <1>6, <1>7
  <2> QED BY <2>2, <2>4, <1>10
<1>11. CASE h # "ACTIVE"
  <2>1. P \subseteq A \cup B
    <3> SUFFICES ASSUME NEW r \in AllRegions, NEW i \in 1 .. MaxLive,
                        i <= Len(q[r]), q[r][i].home = h
                 PROVE <<r, i>> \in A \cup B
      OBVIOUS
    <3>1. CASE r = "ACTIVE"
      BY <3>1, <1>2
    <3>2. CASE r # "ACTIVE"
      <4>1. r = h
        BY <3>2, <1>2 DEF Homes
      <4> QED BY <4>1, <1>2
    <3> QED BY <3>1, <3>2
  <2>2. B \subseteq P
    BY <1>2, <1>3, <1>11 DEF Homes
  <2>3. A \cap B = {}
    BY <1>11
  <2>4. P = A \cup B
    BY <2>1, <2>2, <1>9
  <2>5. Before(q, h) \in Nat
    BY <1>5, <1>6, FS_CardinalityType
  <2> HIDE DEF P, A, I, J, B
  <2>6. Cardinality(P) = Cardinality(A) + Cardinality(B) - 0
    BY <2>3, <2>4, <1>7, <1>8, FS_Union, FS_EmptySet
  <2> QED BY <2>5, <2>6, <1>2, <1>4, <1>6, <1>7, <1>8, <1>11
<1> QED BY <1>10, <1>11

(* Scheduling one event keeps the order and the sizes.                     *)
LEMMA LinkedOrder ==
  ASSUME NEW q \in Queues, NEW n \in [AllRegions -> Nat], time \in Nat, NEW c \in Calls,
         Ranked(q), \A r \in AllRegions : Len(q[r]) <= MaxLive,
         NEW here, here # c.region, SizesInv(q, n, here)
  PROVE  Ranked(Linked(q, c)) /\ SizesInv(Linked(q, c), Counted(n, c), here)
<1> DEFINE e == Event(q, c)
           p == Linked(q, c)
           cr == c.region
           l == Len(q[cr])
           L == Len(q["ACTIVE"])
<1>1. cr \in AllRegions /\ c # NoCall /\ c.delay \in Nat /\ "ACTIVE" \in AllRegions
  BY CallsLemma DEF AllRegions
<1>2. e \in EventT /\ e.home = cr /\ e.ahead = Live(q, cr)
  BY <1>1, LiveType DEF Event, EventT
<1>3. p = [q EXCEPT ![cr] = Append(@, e)] /\ Counted(n, c) = [n EXCEPT ![cr] = @ + 1]
  BY <1>1 DEF Linked, Counted
<1>4. \A r \in AllRegions : q[r] \in Seq(EventT) /\ Len(q[r]) \in Nat
  BY QueueFacts
<1> HIDE DEF e, p
<1>5. /\ Append(q[cr], e) \in Seq(EventT) /\ Len(Append(q[cr], e)) = l + 1
      /\ \A i \in 1 .. l : Append(q[cr], e)[i] = q[cr][i]
      /\ Append(q[cr], e)[l + 1] = e
  BY <1>1, <1>2, <1>4, AppendProperties
<1>6. /\ Len(p[cr]) = l + 1 /\ (\A i \in 1 .. l : p[cr][i] = q[cr][i]) /\ p[cr][l + 1] = e
      /\ \A r \in AllRegions \ {cr} : p[r] = q[r]
  BY <1>1, <1>3, <1>5 DEF Queues
<1>7. e.ahead = Before(q, cr) + (IF cr = "ACTIVE" THEN 0 ELSE l)
  BY <1>1, <1>2, LiveLemma DEF Ranked
<1>8. l \in Nat /\ L \in Nat
  BY <1>1, <1>4
<1>9. CASE cr = "ACTIVE"
  <2>1. \A H : /\ NumIn(p["ACTIVE"], H, l + 1) = NumIn(q["ACTIVE"], H, l) + (IF "ACTIVE" \in H THEN 1 ELSE 0)
               /\ NumIn(q["ACTIVE"], H, l) \in Nat
    <3> DEFINE s == p["ACTIVE"]
               u == q["ACTIVE"]
    <3>1. s[l + 1].home = "ACTIVE" /\ \A i \in 1 .. l : s[i].home = u[i].home
      BY <1>2, <1>6, <1>8, <1>9
    <3> HIDE DEF s, u, l
    <3> TAKE H
    <3>2. NumIn(s, H, l + 1) = NumIn(u, H, l) + One(s[l + 1], H)
      BY <3>1, <1>8, NumAppend
    <3>3. NumIn(u, H, l) \in Nat
      BY <1>8, NumType
    <3> QED BY <3>1, <3>2, <3>3 DEF s, u, One
  <2>2. \A r \in AllRegions \ {"ACTIVE"} : Before(p, r) = Before(q, r)
    BY <2>1, <1>6, <1>9 DEF Before
  <2>3. Homes(p)
    BY <1>2, <1>6, <1>8, <1>9 DEF Ranked, Homes
  <2>4. ASSUME NEW i \in 1 .. Len(p["ACTIVE"])
        PROVE p["ACTIVE"][i].ahead = NumIn(p["ACTIVE"], {p["ACTIVE"][i].home}, i - 1)
    <3>1. i - 1 \in Nat /\ \A H : NumIn(p["ACTIVE"], H, i - 1) = NumIn(q["ACTIVE"], H, i - 1)
      <4>1. i - 1 \in Nat /\ \A j \in 1 .. i - 1 : p["ACTIVE"][j].home = q["ACTIVE"][j].home
        BY <1>6, <1>8, <1>9
      <4> QED BY <4>1, NumSame
    <3>2. CASE i = l + 1
      <4>1. p["ACTIVE"][i] = e /\ i - 1 = l
        BY <3>2, <1>6, <1>8, <1>9
      <4>2. e.ahead = NumIn(q["ACTIVE"], {"ACTIVE"}, l)
        BY <2>1, <1>7, <1>9 DEF Before
      <4> QED BY <4>1, <4>2, <3>1, <1>2, <1>9
    <3>3. CASE i # l + 1
      <4>1. i \in 1 .. l /\ p["ACTIVE"][i] = q["ACTIVE"][i]
        BY <3>3, <1>6, <1>8, <1>9
      <4>2. q["ACTIVE"][i].ahead = NumIn(q["ACTIVE"], {q["ACTIVE"][i].home}, i - 1)
        BY <4>1, <1>9 DEF Ranked, Ranks
      <4> QED BY <4>1, <4>2, <3>1
    <3> QED BY <3>2, <3>3
  <2>5. Ranks(p)
    BY <2>2, <2>4, <1>6, <1>9 DEF Ranked, Ranks
  <2>6. SizesInv(p, Counted(n, c), here)
    <3>1. Agrees(q, n, cr)
      BY <1>1 DEF SizesInv
    <3>2. n[cr] = NumIn(q["ACTIVE"], Blockers, l)
      BY <3>1, <1>9 DEF Agrees
    <3>3. NumIn(p["ACTIVE"], Blockers, l + 1) = NumIn(q["ACTIVE"], Blockers, l) + 1
      BY <2>1, <1>1 DEF Blockers
    <3>4. Counted(n, c)[cr] = n[cr] + 1 /\ \A r \in AllRegions \ {cr} : Counted(n, c)[r] = n[r]
      BY <1>1, <1>3
    <3>5. Agrees(p, Counted(n, c), cr)
      BY <3>2, <3>3, <3>4, <1>6, <1>9 DEF Agrees
    <3>6. ASSUME NEW r \in AllRegions \ {cr}
          PROVE Agrees(p, Counted(n, c), r) \/ (r = here /\ Counted(n, c)[r] > 0)
      BY <3>4, <1>6 DEF SizesInv, Agrees
    <3> QED BY <3>5, <3>6 DEF SizesInv
  <2> QED BY <2>3, <2>5, <2>6 DEF Ranked, p
<1>10. CASE cr # "ACTIVE"
  <2>1. p["ACTIVE"] = q["ACTIVE"] /\ \A r : Before(p, r) = Before(q, r)
    BY <1>1, <1>6, <1>10 DEF Before
  <2>2. Homes(p)
    <3>1. ASSUME NEW r \in AllRegions \ {"ACTIVE"}, NEW i \in 1 .. Len(p[r])
          PROVE p[r][i].home = r
      <4>1. CASE r # cr
        BY <4>1, <1>6 DEF Ranked, Homes
      <4>2. CASE r = cr /\ i = l + 1
        BY <4>2, <1>2, <1>6
      <4>3. CASE r = cr /\ i # l + 1
        <5>1. i \in 1 .. l /\ p[r][i] = q[r][i]
          BY <4>3, <1>6, <1>8
        <5> QED BY <5>1, <4>3 DEF Ranked, Homes
      <4> QED BY <4>1, <4>2, <4>3
    <3> QED BY <3>1, <2>1 DEF Ranked, Homes
  <2>3. ASSUME NEW r \in AllRegions \ {"ACTIVE"}, NEW i \in 1 .. Len(p[r])
        PROVE p[r][i].ahead = Before(p, r) + i - 1
    <3>1. CASE r # cr
      BY <3>1, <2>1, <1>6 DEF Ranked, Ranks
    <3>2. CASE r = cr
      <4>1. CASE i = l + 1
        <5>1. Before(q, cr) \in Nat
          BY <1>8, NumType DEF Before
        <5>2. p[r][i] = e
          BY <4>1, <3>2, <1>6
        <5> QED BY <5>1, <5>2, <4>1, <3>2, <2>1, <1>7, <1>8, <1>10
      <4>2. CASE i # l + 1
        <5>1. i \in 1 .. l /\ p[r][i] = q[r][i]
          BY <4>2, <3>2, <1>6, <1>8
        <5> QED BY <5>1, <3>2, <2>1 DEF Ranked, Ranks
      <4> QED BY <4>1, <4>2
    <3> QED BY <3>1, <3>2
  <2>4. Ranks(p)
    BY <2>1, <2>3 DEF Ranked, Ranks
  <2>5. SizesInv(p, Counted(n, c), here)
    <3>1. n[cr] = l
      BY <1>1, <1>10 DEF SizesInv, Agrees
    <3>2. Counted(n, c)[cr] = n[cr] + 1 /\ \A r \in AllRegions \ {cr} : Counted(n, c)[r] = n[r]
      BY <1>1, <1>3
    <3>3. Agrees(p, Counted(n, c), cr)
      BY <3>1, <3>2, <1>6, <1>10 DEF Agrees
    <3>4. ASSUME NEW r \in AllRegions \ {cr}
          PROVE Agrees(p, Counted(n, c), r) \/ (r = here /\ Counted(n, c)[r] > 0)
      BY <3>2, <1>6 DEF SizesInv, Agrees
    <3> QED BY <3>3, <3>4 DEF SizesInv
  <2> QED BY <2>2, <2>4, <2>5 DEF Ranked, p
<1> QED BY <1>9, <1>10

Less(e, home) == IF e.home = home THEN e.ahead - 1 ELSE e.ahead

(* The event at the head is gone, and the others of its home are nearer.   *)
LEMMA WithoutShape ==
  ASSUME NEW q \in Queues, NEW r \in AllRegions, Len(q[r]) > 0
  PROVE  LET W == Without(q, r)
             home == q[r][1].home
         IN /\ Len(W[r]) = Len(q[r]) - 1
            /\ \A i \in 1 .. Len(q[r]) - 1 :
                 W[r][i].home = q[r][i + 1].home /\ W[r][i].ahead = Less(q[r][i + 1], home)
            /\ \A s \in AllRegions \ {r} :
                 /\ Len(W[s]) = Len(q[s])
                 /\ \A i \in 1 .. Len(q[s]) :
                      W[s][i].home = q[s][i].home /\ W[s][i].ahead = Less(q[s][i], home)
<1> DEFINE W == Without(q, r)
           home == q[r][1].home
           rest == [q EXCEPT ![r] = Tail(@)]
           closer(e) == IF e.home = Head(q[r]).home THEN [e EXCEPT !.ahead = @ - 1] ELSE e
<1>1. W = [s \in AllRegions |-> [i \in DOMAIN rest[s] |-> closer(rest[s][i])]]
  BY DEF Without
<1>2. \A s \in AllRegions : q[s] \in Seq(EventT) /\ Len(q[s]) \in Nat
  BY QueueFacts
<1>3. q[r] # <<>>
  BY <1>2, EmptySeq
<1>4. /\ Tail(q[r]) \in Seq(EventT) /\ Len(Tail(q[r])) = Len(q[r]) - 1
      /\ \A i \in 1 .. Len(Tail(q[r])) : Tail(q[r])[i] = q[r][i + 1]
  BY <1>2, <1>3, HeadTailProperties
<1>5. Head(q[r]) = q[r][1]
  BY <1>2, <1>3
<1>6. \A s \in AllRegions : rest[s] = IF s = r THEN Tail(q[r]) ELSE q[s]
  BY DEF Queues
<1>7. \A s \in AllRegions : rest[s] \in Seq(EventT) /\ Len(rest[s]) \in Nat
  BY <1>2, <1>4, <1>6
<1>8. \A e \in EventT : closer(e) \in EventT /\ closer(e).home = e.home /\ closer(e).ahead = Less(e, home)
  BY <1>5 DEF EventT, Less
<1> HIDE DEF rest, closer, home
<1>9. ASSUME NEW s \in AllRegions
      PROVE Len(W[s]) = Len(rest[s])
            /\ \A i \in 1 .. Len(rest[s]) : /\ W[s][i].home = rest[s][i].home
                                            /\ W[s][i].ahead = Less(rest[s][i], home)
  <2>1. W[s] = [i \in 1 .. Len(rest[s]) |-> closer(rest[s][i])]
    BY <1>1, <1>7, LenProperties
  <2>2. \A i \in 1 .. Len(rest[s]) : rest[s][i] \in EventT
    BY <1>7, ElementOfSeq
  <2>3. W[s] \in [1 .. Len(rest[s]) -> EventT]
    BY <2>1, <2>2, <1>8
  <2>4. W[s] \in Seq(EventT) /\ Len(W[s]) = Len(rest[s])
    BY <2>3, <1>7
  <2> QED BY <2>1, <2>2, <2>4, <1>8
<1> HIDE DEF W
<1>10. Len(W[r]) = Len(q[r]) - 1
  BY <1>4, <1>6, <1>9
<1>11. ASSUME NEW i \in 1 .. Len(q[r]) - 1
       PROVE W[r][i].home = q[r][i + 1].home /\ W[r][i].ahead = Less(q[r][i + 1], home)
  <2>1. i \in 1 .. Len(rest[r]) /\ rest[r][i] = q[r][i + 1]
    BY <1>2, <1>4, <1>6
  <2> QED BY <2>1, <1>9
<1>12. \A s \in AllRegions \ {r} :
         /\ Len(W[s]) = Len(q[s])
         /\ \A i \in 1 .. Len(q[s]) :
              W[s][i].home = q[s][i].home /\ W[s][i].ahead = Less(q[s][i], home)
  BY <1>6, <1>9
<1> QED BY <1>10, <1>11, <1>12 DEF W, home

(* Executing the first event of a list keeps the order of all the others.  *)
LEMMA WithoutOrder ==
  ASSUME NEW q \in Queues, NEW r \in Passes, Len(q[r]) > 0, Ranked(q),
         NEW n \in [AllRegions -> Nat], n[r] > 0, SizesInv(q, n, r)
  PROVE  Ranked(Without(q, r)) /\ SizesInv(Without(q, r), n, r)
<1> DEFINE W == Without(q, r)
           home == q[r][1].home
           a == q["ACTIVE"]
           w == W["ACTIVE"]
<1>1. r \in AllRegions /\ r \notin {"NBA", "FUTURE"} /\ "ACTIVE" \in AllRegions
  BY DEF Passes, AllRegions
<1>2. /\ Len(W[r]) = Len(q[r]) - 1
      /\ \A i \in 1 .. Len(q[r]) - 1 :
           W[r][i].home = q[r][i + 1].home /\ W[r][i].ahead = Less(q[r][i + 1], home)
      /\ \A s \in AllRegions \ {r} :
           /\ Len(W[s]) = Len(q[s])
           /\ \A i \in 1 .. Len(q[s]) :
                W[s][i].home = q[s][i].home /\ W[s][i].ahead = Less(q[s][i], home)
  BY <1>1, WithoutShape
<1>3. \A s \in AllRegions : Len(q[s]) \in Nat
                            /\ \A i \in 1 .. Len(q[s]) : q[s][i].ahead \in Int
  BY QueueFacts
<1> HIDE DEF W
<1>4. Homes(W)
  <2>1. ASSUME NEW s \in AllRegions \ {"ACTIVE"}, NEW i \in 1 .. Len(W[s])
        PROVE W[s][i].home = s
    <3>1. CASE s = r
      <4>1. W[s][i].home = q[s][i + 1].home /\ i + 1 \in 1 .. Len(q[s])
        BY <3>1, <1>1, <1>2, <1>3
      <4> QED BY <4>1 DEF Ranked, Homes
    <3>2. CASE s # r
      <4>1. s \in AllRegions \ {r}
        BY <3>2
      <4>2. i \in 1 .. Len(q[s]) /\ W[s][i].home = q[s][i].home
        BY <4>1, <1>2
      <4> QED BY <4>2 DEF Ranked, Homes
    <3> QED BY <3>1, <3>2
  <2>2. ASSUME NEW i \in 1 .. Len(w)
        PROVE w[i].home \in {"ACTIVE", "NBA", "FUTURE"}
    <3>1. CASE r = "ACTIVE"
      <4>1. w[i].home = a[i + 1].home /\ i + 1 \in 1 .. Len(a)
        BY <3>1, <1>1, <1>2, <1>3
      <4> QED BY <4>1 DEF Ranked, Homes
    <3>2. CASE r # "ACTIVE"
      <4>1. "ACTIVE" \in AllRegions \ {r}
        BY <3>2, <1>1
      <4>2. i \in 1 .. Len(a) /\ w[i].home = a[i].home
        BY <4>1, <1>2
      <4> QED BY <4>2 DEF Ranked, Homes
    <3> QED BY <3>1, <3>2
  <2> QED BY <2>1, <2>2 DEF Homes
<1>5. CASE r = "ACTIVE"
  <2> DEFINE m == Len(a) - 1
  <2>1. m \in Nat /\ Len(w) = m /\ Len(a) = m + 1
        /\ \A i \in 1 .. m : w[i].home = a[i + 1].home
    BY <1>1, <1>2, <1>3, <1>5
  <2>7. home = a[1].home
    BY <1>5
  <2>8. ASSUME NEW h, NEW k \in 0 .. m
        PROVE /\ NumIn(a, {h}, k + 1) = NumIn(w, {h}, k) + (IF home = h THEN 1 ELSE 0)
              /\ NumIn(w, {h}, k) \in Nat
    <3> DEFINE H == {h}
    <3>1. (a[1].home \in H) <=> (home = h)
      BY <2>7
    <3> HIDE DEF m, a, w, home, H
    <3>2. k \in Nat /\ \A i \in 1 .. k : w[i].home = a[i + 1].home
      BY <2>1
    <3>3. NumIn(a, H, k + 1) = NumIn(w, H, k) + One(a[1], H)
      BY <3>2, NumTail
    <3>4. NumIn(w, H, k) \in Nat
      BY <3>2, NumType
    <3>5. NumIn(a, H, k + 1) = NumIn(w, H, k) + (IF home = h THEN 1 ELSE 0)
      BY <3>1, <3>3 DEF One
    <3> QED BY <3>4, <3>5 DEF H
  <2>2. \A s \in AllRegions \ {"ACTIVE"} :
          Before(q, s) = Before(W, s) + (IF home = s THEN 1 ELSE 0) /\ Before(W, s) \in Nat
    <3> TAKE s \in AllRegions \ {"ACTIVE"}
    <3>1. m \in 0 .. m
      BY <2>1
    <3> HIDE DEF m, a, w, home
    <3>2. NumIn(a, {s}, m + 1) = NumIn(w, {s}, m) + (IF home = s THEN 1 ELSE 0) /\ NumIn(w, {s}, m) \in Nat
      BY <3>1, <2>8
    <3> QED BY <3>2, <2>1 DEF Before, a, w
  <2>3. ASSUME NEW s \in AllRegions \ {"ACTIVE"}, NEW i \in 1 .. Len(W[s])
        PROVE W[s][i].ahead = Before(W, s) + i - 1
    <3>1. i \in 1 .. Len(q[s]) /\ W[s][i].ahead = Less(q[s][i], home)
      BY <1>2, <1>5
    <3>2. q[s][i].ahead = Before(q, s) + i - 1 /\ q[s][i].home = s
      BY <3>1 DEF Ranked, Ranks, Homes
    <3> QED BY <3>1, <3>2, <2>2 DEF Less
  <2>4. ASSUME NEW i \in 1 .. Len(w)
        PROVE w[i].ahead = NumIn(w, {w[i].home}, i - 1)
    <3> DEFINE g == w[i].home
    <3>1. /\ i - 1 \in 0 .. m /\ (i - 1) + 1 = i /\ (i + 1) - 1 = i
          /\ i + 1 \in 1 .. Len(a) /\ i \in 1 .. m
      BY <2>1
    <3>2. a[i + 1].ahead = NumIn(a, {a[i + 1].home}, i)
      BY <3>1 DEF Ranked, Ranks
    <3>3. a[i + 1].home = g
      BY <3>1, <2>1
    <3>4. w[i].ahead = Less(a[i + 1], home)
      BY <3>1, <1>2, <1>5
    <3> HIDE DEF m, a, w, home, g
    <3>5. NumIn(a, {g}, i) = NumIn(w, {g}, i - 1) + (IF home = g THEN 1 ELSE 0)
          /\ NumIn(w, {g}, i - 1) \in Nat
      BY <3>1, <2>8
    <3>6. w[i].ahead = NumIn(w, {g}, i - 1)
      <4>3. a[i + 1].ahead = NumIn(a, {g}, i)
        BY <3>2, <3>3, Zenon
      <4>1. CASE home = g
        BY <4>1, <4>3, <3>3, <3>4, <3>5 DEF Less
      <4>2. CASE home # g
        BY <4>2, <4>3, <3>3, <3>4, <3>5 DEF Less
      <4> QED BY <4>1, <4>2
    <3> QED BY <3>6 DEF g
  <2>5. Ranks(W)
    BY <2>3, <2>4 DEF Ranks
  <2>6. SizesInv(W, n, r)
    BY <1>2, <1>5 DEF SizesInv, Agrees
  <2> QED BY <2>5, <2>6, <1>4 DEF Ranked, W
<1>6. CASE r # "ACTIVE"
  <2>1. home = r
    BY <1>1, <1>3, <1>6 DEF Ranked, Homes
  <2>2. Len(w) = Len(a) /\ Len(a) \in Nat /\ \A i \in 1 .. Len(a) : w[i].home = a[i].home
    BY <1>1, <1>2, <1>3, <1>6
  <2>3. \A H, k : k \in 0 .. Len(a) => NumIn(w, H, k) = NumIn(a, H, k)
    <3> TAKE H, k
    <3> HAVE k \in 0 .. Len(a)
    <3>1. k \in Nat /\ \A i \in 1 .. k : w[i].home = a[i].home
      BY <2>2
    <3> HIDE DEF a, w
    <3> QED BY <3>1, NumSame
  <2>4. \A s : Before(W, s) = Before(q, s) /\ Before(q, s) \in Nat
    <3> TAKE s
    <3>1. NumIn(a, {s}, Len(a)) \in Nat
      BY <2>2, NumType
    <3>2. Len(a) \in 0 .. Len(a)
      BY <2>2
    <3> QED BY <3>1, <3>2, <2>2, <2>3 DEF Before
  <2>5. ASSUME NEW s \in AllRegions \ {"ACTIVE"}, NEW i \in 1 .. Len(W[s])
        PROVE W[s][i].ahead = Before(W, s) + i - 1
    <3>1. CASE s = r
      <4>1. i + 1 \in 1 .. Len(q[r]) /\ i \in 1 .. Len(q[r]) - 1
        BY <3>1, <1>1, <1>2, <1>3
      <4>2. q[r][i + 1].ahead = Before(q, r) + (i + 1) - 1 /\ q[r][i + 1].home = r
        BY <4>1, <1>1, <1>6 DEF Ranked, Ranks, Homes
      <4>3. W[s][i].ahead = q[r][i + 1].ahead - 1
        BY <4>1, <4>2, <3>1, <2>1, <1>2 DEF Less
      <4> QED BY <4>1, <4>2, <4>3, <3>1, <2>4
    <3>2. CASE s # r
      <4>1. i \in 1 .. Len(q[s]) /\ W[s][i].ahead = Less(q[s][i], home)
        BY <3>2, <1>2
      <4>2. q[s][i].ahead = Before(q, s) + i - 1 /\ q[s][i].home = s
        BY <4>1 DEF Ranked, Ranks, Homes
      <4> QED BY <4>1, <4>2, <3>2, <2>1, <2>4 DEF Less
    <3> QED BY <3>1, <3>2
  <2>6. ASSUME NEW i \in 1 .. Len(w)
        PROVE w[i].ahead = NumIn(w, {w[i].home}, i - 1)
    <3>1. i \in 1 .. Len(a) /\ w[i].ahead = Less(a[i], home) /\ w[i].home = a[i].home
      BY <2>2, <1>1, <1>2, <1>6
    <3>2. a[i].ahead = NumIn(a, {a[i].home}, i - 1) /\ a[i].home # r
      BY <3>1, <1>1, <1>6 DEF Ranked, Ranks, Homes
    <3>3. i - 1 \in 0 .. Len(a)
      BY <3>1, <2>2
    <3>4. NumIn(w, {a[i].home}, i - 1) = NumIn(a, {a[i].home}, i - 1)
      BY <3>3, <2>3
    <3> QED BY <3>1, <3>2, <3>4, <2>1 DEF Less
  <2>7. Ranks(W)
    BY <2>5, <2>6 DEF Ranks
  <2>8. SizesInv(W, n, r)
    <3> SUFFICES ASSUME NEW s \in AllRegions \ {r} PROVE Agrees(W, n, s)
      BY DEF SizesInv
    <3>1. Agrees(q, n, s)
      BY DEF SizesInv
    <3>2. Len(a) \in 0 .. Len(a)
      BY <2>2
    <3> QED BY <3>1, <3>2, <2>2, <2>3, <1>2 DEF Agrees
  <2> QED BY <2>7, <2>8, <1>4 DEF Ranked, W
<1> QED BY <1>5, <1>6

LEMMA ConcatParts ==
  ASSUME NEW S, NEW a \in Seq(S), NEW b \in Seq(S)
  PROVE  /\ a \o b \in Seq(S) /\ Len(a \o b) = Len(a) + Len(b)
         /\ \A i \in 1 .. Len(a) : (a \o b)[i] = a[i]
         /\ \A i \in 1 .. Len(b) : (a \o b)[Len(a) + i] = b[i]
<1> DEFINE c == a \o b
           m == Len(a)
           n == Len(b)
<1>1. m \in Nat /\ n \in Nat
  BY LenProperties
<1>2. /\ c \in Seq(S) /\ Len(c) = m + n
      /\ \A i \in 1 .. m + n : c[i] = IF i <= m THEN a[i] ELSE b[i - m]
  BY ConcatProperties
<1> HIDE DEF c, m, n
<1>3. ASSUME NEW i \in 1 .. m PROVE c[i] = a[i]
  <2>1. i \in 1 .. m + n /\ i <= m
    BY <1>1
  <2> QED BY <2>1, <1>2
<1>4. ASSUME NEW i \in 1 .. n PROVE c[m + i] = b[i]
  <2>1. m + i \in 1 .. m + n /\ ~ (m + i <= m) /\ (m + i) - m = i
    BY <1>1
  <2> QED BY <2>1, <1>2
<1> QED BY <1>2, <1>3, <1>4 DEF c, m, n

(* When the first d events of the list x go behind those of the ACTIVE     *)
(* list, every event keeps its rank.                                       *)
LEMMA JoinOrder ==
  ASSUME NEW q \in Queues, Ranked(q), NEW x \in {"NBA", "FUTURE"},
         NEW p \in Queues, NEW d \in Nat, d <= Len(q[x]),
         Len(p["ACTIVE"]) = Len(q["ACTIVE"]) + d,
         \A i \in 1 .. Len(q["ACTIVE"]) : p["ACTIVE"][i] = q["ACTIVE"][i],
         \A i \in 1 .. d : p["ACTIVE"][Len(q["ACTIVE"]) + i] = q[x][i],
         Len(p[x]) = Len(q[x]) - d,
         \A i \in 1 .. Len(q[x]) - d : p[x][i] = q[x][d + i],
         \A r \in AllRegions \ {"ACTIVE", x} : p[r] = q[r]
  PROVE  /\ Ranked(p)
         /\ NumIn(p["ACTIVE"], Blockers, Len(p["ACTIVE"]))
              = NumIn(q["ACTIVE"], Blockers, Len(q["ACTIVE"])) + (IF x = "NBA" THEN 0 ELSE d)
<1> DEFINE a == q["ACTIVE"]
           b == p["ACTIVE"]
           l == Len(a)
<1>1. x \in AllRegions /\ x # "ACTIVE" /\ "ACTIVE" \in AllRegions
  BY DEF AllRegions
<1>2. \A r \in AllRegions : Len(q[r]) \in Nat /\ Len(p[r]) \in Nat
  BY QueueFacts
<1>3. l \in Nat /\ Len(b) = l + d /\ \A i \in 1 .. l : b[i] = a[i]
  BY <1>1, <1>2
<1>4. \A i \in 1 .. d : b[l + i] = q[x][i] /\ q[x][i].home = x /\ q[x][i].ahead = Before(q, x) + i - 1
  BY <1>1, <1>2 DEF Ranked, Homes, Ranks
<1>5. ASSUME NEW H, NEW k \in 0 .. l PROVE NumIn(b, H, k) = NumIn(a, H, k) /\ NumIn(a, H, k) \in Nat
  <2> HIDE DEF a, b, l
  <2>1. k \in Nat /\ \A i \in 1 .. k : b[i].home = a[i].home
    BY <1>3
  <2> QED BY <2>1, NumSame, NumType
<1>6. ASSUME NEW H, NEW k \in 0 .. d
      PROVE NumIn(b, H, l + k) = NumIn(a, H, l) + (IF x \in H THEN k ELSE 0)
  <2>1. k \in Nat /\ \A i \in 1 .. k : i \in 1 .. d
    OBVIOUS
  <2>2. NumIn(b, H, l) = NumIn(a, H, l) /\ NumIn(a, H, l) \in Nat
    BY <1>3, <1>5
  <2> HIDE DEF a, b, l
  <2>3. \A i \in 1 .. k : b[l + i].home = x
    <3> TAKE i \in 1 .. k
    <3>1. i \in 1 .. d
      BY <2>1
    <3>2. b[l + i] = q[x][i] /\ q[x][i].home = x
      BY <3>1, <1>4
    <3> QED BY <3>2, Zenon
  <2>4. CASE x \in H
    <3>1. NumIn(b, H, l + k) = NumIn(b, H, l) + k
      BY <2>1, <2>3, <2>4, <1>3, NumAll
    <3> QED BY <3>1, <2>2, <2>4
  <2>5. CASE x \notin H
    <3>1. NumIn(b, H, l + k) = NumIn(b, H, l)
      BY <2>1, <2>3, <2>5, <1>3, NumNone
    <3> QED BY <3>1, <2>2, <2>5
  <2> QED BY <2>4, <2>5
<1>7. \A r : Before(p, r) = Before(q, r) + (IF r = x THEN d ELSE 0) /\ Before(q, r) \in Nat
  <2> TAKE r
  <2>1. d \in 0 .. d /\ l \in 0 .. l
    BY <1>3
  <2>2. NumIn(b, {r}, l + d) = NumIn(a, {r}, l) + (IF x \in {r} THEN d ELSE 0) /\ NumIn(a, {r}, l) \in Nat
    BY <2>1, <1>5, <1>6
  <2> QED BY <2>2, <1>3 DEF Before
<1>8. Homes(p)
  <2>1. ASSUME NEW r \in AllRegions \ {"ACTIVE"}, NEW i \in 1 .. Len(p[r]) PROVE p[r][i].home = r
    <3>1. CASE r = x
      <4>1. d + i \in 1 .. Len(q[x]) /\ p[r][i] = q[x][d + i]
        BY <3>1, <1>1, <1>2
      <4> QED BY <4>1, <3>1, <1>1 DEF Ranked, Homes
    <3>2. CASE r # x
      <4>1. p[r] = q[r]
        BY <3>2
      <4>2. \A k \in 1 .. Len(q[r]) : q[r][k].home = r
        BY DEF Ranked, Homes
      <4> QED BY <4>1, <4>2
    <3> QED BY <3>1, <3>2
  <2>2. ASSUME NEW i \in 1 .. Len(b) PROVE b[i].home \in {"ACTIVE", "NBA", "FUTURE"}
    <3>1. CASE i \in 1 .. l
      BY <3>1, <1>3 DEF Ranked, Homes
    <3>2. CASE i \notin 1 .. l
      <4> DEFINE k == i - l
      <4>1. k \in 1 .. d /\ i = l + k
        <5> HIDE DEF b, l
        <5>1. i \in 1 .. l + d /\ l \in Nat
          BY <1>3
        <5>2. \A j \in 1 .. l + d : j \notin 1 .. l => j - l \in 1 .. d /\ j = l + (j - l)
          BY <5>1
        <5> QED BY <5>1, <5>2, <3>2
      <4> HIDE DEF k
      <4> QED BY <4>1, <1>4
    <3> QED BY <3>1, <3>2
  <2> QED BY <2>1, <2>2 DEF Homes
<1>9. ASSUME NEW r \in AllRegions \ {"ACTIVE"}, NEW i \in 1 .. Len(p[r])
      PROVE p[r][i].ahead = Before(p, r) + i - 1
  <2>1. CASE r = x
    <3>1. d + i \in 1 .. Len(q[x]) /\ p[r][i] = q[x][d + i] /\ i \in Nat
      BY <2>1, <1>1, <1>2
    <3>2. q[x][d + i].ahead = Before(q, x) + (d + i) - 1
      BY <3>1, <1>1 DEF Ranked, Ranks
    <3> QED BY <3>1, <3>2, <2>1, <1>7
  <2>2. CASE r # x
    <3>1. p[r] = q[r] /\ q[r][i].ahead = Before(q, r) + i - 1
      BY <2>2 DEF Ranked, Ranks
    <3>2. i \in Nat
      BY <1>2
    <3> QED BY <3>1, <3>2, <2>2, <1>7
  <2> QED BY <2>1, <2>2
<1>10. ASSUME NEW i \in 1 .. Len(b)
       PROVE b[i].ahead = NumIn(b, {b[i].home}, i - 1)
  <2>1. CASE i \in 1 .. l
    <3>1. b[i] = a[i] /\ i - 1 \in 0 .. l
      BY <2>1, <1>3
    <3>2. a[i].ahead = NumIn(a, {a[i].home}, i - 1)
      BY <2>1 DEF Ranked, Ranks
    <3>3. NumIn(b, {a[i].home}, i - 1) = NumIn(a, {a[i].home}, i - 1)
      BY <3>1, <1>5
    <3> QED BY <3>1, <3>2, <3>3, Zenon
  <2>2. CASE i \notin 1 .. l
    <3> DEFINE k == i - l
    <3>1. k \in 1 .. d /\ i = l + k /\ k - 1 \in 0 .. d /\ i - 1 = l + (k - 1)
      <4> HIDE DEF b, l
      <4>1. i \in 1 .. l + d /\ l \in Nat
        BY <1>3
      <4>2. \A j \in 1 .. l + d :
              j \notin 1 .. l => /\ j - l \in 1 .. d /\ j = l + (j - l)
                                 /\ (j - l) - 1 \in 0 .. d /\ j - 1 = l + ((j - l) - 1)
        BY <4>1
      <4> QED BY <4>1, <4>2, <2>2
    <3> HIDE DEF k
    <3>2. b[i].home = x /\ b[i].ahead = Before(q, x) + k - 1
      BY <3>1, <1>4
    <3>3. NumIn(b, {x}, l + (k - 1)) = NumIn(a, {x}, l) + (k - 1)
      <4>1. NumIn(b, {x}, l + (k - 1)) = NumIn(a, {x}, l) + (IF x \in {x} THEN k - 1 ELSE 0)
        BY <3>1, <1>6
      <4> QED BY <4>1
    <3>4. Before(q, x) = NumIn(a, {x}, l) /\ Before(q, x) \in Nat
      BY <1>7 DEF Before
    <3> HIDE DEF a, b, l
    <3>5. b[i].ahead = NumIn(b, {x}, i - 1)
      BY <3>1, <3>2, <3>3, <3>4
    <3> QED BY <3>2, <3>5, Zenon
  <2> QED BY <2>1, <2>2
<1>11. Ranks(p)
  BY <1>9, <1>10 DEF Ranks
<1>12. NumIn(b, Blockers, Len(b)) = NumIn(a, Blockers, l) + (IF x = "NBA" THEN 0 ELSE d)
  <2>1. d \in 0 .. d /\ (x \in Blockers <=> x # "NBA")
    BY <1>1 DEF Blockers
  <2>2. NumIn(b, Blockers, l + d) = NumIn(a, Blockers, l) + (IF x \in Blockers THEN d ELSE 0)
    BY <2>1, <1>6
  <2> QED BY <2>1, <2>2, <1>3
<1> QED BY <1>8, <1>11, <1>12 DEF Ranked

(* hv_sim_run brings the due events in, with their sizes ...               *)
LEMMA StepOrder ==
  ASSUME KernelInv, Step, Ranked(queue), SizesInv(queue, size, "STEP")
  PROVE  Ranked(queue') /\ SizesInv(queue', size', "ACTIVE")
<1> DEFINE f == queue["FUTURE"]
           a == queue["ACTIVE"]
           late == SubSeq(f, Due + 1, Len(f))
           soon == SubSeq(f, 1, Due)
<1>1. queue \in Queues /\ time \in Nat /\ size \in [AllRegions -> Nat]
  BY DEF KernelInv
<1>2. Due \in 0 .. Len(f)
  BY <1>1, DueLemma
<1>3. f \in Seq(EventT) /\ a \in Seq(EventT) /\ Len(f) \in Nat /\ Len(a) \in Nat
  BY <1>1, LenProperties DEF Queues, AllRegions
<1>4. "FUTURE" \in AllRegions /\ "ACTIVE" \in AllRegions /\ "STEP" \notin AllRegions
  BY DEF AllRegions
<1>5. /\ queue' = [queue EXCEPT !["FUTURE"] = late, !["ACTIVE"] = a \o soon]
      /\ size' = [size EXCEPT !["FUTURE"] = @ - Due, !["ACTIVE"] = @ + Due]
  BY <1>1, <1>4 DEF Step, Queues
<1>6. /\ late \in Seq(EventT) /\ Len(late) = Len(f) - Due
      /\ \A i \in 1 .. Len(f) - Due : late[i] = f[Due + i]
  BY <1>2, <1>3, SubSeqProperties
<1>7. /\ soon \in Seq(EventT) /\ Len(soon) = Due
      /\ \A i \in 1 .. Due : soon[i] = f[i]
  BY <1>2, <1>3, SubSeqProperties
<1> HIDE DEF late, soon
<1>8. /\ Len(a \o soon) = Len(a) + Due
      /\ \A i \in 1 .. Len(a) : (a \o soon)[i] = a[i]
      /\ \A i \in 1 .. Due : (a \o soon)[Len(a) + i] = f[i]
  <2> HIDE DEF a, f
  <2>2. a \in Seq(EventT) /\ soon \in Seq(EventT)
    BY <1>3, <1>7
  <2>1. /\ Len(a \o soon) = Len(a) + Len(soon)
        /\ \A i \in 1 .. Len(a) : (a \o soon)[i] = a[i]
        /\ \A i \in 1 .. Len(soon) : (a \o soon)[Len(a) + i] = soon[i]
    BY <2>2, ConcatParts
  <2> QED BY <2>1, <1>7
<1>9. /\ queue'["FUTURE"] = late /\ queue'["ACTIVE"] = a \o soon
      /\ \A r \in AllRegions \ {"ACTIVE", "FUTURE"} : queue'[r] = queue[r]
  BY <1>1, <1>4, <1>5 DEF Queues
<1>10. queue' \in Queues
  BY StepLemma
<1>11. /\ Ranked(queue')
       /\ NumIn(queue'["ACTIVE"], Blockers, Len(queue'["ACTIVE"]))
            = NumIn(queue["ACTIVE"], Blockers, Len(queue["ACTIVE"])) + Due
  <2> DEFINE p == queue'
             d == Due
             x == "FUTURE"
             q == queue
  <2>1. q \in Queues /\ p \in Queues /\ d \in Nat /\ d <= Len(q[x])
        /\ x \in {"NBA", "FUTURE"} /\ x # "NBA" /\ Ranked(q)
    BY <1>1, <1>2, <1>3, <1>10
  <2>2. /\ Len(p["ACTIVE"]) = Len(q["ACTIVE"]) + d
        /\ \A i \in 1 .. Len(q["ACTIVE"]) : p["ACTIVE"][i] = q["ACTIVE"][i]
        /\ \A i \in 1 .. d : p["ACTIVE"][Len(q["ACTIVE"]) + i] = q[x][i]
    BY <1>8, <1>9
  <2>3. /\ Len(p[x]) = Len(q[x]) - d
        /\ \A i \in 1 .. Len(q[x]) - d : p[x][i] = q[x][d + i]
        /\ \A r \in AllRegions \ {"ACTIVE", x} : p[r] = q[r]
    BY <1>6, <1>9
  <2> HIDE DEF p, d, x, q
  <2>4. /\ Ranked(p)
        /\ NumIn(p["ACTIVE"], Blockers, Len(p["ACTIVE"]))
             = NumIn(q["ACTIVE"], Blockers, Len(q["ACTIVE"])) + (IF x = "NBA" THEN 0 ELSE d)
    BY <2>1, <2>2, <2>3, JoinOrder
  <2>5. NumIn(p["ACTIVE"], Blockers, Len(p["ACTIVE"])) = NumIn(q["ACTIVE"], Blockers, Len(q["ACTIVE"])) + d
    BY <2>1, <2>4
  <2> QED BY <2>4, <2>5 DEF p, q, d
<1>12. /\ size'["FUTURE"] = size["FUTURE"] - Due /\ size'["ACTIVE"] = size["ACTIVE"] + Due
       /\ \A r \in AllRegions \ {"FUTURE", "ACTIVE"} : size'[r] = size[r]
  BY <1>1, <1>4, <1>5
<1>13. \A r \in AllRegions : Agrees(queue, size, r)
  BY <1>4 DEF SizesInv
<1>14. ASSUME NEW r \in AllRegions PROVE Agrees(queue', size', r)
  <2>1. CASE r = "ACTIVE"
    BY <2>1, <1>4, <1>11, <1>12, <1>13 DEF Agrees
  <2>2. CASE r = "FUTURE"
    BY <2>2, <1>4, <1>6, <1>9, <1>12, <1>13 DEF Agrees
  <2>3. CASE r \notin {"ACTIVE", "FUTURE"}
    BY <2>3, <1>9, <1>12, <1>13 DEF Agrees
  <2> QED BY <2>1, <2>2, <2>3
<1> QED BY <1>11, <1>14 DEF SizesInv

(* ... and the non-blocking events go behind the ACTIVE ones without.      *)
LEMMA NonBlockingOrder ==
  ASSUME KernelInv, NonBlocking, Ranked(queue), SizesInv(queue, size, "NBA")
  PROVE  Ranked(queue') /\ SizesInv(queue', size', "MONITOR")
<1> DEFINE a == queue["ACTIVE"]
           b == queue["NBA"]
<1>1. queue \in Queues /\ size \in [AllRegions -> Nat]
  BY DEF KernelInv
<1>2. "ACTIVE" \in AllRegions /\ "NBA" \in AllRegions
  BY DEF AllRegions
<1>3. a \in Seq(EventT) /\ b \in Seq(EventT) /\ Len(a) \in Nat /\ Len(b) \in Nat
  BY <1>1, <1>2, LenProperties DEF Queues
<1>4. /\ Len(a \o b) = Len(a) + Len(b)
      /\ \A i \in 1 .. Len(a) : (a \o b)[i] = a[i]
      /\ \A i \in 1 .. Len(b) : (a \o b)[Len(a) + i] = b[i]
  <2> HIDE DEF a, b
  <2> QED BY <1>3, ConcatParts
<1>6. /\ queue' = [queue EXCEPT !["ACTIVE"] = a \o b, !["NBA"] = <<>>]
      /\ size' = [size EXCEPT !["NBA"] = 0]
  BY DEF NonBlocking, Promote
<1>7. /\ queue'["NBA"] = <<>> /\ queue'["ACTIVE"] = a \o b
      /\ \A r \in AllRegions \ {"ACTIVE", "NBA"} : queue'[r] = queue[r]
      /\ size'["NBA"] = 0 /\ \A r \in AllRegions \ {"NBA"} : size'[r] = size[r]
  BY <1>1, <1>2, <1>6 DEF Queues
<1>8. queue' \in Queues
  BY NonBlockingLemma DEF KernelInv
<1>9. /\ Ranked(queue')
      /\ NumIn(queue'["ACTIVE"], Blockers, Len(queue'["ACTIVE"]))
           = NumIn(queue["ACTIVE"], Blockers, Len(queue["ACTIVE"]))
  <2> DEFINE p == queue'
             d == Len(b)
             x == "NBA"
             q == queue
  <2>1. q \in Queues /\ p \in Queues /\ d \in Nat /\ d <= Len(q[x])
        /\ x \in {"NBA", "FUTURE"} /\ x = "NBA" /\ Ranked(q)
    BY <1>1, <1>3, <1>8
  <2>2. /\ Len(p["ACTIVE"]) = Len(q["ACTIVE"]) + d
        /\ \A i \in 1 .. Len(q["ACTIVE"]) : p["ACTIVE"][i] = q["ACTIVE"][i]
        /\ \A i \in 1 .. d : p["ACTIVE"][Len(q["ACTIVE"]) + i] = q[x][i]
    BY <1>4, <1>7
  <2>3. /\ Len(p[x]) = Len(q[x]) - d
        /\ \A i \in 1 .. Len(q[x]) - d : p[x][i] = q[x][d + i]
        /\ \A r \in AllRegions \ {"ACTIVE", x} : p[r] = q[r]
    BY <1>3, <1>7, EmptySeq
  <2>4. NumIn(q["ACTIVE"], Blockers, Len(q["ACTIVE"])) \in Nat
    <3> DEFINE s == q["ACTIVE"]
               n == Len(s)
    <3>1. n \in Nat
      BY <1>3
    <3> HIDE DEF s, n
    <3>2. NumIn(s, Blockers, n) \in Nat
      BY <3>1, NumType
    <3> QED BY <3>2 DEF s, n
  <2> HIDE DEF p, d, x, q
  <2>5. /\ Ranked(p)
        /\ NumIn(p["ACTIVE"], Blockers, Len(p["ACTIVE"]))
             = NumIn(q["ACTIVE"], Blockers, Len(q["ACTIVE"])) + (IF x = "NBA" THEN 0 ELSE d)
    BY <2>1, <2>2, <2>3, JoinOrder
  <2>6. NumIn(p["ACTIVE"], Blockers, Len(p["ACTIVE"])) = NumIn(q["ACTIVE"], Blockers, Len(q["ACTIVE"]))
    BY <2>1, <2>4, <2>5
  <2> QED BY <2>5, <2>6 DEF p, q
<1>10. ASSUME NEW r \in AllRegions PROVE Agrees(queue', size', r)
  <2>1. CASE r = "NBA"
    BY <2>1, <1>7 DEF Agrees
  <2>2. CASE r # "NBA"
    <3>1. Agrees(queue, size, r)
      BY <2>2 DEF SizesInv
    <3>2. CASE r = "ACTIVE"
      BY <3>1, <3>2, <1>7, <1>9 DEF Agrees
    <3>3. CASE r # "ACTIVE"
      BY <2>2, <3>1, <3>3, <1>7 DEF Agrees
    <3> QED BY <3>2, <3>3
  <2> QED BY <2>1, <2>2
<1> QED BY <1>9, <1>10 DEF SizesInv

(* A list holds no more events than all of them together.                  *)
LEMMA TotalBound ==
  ASSUME NEW q \in Queues
  PROVE  Total(q) \in Nat /\ \A r \in AllRegions : Len(q[r]) <= Total(q)
<1>1. \A r \in AllRegions : Len(q[r]) \in Nat
  BY QueueFacts
<1>2. /\ Len(q["ACTIVE"]) \in Nat /\ Len(q["INACTIVE"]) \in Nat /\ Len(q["NBA"]) \in Nat
      /\ Len(q["MONITOR"]) \in Nat /\ Len(q["FUTURE"]) \in Nat /\ Len(q["POSTPONED"]) \in Nat
  BY <1>1 DEF AllRegions
<1>3. PICK a \in Nat, b \in Nat, c \in Nat, d \in Nat, e \in Nat, f \in Nat :
           /\ a = Len(q["ACTIVE"]) /\ b = Len(q["INACTIVE"]) /\ c = Len(q["NBA"])
           /\ d = Len(q["MONITOR"]) /\ e = Len(q["FUTURE"]) /\ f = Len(q["POSTPONED"])
  BY <1>2, Zenon
<1>4. Total(q) = a + b + c + d + e + f
  BY <1>3 DEF Total
<1>5. Total(q) \in Nat /\ a <= Total(q) /\ b <= Total(q) /\ c <= Total(q)
      /\ d <= Total(q) /\ e <= Total(q) /\ f <= Total(q)
  BY <1>4
<1> QED BY <1>3, <1>5 DEF AllRegions

(* Between regions, and after one that was empty, all the sizes are right. *)
LEMMA AllAgree ==
  ASSUME NEW q, NEW n, NEW here, NEW there, SizesInv(q, n, here),
         here \notin AllRegions \/ ~ (n[here] > 0)
  PROVE  SizesInv(q, n, there) /\ \A r \in AllRegions : Agrees(q, n, r)
BY DEF SizesInv

ControlInv ==
  /\ until \in 0 .. MaxTime /\ time \in 0 .. until /\ delta \in 0 .. MaxDelta + 1
  /\ again \in BOOLEAN /\ running \in BOOLEAN
  /\ pc \in {"IDLE", "STEP", "EVAL"} \cup DOMAIN Passed
  /\ pc \notin {"IDLE", "STEP"} => delta <= MaxDelta /\ (running => time < until)
  /\ pc = "IDLE" => ~ running

OrderInv == ControlInv /\ Total(queue) <= MaxLive /\ Ranked(queue) /\ SizesInv(queue, size, pc)

LEMMA PassedFacts ==
  /\ DOMAIN Passed = Passes \cup {"NBA"}
  /\ \A r \in DOMAIN Passed : Passed[r] \in {"EVAL"} \cup DOMAIN Passed
BY DEF Passed, Passes

LEMMA ControlInit ==
  Init => ControlInv
<1>1. MaxTime \in Nat /\ MaxDelta \in Nat
  BY KernelAssumption
<1> SUFFICES ASSUME Init PROVE ControlInv
  OBVIOUS
<1>2. again \in BOOLEAN /\ running \in BOOLEAN /\ ~ running
  BY Zenon DEF Init
<1>3. time = 0 /\ until = 0 /\ delta = 0 /\ pc = "IDLE"
  BY DEF Init
<1>4. until \in 0 .. MaxTime /\ time \in 0 .. until /\ delta \in 0 .. MaxDelta + 1
  BY <1>1, <1>3
<1> QED BY <1>2, <1>3, <1>4 DEF ControlInv

(* Where the kernel is, and how far it may go.                             *)
LEMMA ControlStep ==
  ASSUME ControlInv, [Next]_vars
  PROVE  ControlInv'
<1>1. MaxTime \in Nat /\ MaxDelta \in Nat
  BY KernelAssumption
<1> DEFINE Places == {"IDLE", "STEP", "EVAL"} \cup DOMAIN Passed
<1>2. /\ "ACTIVE" \in DOMAIN Passed /\ "NBA" \in DOMAIN Passed
      /\ \A r \in DOMAIN Passed : Passed[r] \in {"EVAL"} \cup DOMAIN Passed
      /\ "IDLE" \notin DOMAIN Passed /\ "STEP" \notin DOMAIN Passed
      /\ Passes \subseteq DOMAIN Passed
  BY PassedFacts DEF Passes
<1>3. /\ until \in 0 .. MaxTime /\ time \in 0 .. until /\ delta \in 0 .. MaxDelta + 1
      /\ again \in BOOLEAN /\ running \in BOOLEAN
      /\ pc \in Places
      /\ pc \notin {"IDLE", "STEP"} => delta <= MaxDelta /\ (running => time < until)
      /\ pc = "IDLE" => ~ running
  BY DEF ControlInv
<1>4. CASE Schedule
  BY <1>3, <1>4 DEF Schedule, ControlInv
<1>5. CASE Run
  <2>1. until' \in 0 .. MaxTime /\ time' \in 0 .. until'
    BY <1>1, <1>3, <1>5 DEF Run
  <2> QED BY <2>1, <1>3, <1>5 DEF Run, ControlInv
<1>6. CASE ProcessDelta
  <2>1. pc' = "ACTIVE" /\ UNCHANGED <<time, until, running>> /\ delta' = 0 /\ pc = "IDLE"
    BY <1>6 DEF ProcessDelta
  <2>2. again' \in BOOLEAN
    BY <1>6, Zenon DEF ProcessDelta
  <2> QED BY <2>1, <2>2, <1>1, <1>2, <1>3 DEF ControlInv
<1>7. CASE Reset
  <2>1. time' \in 0 .. until' /\ until' \in 0 .. MaxTime /\ delta' \in 0 .. MaxDelta + 1
    BY <1>1, <1>3, <1>7 DEF Reset
  <2> QED BY <2>1, <1>3, <1>7 DEF Reset, ControlInv
<1>8. CASE Finish
  BY <1>3, <1>8 DEF Finish, ControlInv
<1>9. CASE Step
  <2>1. delta' = 0 /\ pc' = "ACTIVE" /\ UNCHANGED <<time, until, running>> /\ time < until
    BY <1>9 DEF Step
  <2>2. again' \in BOOLEAN
    BY <1>9, Zenon DEF Step
  <2> QED BY <2>1, <2>2, <1>1, <1>2, <1>3 DEF ControlInv
<1>10. ASSUME NEW r \in DOMAIN Passed, pc = r, pc' = r \/ pc' = Passed[r], again' \in BOOLEAN,
              UNCHANGED <<time, until, delta, running>>
       PROVE  ControlInv'
  <2>1. pc' \in {"EVAL"} \cup DOMAIN Passed /\ pc \notin {"IDLE", "STEP"}
    BY <1>2, <1>10
  <2>2. pc' \notin {"IDLE", "STEP"}
    BY <2>1, <1>2
  <2> QED BY <2>1, <2>2, <1>3, <1>10 DEF ControlInv
<1>11. CASE NonBlocking
  BY <1>2, <1>3, <1>10, <1>11 DEF NonBlocking
<1>12. CASE Skip("NBA") \/ \E r \in Passes : Skip(r)
  BY <1>2, <1>3, <1>10, <1>12 DEF Skip
<1>13. CASE \E r \in Passes : Execute(r)
  <2>1. PICK r \in Passes : Execute(r)
    BY <1>13
  <2>2. /\ pc = r /\ (pc' = r \/ pc' = Passed[r]) /\ again' \in BOOLEAN
        /\ UNCHANGED <<time, until, delta, running>>
    BY <2>1, <1>3 DEF Execute
  <2> QED BY <2>2, <1>2, <1>10
<1>14. CASE Eval
  <2>1. pc = "EVAL" /\ delta' = delta + 1 /\ until' = until /\ delta <= MaxDelta /\ (running => time < until)
    BY <1>3, <1>14 DEF Eval, Rounds
  <2>2. delta' \in 0 .. MaxDelta + 1
    BY <2>1, <1>1, <1>3
  <2>3. CASE Overflow /\ running' = FALSE /\ pc' = "IDLE" /\ UNCHANGED <<again, time>>
    BY <2>1, <2>2, <2>3, <1>3 DEF ControlInv
  <2>4. CASE ~ Overflow /\ pc' = "ACTIVE" /\ again' = FALSE /\ UNCHANGED <<running, time>>
    <3>1. delta' <= MaxDelta
      BY <2>1, <2>4, <1>1, <1>3 DEF Overflow, Rounds
    <3> QED BY <3>1, <2>1, <2>2, <2>4, <1>2, <1>3 DEF ControlInv
  <2>5. CASE /\ ~ Overflow /\ pc' = IF running THEN "STEP" ELSE "IDLE"
             /\ time' = IF running THEN time + 1 ELSE time
             /\ UNCHANGED <<again, running>>
    <3>1. time' \in 0 .. until'
      BY <2>1, <2>5, <1>1, <1>3
    <3> QED BY <3>1, <2>1, <2>2, <2>5, <1>3 DEF ControlInv
  <2> QED BY <2>3, <2>4, <2>5, <1>14 DEF Eval
<1>15. CASE UNCHANGED vars
  BY <1>3, <1>15 DEF vars, ControlInv
<1> QED BY <1>4, <1>5, <1>6, <1>7, <1>8, <1>9, <1>11, <1>12, <1>13, <1>14, <1>15 DEF Next, Kernel

(* An event executes, and its callback schedules into another region.      *)
LEMMA ExecuteOrder ==
  ASSUME ~ OwnRegion, KernelInv, OrderInv, NEW r \in Passes, Execute(r)
  PROVE  Total(queue') <= MaxLive /\ Ranked(queue') /\ SizesInv(queue', size', pc')
<1>1. PICK c \in Reentrant(r) :
        LET q == Linked(Without(queue, r), c)
            n == Counted(size, c)
        IN IF Tail(queue[r]) = <<>>
           THEN /\ queue' = [q EXCEPT ![r] = <<>>] /\ size' = [n EXCEPT ![r] = 0]
                /\ pc' = Passed[r]
           ELSE queue' = q /\ size' = n /\ pc' = pc
  BY DEF Execute
<1> DEFINE W == Without(queue, r)
           q == Linked(W, c)
           n == Counted(size, c)
           tail == Tail(queue[r])
<1>2. size[r] > 0 /\ pc = r
  BY DEF Execute
<1>3. c \in Calls \cup {NoCall} /\ c.region # r
  <2>1. NoCall.region # r
    BY DEF NoCall, Passes
  <2> QED BY <2>1 DEF Reentrant
<1>4. /\ queue \in Queues /\ size \in [AllRegions -> Nat] /\ time \in Nat
      /\ NoneBeyond(queue, time) /\ SizesHonest(queue, size, AllRegions)
  BY DEF KernelInv
<1>5. r \in AllRegions /\ r \in AllRegions \ {"FUTURE"}
  BY DEF Passes, AllRegions
<1>6. Len(queue[r]) > 0
  BY <1>2, <1>4, <1>5 DEF SizesHonest
<1>7. /\ W \in Queues /\ Total(W) = Total(queue) - 1
      /\ Len(W[r]) = Len(queue[r]) - 1
      /\ Ranked(W) /\ SizesInv(W, size, r)
  <2>1. Ranked(queue) /\ SizesInv(queue, size, r)
    BY <1>2 DEF OrderInv
  <2>2. Ranked(W) /\ SizesInv(W, size, r)
    BY <2>1, <1>2, <1>4, <1>6, WithoutOrder
  <2> QED BY <2>2, <1>4, <1>5, <1>6, WithoutLemma
<1>8. /\ q \in Queues /\ n \in [AllRegions -> Nat]
      /\ Total(q) = IF c = NoCall THEN Total(queue) - 1 ELSE Total(queue)
      /\ Len(q[r]) = Len(queue[r]) - 1
  BY <1>2, <1>3, AfterLemma
<1>9. Total(queue) \in Nat /\ Total(queue) <= MaxLive /\ MaxLive \in Nat
  BY <1>4, TotalBound, KernelAssumption DEF OrderInv
<1> HIDE DEF W
<1>10. Ranked(q) /\ SizesInv(q, n, r) /\ n[r] = size[r]
  <2>1. CASE c = NoCall
    BY <2>1, <1>7 DEF Linked, Counted
  <2>2. CASE c \in Calls
    <3>1. Total(W) \in Nat /\ \A s \in AllRegions : Len(W[s]) <= Total(W) /\ Len(W[s]) \in Nat
      BY <1>7, TotalBound, QueueFacts
    <3>2. \A s \in AllRegions : Len(W[s]) <= MaxLive
      BY <3>1, <1>7, <1>9
    <3>3. Ranked(q) /\ SizesInv(q, n, r)
      BY <2>2, <3>2, <1>3, <1>4, <1>7, LinkedOrder
    <3>4. n[r] = size[r]
      BY <2>2, <1>3, <1>4, <1>5, CallsLemma DEF Counted
    <3> QED BY <3>3, <3>4
  <2> QED BY <2>1, <2>2, <1>3
<1>11. /\ tail = <<>> => /\ queue' = [q EXCEPT ![r] = <<>>] /\ size' = [n EXCEPT ![r] = 0]
       /\ tail # <<>> => queue' = q /\ size' = n /\ pc' = pc
  BY <1>1 DEF W
<1>12. queue[r] \in Seq(EventT) /\ q[r] \in Seq(EventT)
  BY <1>4, <1>5, <1>8 DEF Queues
<1>13. tail = <<>> => Len(q[r]) = 0
  <2>1. Len(tail) = Len(queue[r]) - 1
    BY <1>6, <1>12, HeadTailProperties, EmptySeq
  <2> HIDE DEF tail
  <2> QED BY <2>1, <1>8, EmptySeq
<1> HIDE DEF q, n, tail
<1>14. queue' = q
  <2>1. CASE tail = <<>>
    <3>1. q[r] = <<>>
      BY <2>1, <1>12, <1>13
    <3>2. [q EXCEPT ![r] = <<>>] = q
      BY <3>1, <1>5, <1>8 DEF Queues
    <3> QED BY <2>1, <3>2, <1>11
  <2>2. CASE tail # <<>>
    BY <2>2, <1>11
  <2> QED BY <2>1, <2>2
<1>15. Total(queue') <= MaxLive
  BY <1>8, <1>9, <1>14
<1>16. SizesInv(queue', size', pc')
  <2>1. CASE tail # <<>>
    BY <2>1, <1>2, <1>10, <1>11
  <2>2. CASE tail = <<>>
    <3>1. q[r] = <<>> /\ size' = [n EXCEPT ![r] = 0] /\ Len(q[r]) = 0
      BY <2>2, <1>11, <1>12, <1>13
    <3>2. size'[r] = 0 /\ \A s \in AllRegions \ {r} : size'[s] = n[s]
      BY <3>1, <1>5, <1>8
    <3>3. Agrees(q, size', r)
      <4>1. NumIn(q[r], Blockers, 0) = 0
        BY NumType
      <4> QED BY <4>1, <3>1, <3>2 DEF Agrees
    <3>4. \A s \in AllRegions \ {r} : Agrees(q, size', s)
      BY <3>2, <1>10 DEF SizesInv, Agrees
    <3> QED BY <3>3, <3>4, <1>14 DEF SizesInv
  <2> QED BY <2>1, <2>2
<1> QED BY <1>10, <1>14, <1>15, <1>16

LEMMA NoneTotal ==
  ASSUME NEW q, \A r \in AllRegions : Len(q[r]) = 0
  PROVE  Total(q) = 0
<1>1. /\ Len(q["ACTIVE"]) = 0 /\ Len(q["INACTIVE"]) = 0 /\ Len(q["NBA"]) = 0
      /\ Len(q["MONITOR"]) = 0 /\ Len(q["FUTURE"]) = 0 /\ Len(q["POSTPONED"]) = 0
  BY DEF AllRegions
<1> QED BY <1>1 DEF Total

LEMMA OrderInit ==
  Init => OrderInv
<1> SUFFICES ASSUME Init PROVE OrderInv
  OBVIOUS
<1>1. queue = [r \in AllRegions |-> <<>>] /\ size = [r \in AllRegions |-> 0]
  BY DEF Init
<1>2. \A r \in AllRegions : queue[r] = <<>> /\ Len(queue[r]) = 0 /\ size[r] = 0
  BY <1>1, EmptySeq
<1>3. "ACTIVE" \in AllRegions
  BY DEF AllRegions
<1>4. Total(queue) <= MaxLive
  <2>1. \A r \in AllRegions : Len(queue[r]) = 0
    BY <1>2
  <2>2. Total(queue) = 0
    BY <2>1, NoneTotal
  <2> QED BY <2>2, KernelAssumption
<1>5. Ranked(queue)
  BY <1>2, <1>3 DEF Ranked, Homes, Ranks
<1>6. SizesInv(queue, size, pc)
  <2>1. NumIn(queue["ACTIVE"], Blockers, 0) = 0
    BY NumType
  <2> QED BY <2>1, <1>2, <1>3 DEF SizesInv, Agrees
<1> QED BY <1>4, <1>5, <1>6, ControlInit DEF OrderInv

(* A caller, or the evaluation of the DUT, schedules at most one event.    *)
LEMMA ScheduleOrder ==
  ASSUME KernelInv, OrderInv, pc \notin AllRegions, NEW c \in Room \cup {NoCall},
         queue' = Linked(queue, c), size' = Counted(size, c)
  PROVE  Total(queue') <= MaxLive /\ Ranked(queue') /\ SizesInv(queue', size', pc')
<1>1. /\ queue \in Queues /\ size \in [AllRegions -> Nat] /\ time \in Nat
      /\ NoneBeyond(queue, time) /\ SizesHonest(queue, size, AllRegions)
      /\ Total(queue) <= MaxLive /\ Ranked(queue) /\ SizesInv(queue, size, pc)
  BY DEF KernelInv, OrderInv
<1>2. Total(queue) \in Nat /\ MaxLive \in Nat /\ \A r \in AllRegions : Len(queue[r]) <= Total(queue)
                                                                      /\ Len(queue[r]) \in Nat
  BY <1>1, TotalBound, KernelAssumption, QueueFacts
<1>3. CASE c = NoCall
  BY <1>1, <1>3, AllAgree DEF Linked, Counted
<1>4. CASE c \in Room /\ c # NoCall
  <2>1. c \in Calls /\ Total(queue) < MaxLive
    BY <1>4 DEF Room
  <2>2. c.region \in AllRegions /\ pc # c.region
    BY <2>1, CallsLemma
  <2>3. \A r \in AllRegions : Len(queue[r]) <= MaxLive
    BY <1>2, <2>1
  <2>4. Ranked(queue') /\ SizesInv(queue', size', pc)
    BY <2>1, <2>2, <2>3, <1>1, LinkedOrder
  <2>5. Total(queue') = Total(queue) + 1
    <3>1. AllRegions \in SUBSET AllRegions
      OBVIOUS
    <3> QED BY <3>1, <2>1, <1>1, LinkedLemma
  <2>6. Total(queue') <= MaxLive
    BY <2>1, <2>5, <1>2
  <2> QED BY <2>4, <2>6, AllAgree
<1> QED BY <1>3, <1>4

LEMMA OrderStep ==
  ASSUME ~ OwnRegion, KernelInv, OrderInv, [Next]_vars
  PROVE  OrderInv'
<1>1. ControlInv'
  BY ControlStep DEF OrderInv
<1>2. Total(queue) <= MaxLive /\ Ranked(queue) /\ SizesInv(queue, size, pc)
  BY DEF OrderInv
<1>3. "IDLE" \notin AllRegions /\ "STEP" \notin AllRegions /\ "EVAL" \notin AllRegions
      /\ "NBA" \in AllRegions /\ Passes \subseteq AllRegions /\ "ACTIVE" \in AllRegions
  BY DEF AllRegions, Passes
<1> SUFFICES Total(queue') <= MaxLive /\ Ranked(queue') /\ SizesInv(queue', size', pc')
  BY <1>1 DEF OrderInv
<1>4. ASSUME UNCHANGED <<queue, size>>, pc' = pc \/ pc \notin AllRegions \/ ~ (size[pc] > 0)
      PROVE  Total(queue') <= MaxLive /\ Ranked(queue') /\ SizesInv(queue', size', pc')
  <2>1. SizesInv(queue, size, pc')
    BY <1>2, <1>4, AllAgree
  <2> QED BY <2>1, <1>2, <1>4
<1>5. CASE Schedule
  <2>1. PICK c \in Room : queue' = Linked(queue, c) /\ size' = Counted(size, c)
    BY <1>5 DEF Schedule
  <2>2. c \in Room \cup {NoCall} /\ pc \notin AllRegions
    BY <1>3, <1>5 DEF Schedule
  <2> QED BY <2>1, <2>2, ScheduleOrder
<1>6. CASE Eval
  <2>1. PICK c \in Room \cup {NoCall} : queue' = Linked(queue, c) /\ size' = Counted(size, c)
    BY <1>6 DEF Eval
  <2>2. pc \notin AllRegions
    BY <1>3, <1>6 DEF Eval
  <2> QED BY <2>1, <2>2, ScheduleOrder
<1>7. CASE Run \/ ProcessDelta \/ Finish \/ UNCHANGED vars
  BY <1>3, <1>4, <1>7 DEF Run, ProcessDelta, Finish, vars
<1>8. CASE Skip("NBA") \/ \E r \in Passes : Skip(r)
  BY <1>3, <1>4, <1>8 DEF Skip
<1>9. CASE Reset
  <2>1. queue' = [r \in AllRegions |-> <<>>] /\ size' = [r \in AllRegions |-> 0]
    BY <1>9 DEF Reset
  <2>2. \A r \in AllRegions : queue'[r] = <<>> /\ Len(queue'[r]) = 0 /\ size'[r] = 0
    BY <2>1, EmptySeq
  <2>3. Total(queue') <= MaxLive
    <3>1. \A r \in AllRegions : Len(queue'[r]) = 0
      BY <2>2
    <3>2. Total(queue') = 0
      BY <3>1, NoneTotal
    <3> QED BY <3>2, KernelAssumption
  <2>4. Ranked(queue')
    BY <2>2, <1>3 DEF Ranked, Homes, Ranks
  <2>5. NumIn(queue'["ACTIVE"], Blockers, 0) = 0
    BY NumType
  <2>6. SizesInv(queue', size', pc')
    BY <2>2, <2>5, <1>3 DEF SizesInv, Agrees
  <2> QED BY <2>3, <2>4, <2>6
<1>10. CASE Step
  <2>1. pc = "STEP" /\ pc' = "ACTIVE"
    BY <1>10 DEF Step
  <2>2. Ranked(queue') /\ SizesInv(queue', size', pc')
    BY <2>1, <1>2, <1>10, StepOrder
  <2> QED BY <2>2, <1>2, <1>10, StepLemma
<1>11. CASE NonBlocking
  <2>1. pc = "NBA" /\ pc' = "MONITOR"
    BY <1>11 DEF NonBlocking, Passed
  <2>2. Ranked(queue') /\ SizesInv(queue', size', pc')
    BY <2>1, <1>2, <1>11, NonBlockingOrder
  <2> QED BY <2>2, <1>2, <1>11, NonBlockingLemma
<1>12. CASE \E r \in Passes : Execute(r)
  BY <1>12, ExecuteOrder
<1> QED BY <1>5, <1>6, <1>7, <1>8, <1>9, <1>10, <1>11, <1>12 DEF Next, Kernel

(* The order in which events of a region execute, on the lists alone.      *)
LEMMA FirstInOrder ==
  ASSUME KernelInv, OrderInv, NEW r \in Passes, size[r] > 0
  PROVE  Head(queue[r]).ahead = 0
<1> DEFINE a == queue["ACTIVE"]
<1>1. r \in AllRegions /\ "ACTIVE" \in AllRegions /\ r \notin {"NBA", "FUTURE"}
  BY DEF Passes, AllRegions
<1>2. queue \in Queues /\ Len(queue[r]) > 0 /\ Ranked(queue)
  BY <1>1 DEF KernelInv, SizesHonest, OrderInv
<1>3. \A s \in AllRegions : queue[s] \in Seq(EventT) /\ Len(queue[s]) \in Nat
  BY <1>2, QueueFacts
<1>4. Head(queue[r]) = queue[r][1] /\ 1 \in 1 .. Len(queue[r])
  BY <1>1, <1>2, <1>3
<1>5. CASE r = "ACTIVE"
  <2>1. a[1].ahead = NumIn(a, {a[1].home}, 1 - 1)
    BY <1>2, <1>4, <1>5 DEF Ranked, Ranks
  <2>2. NumIn(a, {a[1].home}, 0) = 0
    BY NumType
  <2> QED BY <2>1, <2>2, <1>4, <1>5
<1>6. CASE r # "ACTIVE"
  <2>1. queue[r][1].ahead = Before(queue, r) + 1 - 1
    BY <1>1, <1>2, <1>4, <1>6 DEF Ranked, Ranks
  <2>2. {i \in 1 .. Len(a) : a[i].home \in {r}} = {}
    BY <1>1, <1>2, <1>6 DEF Ranked, Homes
  <2>3. Before(queue, r) = 0
    BY <2>2, FS_EmptySet DEF Before, NumIn
  <2> QED BY <2>1, <2>3, <1>4
<1> QED BY <1>5, <1>6

(* Each turn of the loop brings in all the events that are due.            *)
LEMMA AllBroughtIn ==
  ASSUME KernelInv, Step, Sorted(queue["FUTURE"])
  PROVE  \A i \in DOMAIN queue'["FUTURE"] : queue'["FUTURE"][i].due > time
<1> DEFINE f == queue["FUTURE"]
           late == SubSeq(f, Due + 1, Len(f))
<1>1. queue \in Queues /\ time \in Nat /\ "FUTURE" \in AllRegions /\ "FUTURE" # "ACTIVE"
  BY DEF KernelInv, AllRegions
<1>2. Due \in 0 .. Len(f) /\ (Due < Len(f) => f[Due + 1].due > time)
  BY <1>1, DueLemma
<1>3. f \in Seq(EventT) /\ Len(f) \in Nat /\ DOMAIN f = 1 .. Len(f)
      /\ \A i \in 1 .. Len(f) : f[i].due \in Nat
  BY <1>1, QueueFacts
<1>4. queue'["FUTURE"] = late
  BY <1>1 DEF Step, Queues
<1>5. /\ late \in Seq(EventT) /\ Len(late) = Len(f) - Due
      /\ \A i \in 1 .. Len(f) - Due : late[i] = f[Due + i]
  BY <1>2, <1>3, SubSeqProperties
<1> HIDE DEF late
<1> SUFFICES ASSUME NEW i \in DOMAIN late PROVE late[i].due > time
  BY <1>4
<1>6. i \in 1 .. Len(f) - Due
  BY <1>5, LenProperties
<1> DEFINE l == Len(f)
           d == Due
<1>7. Due < Len(f) /\ Due + 1 \in DOMAIN f /\ Due + i \in DOMAIN f /\ (i = 1 \/ Due + 1 < Due + i)
  <2>1. l \in Nat /\ d \in 0 .. l /\ i \in 1 .. l - d
    BY <1>2, <1>3, <1>6
  <2> HIDE DEF l, d
  <2>2. d < l /\ d + 1 \in 1 .. l /\ d + i \in 1 .. l /\ (i = 1 \/ d + 1 < d + i)
    BY <2>1
  <2> QED BY <2>2, <1>3 DEF l, d
<1>8. f[Due + 1].due <= f[Due + i].due
  <2>1. CASE i = 1
    BY <2>1, <1>3, <1>7
  <2>2. CASE Due + 1 < Due + i
    BY <2>2, <1>7 DEF Sorted
  <2> QED BY <2>1, <2>2, <1>7
<1>9. f[Due + 1].due \in Nat /\ f[Due + i].due \in Nat /\ f[Due + 1].due > time
  BY <1>2, <1>3, <1>7
<1>10. late[i] = f[Due + i]
  BY <1>5, <1>6
<1> QED BY <1>1, <1>8, <1>9, <1>10

LEMMA SizesFollow ==
  ASSUME KernelInv, OrderInv
  PROVE  SizesAgree
<1> SUFFICES ASSUME pc \in {"IDLE", "STEP", "EVAL"}, NEW r \in AllRegions
             PROVE size[r] = IF r = "ACTIVE" THEN Cardinality(Blocking(queue[r])) ELSE Len(queue[r])
  BY DEF SizesAgree
<1>1. pc \notin AllRegions
  BY DEF AllRegions
<1>2. Agrees(queue, size, r)
  BY <1>1 DEF OrderInv, SizesInv
<1>3. Blocking(queue[r]) = {i \in 1 .. Len(queue[r]) : queue[r][i].home \in Blockers}
  BY QueueFacts DEF KernelInv, Blocking, Blockers
<1> QED BY <1>2, <1>3 DEF Agrees, NumIn

LEMMA TypesFollow ==
  ASSUME KernelInv, AccountInv, OrderInv
  PROVE  TypeOK
<1>1. queue \in Queues /\ size \in [AllRegions -> Nat] /\ "ACTIVE" \in AllRegions
  BY DEF KernelInv, AllRegions
<1>2. DOMAIN queue = AllRegions
  BY <1>1 DEF Queues
<1>3. owed \in Nat
  BY <1>1, TotalBound DEF AccountInv
<1>4. ASSUME NEW r \in AllRegions, NEW i \in DOMAIN queue[r]
      PROVE  queue[r][i] \in Events
  <2>1. queue[r] \in Seq(EventT) /\ i \in 1 .. Len(queue[r]) /\ Len(queue[r]) \in Nat
        /\ Len(queue["ACTIVE"]) \in Nat
    BY <1>1, QueueFacts
  <2>2. queue[r][i] \in EventT
    BY <2>1, ElementOfSeq
  <2>3. queue[r][i].ahead \in Nat
    <3>1. CASE r = "ACTIVE"
      <4>1. queue[r][i].ahead = NumIn(queue["ACTIVE"], {queue[r][i].home}, i - 1) /\ i - 1 \in Nat
        BY <2>1, <3>1 DEF OrderInv, Ranked, Ranks
      <4> QED BY <4>1, NumType
    <3>2. CASE r # "ACTIVE"
      <4>1. queue[r][i].ahead = Before(queue, r) + i - 1
        BY <2>1, <3>2 DEF OrderInv, Ranked, Ranks
      <4>2. Before(queue, r) \in Nat
        BY <2>1, NumType DEF Before
      <4> QED BY <4>1, <4>2, <2>1
    <3> QED BY <3>1, <3>2
  <2> QED BY <2>2, <2>3 DEF EventT, Events
<1>5. /\ time \in 0 .. until /\ until \in 0 .. MaxTime /\ delta \in 0 .. MaxDelta + 1
      /\ again \in BOOLEAN /\ running \in BOOLEAN
      /\ pc \in {"IDLE", "STEP", "EVAL"} \cup DOMAIN Passed
  BY DEF OrderInv, ControlInv
<1> QED BY <1>1, <1>2, <1>3, <1>4, <1>5 DEF TypeOK

(* As long as no callback schedules into the region that is processed, the *)
(* events of every region execute in the order they were scheduled, each   *)
(* turn of the loop brings in all that are due, and the sizes agree with   *)
(* the lists between delta cycles (sim_process_region, hv_sim_run).        *)
THEOREM ListsInOrder == ~ OwnRegion => (Spec => ListsSound)
<1> SUFFICES ASSUME ~ OwnRegion PROVE Spec => ListsSound
  OBVIOUS
<1>1. Init => KernelInv /\ AccountInv /\ OrderInv
  BY ResetLemma, OrderInit DEF Init
<1>2. KernelInv /\ AccountInv /\ OrderInv /\ [Next]_vars => (KernelInv /\ AccountInv /\ OrderInv)'
  BY KernelStep, OrderStep
<1>3. KernelInv /\ OrderInv /\ [Next]_vars
        => [\A r \in Passes : Execute(r) => Head(queue[r]).ahead = 0]_vars
  BY FirstInOrder DEF Execute
<1>4. KernelInv /\ [Next]_vars
        => [Step /\ Sorted(queue["FUTURE"])
              => \A i \in DOMAIN queue'["FUTURE"] : queue'["FUTURE"][i].due > time]_vars
  BY AllBroughtIn
<1>5. KernelInv /\ AccountInv /\ OrderInv => SizesAgree /\ TypeOK
  BY SizesFollow, TypesFollow
<1>6. Spec => [](KernelInv /\ AccountInv /\ OrderInv)
  BY <1>1, <1>2, PTL DEF Spec
<1>7. Spec => InOrder
  BY <1>3, <1>6, PTL DEF Spec, InOrder
<1>8. Spec => OnTime
  BY <1>4, <1>6, PTL DEF Spec, OnTime
<1>9. Spec => []SizesAgree /\ []TypeOK
  BY <1>5, <1>6, PTL
<1> QED BY <1>7, <1>8, <1>9 DEF ListsSound
=============================================================================
