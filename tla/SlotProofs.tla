----------------------------- MODULE SlotProofs -----------------------------
(***************************************************************************)
(* The same for the schedulers with slots, and then for all schedulers.    *)
(***************************************************************************)
EXTENDS SchedulerProofs

\* The running task is in the slot the scheduler has counted to, in a cycle its
\* parameters allow.
TtccFits(s, r) == r # NoTask => CcTable.slotOf[r] = s.slot /\ Ttcc!allowed(s, r)

\* The time to the end of the slot the clock is in.
TdmaRest(s) == Tdma!offsets[Tdma!current(s) + 1] - s.clock

\* The running task is in the slot of the static segment that has been counted to, in
\* a cycle its parameters allow, or both are in the dynamic segment.
FlexRayFits(s, r) ==
  r # NoTask => \/ /\ FrameTable.slotOf[r] = s.slot /\ s.slot \in 1..Len(FrameTable.slots)
                   /\ FlexRay!allowed(s, r)
                \/ FrameTable.slotOf[r] > Len(FrameTable.slots) /\ s.slot > Len(FrameTable.slots)

-----------------------------------------------------------------------------
(* TDMAScheduler *)

\* The schedulers with slots have a queue for the slot of each task instance.
LEMMA TableSlots ==
  ASSUME SchedulerAssumption
  PROVE  /\ TdmaTable.slotOf \in [Job -> DOMAIN TdmaTable.slots]
         /\ CcTable.slotOf \in [Job -> DOMAIN CcTable.slots]
         /\ FrameTable.slotOf \in [Job -> FrameSlots]
<1>1. /\ TdmaTable.slotOf \in [Job -> Nat]
      /\ CcTable.slotOf \in [Job -> Nat]
      /\ FrameTable.slotOf \in [Job -> Nat]
  BY DEF SchedulerAssumption, Tdma!SlotsAssumption, Ttcc!SlotsAssumption,
         FlexRay!SlotsAssumption
<1>2. /\ Range(TdmaTable.slotOf) \subseteq DOMAIN TdmaTable.slots
      /\ Range(CcTable.slotOf) \subseteq DOMAIN CcTable.slots
      /\ Range(FrameTable.slotOf) \subseteq FrameSlots
  BY DEF SchedulerAssumption, FrameSlots
<1>3. ASSUME NEW f \in [Job -> Nat], NEW D, Range(f) \subseteq D
      PROVE  f \in [Job -> D]
  BY <1>3 DEF Range
<1> QED  BY <1>1, <1>2, <1>3

\* The queues of all slots are empty when there is no instance, and only then.
LEMMA SortedNone ==
  ASSUME NEW D, NEW key \in [Job -> D], NEW f, NEW S, S \subseteq Job, Sorted(f, key, D, S)
  PROVE  (\A i \in D : f[i] = <<>>) <=> S = {}
<1> DEFINE of(i) == {k \in S : key[k] = i}
<1>1. \A i \in D : f[i] = <<>> <=> of(i) = {}
  BY ListsNone DEF Sorted
<1>2. (\A i \in D : of(i) = {}) <=> S = {}
  OBVIOUS
<1> HIDE DEF of
<1> QED  BY <1>1, <1>2

\* Instantiating the module does not change what is shown for its operators.
LEMMA TdmaWithout ==
  /\ \A q, j : Tdma!without(q, j) = RemoveFirst(q, j)
  /\ \A L : Tdma!startsOf(L) = startsOf(L)
  BY DEF Tdma!without, Tdma!RemoveFirst, Tdma!SelectInSeq, Tdma!Min, Tdma!RemoveAt,
         RemoveFirst, SelectInSeq, Min, RemoveAt, Tdma!startsOf, startsOf

\* The slots of TDMAScheduler start one after the other, and a cycle takes time.
LEMMA TdmaOffsets ==
  ASSUME SchedulerAssumption
  PROVE  /\ Len(TdmaTable.slots) \in Nat \ {0}
         /\ DOMAIN TdmaTable.slots = 1..Len(TdmaTable.slots)
         /\ Tdma!offsets \in [1..(Len(TdmaTable.slots) + 1) -> Nat]
         /\ Tdma!offsets[1] = 0
         /\ Tdma!lastOffset \in Nat \ {0}
<1> DEFINE L == TdmaTable.slots
<1>1. L \in Seq(Nat \ {0}) /\ L # <<>>
  BY DEF SchedulerAssumption, Tdma!SlotsAssumption
<1>2. Tdma!offsets = startsOf(L)
  BY TdmaWithout DEF Tdma!offsets
<1>3. /\ startsOf(L) \in [1..(Len(L) + 1) -> Nat] /\ startsOf(L)[1] = 0
      /\ \A i \in 1..Len(L) : startsOf(L)[i + 1] = startsOf(L)[i] + L[i]
  BY <1>1, Starts
<1> HIDE DEF L
<1>4. Len(L) \in Nat \ {0} /\ Len(L) \in 1..Len(L) /\ L[Len(L)] \in Nat \ {0}
      /\ DOMAIN L = 1..Len(L)
  BY <1>1
<1>5. startsOf(L)[Len(L) + 1] \in Nat \ {0}
  BY <1>3, <1>4
<1> QED  BY <1>2, <1>3, <1>4, <1>5 DEF L, Tdma!lastOffset

\* The clock is in one of the slots.
LEMMA TdmaCurrent ==
  ASSUME SchedulerAssumption, NEW s \in Tdma!State
  PROVE  /\ Tdma!current(s) \in DOMAIN TdmaTable.slots
         /\ Tdma!offsets[Tdma!current(s)] <= s.clock
         /\ Tdma!offsets[Tdma!current(s) + 1] - s.clock \in Nat
<1> DEFINE N == Len(TdmaTable.slots)
           o == Tdma!offsets
           I == {i \in 1..N : s.clock < o[i + 1]}
<1>1. N \in Nat \ {0} /\ o \in [1..(N + 1) -> Nat] /\ o[1] = 0
      /\ DOMAIN TdmaTable.slots = 1..N
  BY TdmaOffsets
<1>2. s.clock \in Nat /\ s.clock < o[N + 1]
  <2>1. s.clock \in 0..(Tdma!lastOffset - 1) /\ Tdma!lastOffset = o[N + 1]
    BY DEF Tdma!State, Tdma!lastOffset
  <2>2. Tdma!lastOffset \in Nat \ {0}
    BY TdmaOffsets
  <2> HIDE DEF o
  <2> QED  BY <2>1, <2>2
<1> HIDE DEF N, o
<1>3. N \in I
  BY <1>1, <1>2
<1>4. PICK i \in I : \A k \in I : i <= k
  <2>1. I \subseteq Nat
    OBVIOUS
  <2> HIDE DEF I
  <2> QED  BY <1>3, <2>1, LeastNat
<1>5. o[i] <= s.clock
  <2>1. CASE i = 1
    BY <1>1, <1>2, <2>1
  <2>2. CASE i # 1
    <3>1. i - 1 \in 1..N /\ i - 1 \notin I /\ i - 1 + 1 = i
      BY <1>1, <1>4, <2>2
    <3>2. o[i] \in Nat
      BY <1>1, <1>4
    <3> QED  BY <1>2, <3>1, <3>2
  <2> QED  BY <2>1, <2>2
<1>6. \E k \in 1..N : o[k] <= s.clock /\ s.clock < o[k + 1]
  BY <1>5
<1>7. /\ Tdma!current(s) \in 1..N
      /\ o[Tdma!current(s)] <= s.clock /\ s.clock < o[Tdma!current(s) + 1]
  BY <1>1, <1>6 DEF Tdma!current, o
<1>8. o[Tdma!current(s) + 1] \in Nat
  BY <1>1, <1>7
<1> QED  BY <1>1, <1>2, <1>7, <1>8 DEF o

\* A later slot starts later.
LEMMA TdmaOrdered ==
  ASSUME SchedulerAssumption,
         NEW i \in 1..(Len(TdmaTable.slots) + 1), NEW k \in i..(Len(TdmaTable.slots) + 1)
  PROVE  Tdma!offsets[i] <= Tdma!offsets[k]
<1> DEFINE L == TdmaTable.slots
           N == Len(L)
           o == Tdma!offsets
           B == {n \in i..(N + 1) : o[n] < o[i]}
<1>1. N \in Nat /\ o \in [1..(N + 1) -> Nat]
  BY TdmaOffsets
<1>2. ASSUME NEW n \in 1..N
      PROVE  o[n] <= o[n + 1]
  <2>1. L \in Seq(Nat \ {0}) /\ o = startsOf(L)
    BY TdmaWithout DEF SchedulerAssumption, Tdma!SlotsAssumption, Tdma!offsets
  <2>2. o[n + 1] = o[n] + L[n]
    BY <2>1, Starts
  <2>3. L[n] \in Nat
    BY <2>1
  <2>4. o[n] \in Nat
    BY <1>1
  <2> HIDE DEF o, L
  <2> QED  BY <2>2, <2>3, <2>4
<1> HIDE DEF o, N
<1>3. B = {}
  <2>1. SUFFICES ASSUME B # {}
                 PROVE  FALSE
    OBVIOUS
  <2>2. B \subseteq Nat
    BY DEF N
  <2> HIDE DEF B
  <2>3. PICK n \in B : \A m \in B : n <= m
    BY <2>1, <2>2, LeastNat
  <2>4. i \in 1..(N + 1) /\ n \in i..(N + 1) /\ o[n] < o[i] /\ n # i
    BY <1>1, <2>3 DEF B, N
  <2>5. n - 1 \in i..(N + 1) /\ n - 1 \in 1..N /\ n - 1 \notin B /\ n - 1 + 1 = n
    BY <1>1, <2>2, <2>3, <2>4
  <2>6. o[i] <= o[n - 1] /\ o[n - 1] <= o[n]
    BY <1>1, <1>2, <2>4, <2>5 DEF B
  <2>7. o[i] \in Nat /\ o[n - 1] \in Nat /\ o[n] \in Nat
    BY <1>1, <2>4, <2>5
  <2> QED  BY <2>4, <2>6, <2>7
<1>4. k \notin B /\ k \in i..(N + 1) /\ o[i] \in Nat /\ o[k] \in Nat
  BY <1>1, <1>3 DEF N
<1> QED  BY <1>4 DEF o

\* Within a slot, time that passes is taken from its rest.
LEMMA TdmaElapsed ==
  ASSUME SchedulerAssumption, NEW s \in Tdma!State, TdmaRest(s) > 1
  PROVE  /\ Tdma!current(Tdma!elapsed(s)) = Tdma!current(s)
         /\ TdmaRest(Tdma!elapsed(s)) = TdmaRest(s) - 1
         /\ \A r : Tdma!slotRespected(s, r) => Tdma!slotRespected(Tdma!elapsed(s), r)
<1> DEFINE N == Len(TdmaTable.slots)
           o == Tdma!offsets
           e == Tdma!elapsed(s)
           i == Tdma!current(s)
           k == Tdma!current(e)
<1>1. /\ N \in Nat \ {0} /\ DOMAIN TdmaTable.slots = 1..N
      /\ o \in [1..(N + 1) -> Nat] /\ Tdma!lastOffset = o[N + 1]
  BY TdmaOffsets DEF Tdma!lastOffset
<1>2. i \in 1..N /\ o[i] <= s.clock /\ s.clock + 1 < o[i + 1] /\ s.clock \in Nat
  <2>1. s.clock \in Nat
    <3>1. s.clock \in 0..(Tdma!lastOffset - 1)
      BY DEF Tdma!State
    <3> QED  BY <3>1
  <2>3. i \in 1..N /\ o[i] <= s.clock
    BY <1>1, TdmaCurrent
  <2>2. o[i + 1] - s.clock > 1 /\ o[i + 1] \in Nat
    BY <1>1, <2>3 DEF TdmaRest
  <2> HIDE DEF o, i
  <2> QED  BY <2>1, <2>2, <2>3
<1>3. \A m \in 1..(N + 1) : \A n \in m..(N + 1) : o[m] <= o[n]
  BY TdmaOrdered
<1>4. e \in Tdma!State /\ e.clock = s.clock + 1 /\ e.fifo = s.fifo
  <2>1. o[i + 1] <= o[N + 1]
    <3> HIDE DEF o, i, N
    <3>1. i + 1 \in 1..(N + 1) /\ N + 1 \in (i + 1)..(N + 1)
      BY <1>1, <1>2
    <3> QED  BY <1>3, <3>1
  <2>2. o[i + 1] \in Nat /\ o[N + 1] \in Nat
    BY <1>1, <1>2
  <2>3. s.clock + 1 < Tdma!lastOffset /\ Tdma!lastOffset \in Nat
    <3> HIDE DEF o, i
    <3> QED  BY <1>1, <1>2, <2>1, <2>2, SMTT(30)
  <2>4. (s.clock + 1) % Tdma!lastOffset = s.clock + 1
    BY <1>2, <2>3
  <2> QED  BY <1>2, <2>3, <2>4 DEF Tdma!elapsed, Tdma!State
<1>5. k \in 1..N /\ o[k] <= s.clock + 1 /\ s.clock + 1 < o[k + 1]
  <2>1. k \in 1..N /\ o[k] <= e.clock /\ o[k + 1] - e.clock \in Nat
    BY <1>1, <1>4, TdmaCurrent
  <2>2. \E n \in DOMAIN TdmaTable.slots : o[n] <= e.clock /\ e.clock < o[n + 1]
    <3>1. s.clock <= s.clock + 1
      BY <1>2
    <3>2. o[i] \in Nat
      BY <1>1, <1>2
    <3>3. o[i] <= e.clock /\ e.clock < o[i + 1]
      <4> HIDE DEF o, i, e
      <4> QED  BY <1>2, <1>4, <3>2
    <3> QED  BY <1>1, <1>2, <3>3
  <2>3. o[k] <= e.clock /\ e.clock < o[k + 1]
    BY <2>2 DEF Tdma!current
  <2> QED  BY <1>4, <2>1, <2>3
<1> HIDE DEF o, e, i, k
<1>6. k = i
  <2>1. o[k] \in Nat /\ o[i] \in Nat /\ o[k + 1] \in Nat /\ o[i + 1] \in Nat
    <3> HIDE DEF N
    <3>1. k \in 1..(N + 1) /\ i \in 1..(N + 1) /\ k + 1 \in 1..(N + 1) /\ i + 1 \in 1..(N + 1)
      BY <1>1, <1>2, <1>5
    <3> QED  BY <1>1, <3>1
  <2>2. CASE k < i
    <3>1. k + 1 \in 1..(N + 1) /\ i \in (k + 1)..(N + 1)
      BY <1>1, <1>2, <1>5, <2>2
    <3>2. o[k + 1] <= o[i]
      BY <1>3, <3>1
    <3> QED  BY <1>2, <1>5, <2>1, <3>2
  <2>3. CASE i < k
    <3>1. i + 1 \in 1..(N + 1) /\ k \in (i + 1)..(N + 1)
      BY <1>1, <1>2, <1>5, <2>3
    <3>2. o[i + 1] <= o[k]
      BY <1>3, <3>1
    <3> QED  BY <1>2, <1>5, <2>1, <3>2
  <2> QED  BY <1>1, <1>2, <1>5, <2>2, <2>3
<1>7. Tdma!current(e) = Tdma!current(s)
  BY <1>6 DEF i, k
<1>8. TdmaRest(e) = TdmaRest(s) - 1
  <2>1. o[i + 1] \in Nat
    BY <1>1, <1>2
  <2> QED  BY <1>2, <1>4, <1>7, <2>1 DEF TdmaRest, o, i
<1>9. \A r : Tdma!slotRespected(s, r) => Tdma!slotRespected(e, r)
  BY <1>4, <1>7 DEF Tdma!slotRespected
<1> QED  BY <1>7, <1>8, <1>9 DEF e

\* The queues of TDMAScheduler list the tasks that wait or run, each in that of its
\* slot, through all calls but the decision.
LEMMA TdmaHolds ==
  ASSUME SchedulerAssumption
  PROVE
  /\ TdmaHeld(Tdma!initial, {}, NoTask)
  /\ \A s, R, r, j : TdmaHeld(s, R, r) /\ j \in Job /\ j \notin R /\ j # r
                     => TdmaHeld(Tdma!addedNewTask(s, j), R \cup {j}, r)
  /\ \A s, R, r : TdmaHeld(s, R, r) /\ r \in Job /\ r \notin R
                  => TdmaHeld(Tdma!removedTask(s, r), R, NoTask)
  /\ \A s, R, r : TdmaHeld(s, R, r) => TdmaHeld(Tdma!elapsed(s), R, r)
<1> DEFINE D == DOMAIN TdmaTable.slots
           key == TdmaTable.slotOf
<1>0. key \in [Job -> D] /\ NoTask \notin Job /\ Tdma!lastOffset \in Nat \ {0}
  BY TableSlots, TdmaOffsets DEF SchedulerAssumption, JobAssumption
<1>a. ASSUME NEW s \in Tdma!State, NEW f \in [D -> Seq(Job)]
      PROVE  [s EXCEPT !.fifo = f] \in Tdma!State /\ [s EXCEPT !.fifo = f].fifo = f
  BY DEF Tdma!State
<1>1. TdmaHeld(Tdma!initial, {}, NoTask)
  <2>1. Tdma!initial \in Tdma!State
    BY <1>0 DEF Tdma!initial, Tdma!State, Tdma!noTasks
  <2>2. current({}, NoTask) = {}
    BY DEF current
  <2> QED  BY <2>1, <2>2, SortedEmpty DEF TdmaHeld, Tdma!initial, Tdma!noTasks
<1> HIDE DEF D, key
<1>2. ASSUME NEW s, NEW R, NEW r, NEW j \in Job, TdmaHeld(s, R, r), j \notin R, j # r
      PROVE  TdmaHeld(Tdma!addedNewTask(s, j), R \cup {j}, r)
  <2> DEFINE f == [s.fifo EXCEPT ![key[j]] = Append(@, j)]
  <2>1. s \in Tdma!State /\ Sorted(s.fifo, key, D, current(R, r)) /\ j \notin current(R, r)
    BY <1>2 DEF TdmaHeld, current, key, D
  <2>2. Sorted(f, key, D, current(R, r) \cup {j})
    BY <1>0, <2>1, SortedAdd
  <2>3. current(R \cup {j}, r) = current(R, r) \cup {j}
    BY <1>0 DEF current
  <2>4. Tdma!addedNewTask(s, j) = [s EXCEPT !.fifo = f]
    BY DEF Tdma!addedNewTask, Tdma!enqueued, key
  <2> HIDE DEF f
  <2>5. f \in [D -> Seq(Job)]
    BY <2>2 DEF Sorted
  <2> DEFINE t == [s EXCEPT !.fifo = f]
  <2>6. t \in Tdma!State /\ t.fifo = f
    BY <1>a, <2>1, <2>5
  <2> HIDE DEF t
  <2>7. TdmaHeld(t, R \cup {j}, r)
    BY <2>2, <2>3, <2>6 DEF TdmaHeld, key, D
  <2> QED  BY <2>4, <2>7 DEF t
<1>3. ASSUME NEW s, NEW R, NEW r \in Job, TdmaHeld(s, R, r), r \notin R
      PROVE  TdmaHeld(Tdma!removedTask(s, r), R, NoTask)
  <2> DEFINE f == [s.fifo EXCEPT ![key[r]] = RemoveFirst(@, r)]
  <2>1. s \in Tdma!State /\ Sorted(s.fifo, key, D, current(R, r))
    BY <1>3 DEF TdmaHeld, key, D
  <2>2. Sorted(f, key, D, current(R, r) \ {r})
    BY <1>0, <2>1, SortedRemove
  <2>3. current(R, NoTask) = current(R, r) \ {r}
    BY <1>0, <1>3 DEF current
  <2>4. Tdma!removedTask(s, r) = [s EXCEPT !.fifo = f]
    BY TdmaWithout DEF Tdma!removedTask, Tdma!dequeued, key
  <2> HIDE DEF f
  <2>5. f \in [D -> Seq(Job)]
    BY <2>2 DEF Sorted
  <2> QED  BY <1>a, <2>1, <2>2, <2>3, <2>4, <2>5 DEF TdmaHeld, key, D
<1>4. ASSUME NEW s, NEW R, NEW r, TdmaHeld(s, R, r)
      PROVE  TdmaHeld(Tdma!elapsed(s), R, r)
  <2>1. s \in Tdma!State /\ (s.clock + 1) % Tdma!lastOffset \in 0..(Tdma!lastOffset - 1)
    BY <1>0, <1>4 DEF TdmaHeld, Tdma!State
  <2> QED  BY <1>4, <2>1 DEF TdmaHeld, Tdma!elapsed, Tdma!State
<1> QED  BY <1>1, <1>2, <1>3, <1>4

\* TDMAScheduler::schedulingDecision, whatever front() of an empty queue reads
\* (line 234): only a waiting task is assigned, and the end of a slot is awaited.
LEMMA TdmaDecides ==
  ASSUME SchedulerAssumption, NEW s, NEW R, NEW r, Instances(R, r), TdmaHeld(s, R, r),
         NEW d \in Tdma!schedulingDecision(s, r),
         NEW slice, slice = Tdma!getSchedulerTimeSlice(d.state, offered(d, R), kept(d, r))
  PROVE  /\ Sound(d, R, r)
         /\ TdmaHeld(d.state, readyAfter(d, R), runningAfter(d, r))
         /\ Timed(slice, d, R, r)
         /\ runningAfter(d, r) # NoTask =>
              /\ Tdma!slotRespected(d.state, runningAfter(d, r))
              /\ slice = TdmaRest(d.state)
<1> DEFINE i == Tdma!current(s)
           q == s.fifo[i]
           D == DOMAIN TdmaTable.slots
<1>1. NoTask \notin Job /\ TdmaTable.slotOf \in [Job -> D]
  BY TableSlots DEF SchedulerAssumption, JobAssumption
<1>2. s \in Tdma!State /\ Sorted(s.fifo, TdmaTable.slotOf, D, current(R, r))
  BY DEF TdmaHeld
<1>3. i \in D /\ Tdma!offsets[i + 1] - s.clock \in Nat
  BY <1>2, TdmaCurrent
<1>4. q # <<>> => Head(q) \in current(R, r) /\ TdmaTable.slotOf[Head(q)] = i
  <2>1. Lists(q, {k \in current(R, r) : TdmaTable.slotOf[k] = i})
    BY <1>2, <1>3 DEF Sorted
  <2> HIDE DEF q, i
  <2>2. q # <<>> => Head(q) \in {k \in current(R, r) : TdmaTable.slotOf[k] = i}
    BY <2>1, ListsHead
  <2> QED  BY <2>2
<1>5. Sound(d, R, r) /\ d.state = s
      /\ (q # <<>> /\ runningAfter(d, r) # NoTask => runningAfter(d, r) = Head(q))
  <2>1. CASE d = Tdma!noChange(s) /\ (q # <<>> => r = Head(q))
    BY <1>1, <2>1 DEF Tdma!noChange, Tdma!decide, Sound, offered, kept, runningAfter
  <2>2. CASE d = Tdma!stopRunning(r, s)
    BY <1>1, <2>2 DEF Tdma!stopRunning, Tdma!noChange, Tdma!resigned, Tdma!decide, Sound,
                      offered, kept, runningAfter
  <2>3. CASE q # <<>> /\ r # Head(q) /\ d = Tdma!switch(r, Head(q), s)
    <3>1. Head(q) \in R
      BY <1>4, <2>3 DEF current
    <3> HIDE DEF q
    <3>2. CASE r = NoTask
      BY <2>3, <3>1, <3>2
      DEF Tdma!switch, Tdma!onlyAssign, Tdma!decide, Sound, offered, kept, runningAfter
    <3>3. CASE r # NoTask
      BY <2>3, <3>1, <3>3
      DEF Tdma!switch, Tdma!preempt, Tdma!decide, Sound, offered, kept, runningAfter
    <3> QED  BY <3>2, <3>3
  <2>4. /\ (q # <<>> /\ r = Head(q)) => d = Tdma!noChange(s)
        /\ (q # <<>> /\ r # Head(q)) => d = Tdma!switch(r, Head(q), s)
        /\ q = <<>> => d \in {Tdma!stopRunning(r, s), Tdma!noChange(s)}
    BY DEF Tdma!schedulingDecision
  <2> QED  BY <2>1, <2>2, <2>3, <2>4
<1>6. TdmaHeld(d.state, readyAfter(d, R), runningAfter(d, r))
  BY <1>1, <1>2, <1>5, CurrentKept DEF TdmaHeld
<1>7. Timed(slice, d, R, r)
  <2>1. CASE \A k \in D : s.fifo[k] = <<>>
    <3>1. slice = NoSlice
      BY <1>5, <2>1 DEF Tdma!getSchedulerTimeSlice, NoSlice, Tdma!NoSlice
    <3>2. current(R, r) = {}
      <4>1. current(R, r) \subseteq Job
        BY DEF current, Instances
      <4> QED  BY <1>1, <1>2, <2>1, <4>1, SortedNone
    <3>3. offered(d, R) = {}
      BY <1>1, <1>5, <3>2 DEF current, offered, Sound, Instances
    <3> QED  BY <3>1, <3>3 DEF Timed
  <2>2. CASE ~ \A k \in D : s.fifo[k] = <<>>
    <3>1. slice = Tdma!offsets[i + 1] - s.clock
      BY <1>5, <2>2 DEF Tdma!getSchedulerTimeSlice
    <3> QED  BY <1>3, <3>1 DEF Timed, NoSlice
  <2> QED  BY <2>1, <2>2
<1>8. ASSUME runningAfter(d, r) # NoTask
      PROVE  Tdma!slotRespected(d.state, runningAfter(d, r)) /\ slice = TdmaRest(d.state)
  <2>1. current(R, r) # {}
    <3>1. current(readyAfter(d, R), runningAfter(d, r)) = current(R, r)
      BY <1>1, <1>5, CurrentKept
    <3> QED  BY <1>8, <3>1 DEF current
  <2>2. ~ \A k \in D : s.fifo[k] = <<>>
    <3>1. current(R, r) \subseteq Job
      BY DEF current, Instances
    <3> QED  BY <1>1, <1>2, <2>1, <3>1, SortedNone
  <2>3. slice = TdmaRest(d.state)
    BY <1>5, <2>2 DEF Tdma!getSchedulerTimeSlice, TdmaRest
  <2>4. Tdma!slotRespected(d.state, runningAfter(d, r))
    BY <1>4, <1>5, <1>8 DEF Tdma!slotRespected
  <2> QED  BY <2>3, <2>4
<1> QED  BY <1>5, <1>6, <1>7, <1>8

-----------------------------------------------------------------------------
(* TimeTriggeredCCScheduler *)

\* Instantiating the module does not change what is shown for its operators.
LEMMA TtccWithout == \A q, j : Ttcc!without(q, j) = RemoveFirst(q, j)
  BY DEF Ttcc!without, Ttcc!RemoveFirst, Ttcc!SelectInSeq, Ttcc!Min, Ttcc!RemoveAt,
         RemoveFirst, SelectInSeq, Min, RemoveAt

\* What is found in the queue of a slot is a place in it, of an instance that may run
\* in this cycle.
LEMMA TtccPlaces ==
  ASSUME SchedulerAssumption, NEW t, t.fifo[t.slot] \in Seq(Job), t.cycle \in Nat,
         t.own \in [Job -> Job]
  PROVE  /\ Ttcc!atStart(t) \in 0..Len(t.fifo[t.slot])
         /\ Ttcc!later(t) \in 0..Len(t.fifo[t.slot])
         /\ \A n \in {Ttcc!atStart(t), Ttcc!later(t)} :
              n # 0 => Ttcc!allowed(t, t.fifo[t.slot][n])
<1> DEFINE q == t.fifo[t.slot]
           I == {i \in 1..Len(q) : Ttcc!allowed(t, q[i])}
           K == {i \in 1..Len(q) : CcTable.offset[t.own[q[i]]] < t.cycle /\ Ttcc!inCycle(t, q[i])}
<1>1. /\ Ttcc!atStart(t) = IF I # {} THEN Min(I) ELSE 0
      /\ Ttcc!later(t) = IF K # {} THEN Min(K) ELSE 0
  BY DEF Ttcc!atStart, Ttcc!later, Ttcc!SelectInSeq, Ttcc!Min, Min
<1>2. Len(q) \in Nat
  OBVIOUS
<1>3. ASSUME NEW S, S \subseteq 1..Len(q)
      PROVE  (IF S # {} THEN Min(S) ELSE 0) \in S \cup {0}
  <2>1. S \subseteq Nat
    BY <1>2, <1>3
  <2> HIDE DEF q
  <2>2. S # {} => Min(S) \in S
    BY <2>1, FirstOf
  <2> QED  BY <2>2
<1>4. I \subseteq 1..Len(q) /\ K \subseteq 1..Len(q)
  OBVIOUS
<1>5. K \subseteq I
  <2>1. \A i \in 1..Len(q) : CcTable.offset[t.own[q[i]]] \in Nat
    <3>1. CcTable.offset \in [Job -> Nat]
      BY DEF SchedulerAssumption, Ttcc!MultiplexAssumption
    <3>2. \A i \in 1..Len(q) : q[i] \in Job
      OBVIOUS
    <3> QED  BY <3>1, <3>2
  <2> HIDE DEF q
  <2> QED  BY <2>1 DEF Ttcc!allowed
<1>6. Ttcc!atStart(t) \in I \cup {0} /\ Ttcc!later(t) \in K \cup {0}
  <2> HIDE DEF q, I, K
  <2>1. (IF I # {} THEN Min(I) ELSE 0) \in I \cup {0}
    BY <1>3, <1>4
  <2>2. (IF K # {} THEN Min(K) ELSE 0) \in K \cup {0}
    BY <1>3, <1>4
  <2> QED  BY <1>1, <2>1, <2>2
<1>7. \A n \in I : n \in 1..Len(q) /\ Ttcc!allowed(t, q[n])
  OBVIOUS
<1> HIDE DEF I, K
<1> QED  BY <1>2, <1>5, <1>6, <1>7 DEF q

\* Registering an instance changes the parameters of that instance and of processes
\* only.
LEMMA TtccRegistered ==
  ASSUME SchedulerAssumption, NEW t \in Ttcc!State, NEW j \in Job
  PROVE  LET u == Ttcc!registered(t, j)
         IN  /\ u \in Ttcc!State /\ u.fifo = t.fifo
             /\ u.slot = t.slot /\ u.slice = t.slice /\ u.since = t.since
             /\ u.cycle = t.cycle
             /\ \A i \in Job : i # j => u.own[i] = t.own[i]
<1> DEFINE n == t.ids + 1
           v == [t.own EXCEPT ![j] = t.params[j]]
           w == [k \in Job |-> IF k = SharedIds[n] THEN t.params[j] ELSE t.params[k]]
           x == [t EXCEPT !.own = v, !.params = w, !.ids = n]
           y == [t EXCEPT !.own = v]
<1>1. SharedIds \in Seq(Job \cup {NoTask})
  BY DEF SchedulerAssumption, Ttcc!MultiplexAssumption
<1>2. /\ t.own \in [Job -> Job] /\ t.params \in [Job -> Job]
      /\ t.ids \in 0..Len(SharedIds)
  BY DEF Ttcc!State
<1>3. v \in [Job -> Job] /\ w \in [Job -> Job] /\ \A i \in Job : i # j => v[i] = t.own[i]
  BY <1>2
<1>4. n \in DOMAIN SharedIds => n \in 0..Len(SharedIds)
  BY <1>1
<1>5. /\ n \in DOMAIN SharedIds => Ttcc!registered(t, j) = x
      /\ n \notin DOMAIN SharedIds => Ttcc!registered(t, j) = y
  BY DEF Ttcc!registered, Ttcc!State
<1> HIDE DEF n, v, w
<1>6. /\ n \in DOMAIN SharedIds => x \in Ttcc!State
      /\ x.fifo = t.fifo /\ x.slot = t.slot /\ x.slice = t.slice /\ x.since = t.since
      /\ x.cycle = t.cycle /\ x.own = v
  BY <1>3, <1>4 DEF Ttcc!State
<1>7. /\ y \in Ttcc!State
      /\ y.fifo = t.fifo /\ y.slot = t.slot /\ y.slice = t.slice /\ y.since = t.since
      /\ y.cycle = t.cycle /\ y.own = v
  BY <1>3 DEF Ttcc!State
<1> HIDE DEF x, y
<1> QED  BY <1>3, <1>5, <1>6, <1>7

\* The queues of TimeTriggeredCCScheduler list the tasks that wait or run, each in
\* that of its slot, through all calls but the decision.
LEMMA TtccHolds ==
  ASSUME SchedulerAssumption
  PROVE
  /\ TtccHeld(Ttcc!initial, {}, NoTask)
  /\ \A s, R, r, j : TtccHeld(s, R, r) /\ j \in Job /\ j \notin R /\ j # r
                     => TtccHeld(Ttcc!addedNewTask(s, j), R \cup {j}, r)
  /\ \A s, R, r : TtccHeld(s, R, r) /\ r \in Job /\ r \notin R
                  => TtccHeld(Ttcc!removedTask(s, r), R, NoTask)
  /\ \A s, R, r : TtccHeld(s, R, r) => TtccHeld(Ttcc!elapsed(s), R, r)
<1> DEFINE D == DOMAIN CcTable.slots
           key == CcTable.slotOf
<1>0. key \in [Job -> D] /\ NoTask \notin Job /\ Longest \in Nat
      /\ CycleRound \in Nat \ {0} /\ Len(CcTable.slots) \in Nat
  <2>1. key \in [Job -> D]
    BY TableSlots
  <2>2. NoTask \notin Job /\ Longest \in Nat /\ CycleRound \in Nat \ {0}
        /\ CcTable.slots \in Seq(Nat \ {0})
    BY DEF SchedulerAssumption, JobAssumption, Ttcc!MultiplexAssumption, Ttcc!SlotsAssumption
  <2> QED  BY <2>1, <2>2
<1>a. ASSUME NEW s \in Ttcc!State, NEW f \in [D -> Seq(Job)]
      PROVE  /\ [s EXCEPT !.fifo = f] \in Ttcc!State /\ [s EXCEPT !.fifo = f].fifo = f
             /\ [s EXCEPT !.fifo = f].slot = s.slot /\ [s EXCEPT !.fifo = f].slice = s.slice
  BY DEF Ttcc!State
<1>1. TtccHeld(Ttcc!initial, {}, NoTask)
  <2>1. Ttcc!initial \in Ttcc!State
    <3>1. Ttcc!asConfigured \in [Job -> Job] /\ 0 \in 0..Len(SharedIds)
      BY DEF Ttcc!asConfigured, SchedulerAssumption, Ttcc!MultiplexAssumption
    <3> QED  BY <1>0, <3>1 DEF Ttcc!initial, Ttcc!State, Ttcc!noTasks
  <2>2. current({}, NoTask) = {}
    BY DEF current
  <2> QED  BY <2>1, <2>2, SortedEmpty DEF TtccHeld, Ttcc!initial, Ttcc!noTasks
<1> HIDE DEF D, key
<1>2. ASSUME NEW s, NEW R, NEW r, NEW j \in Job, TtccHeld(s, R, r), j \notin R, j # r
      PROVE  TtccHeld(Ttcc!addedNewTask(s, j), R \cup {j}, r)
  <2> DEFINE f == [s.fifo EXCEPT ![key[j]] = Append(@, j)]
  <2>1. s \in Ttcc!State /\ Sorted(s.fifo, key, D, current(R, r)) /\ j \notin current(R, r)
    BY <1>2 DEF TtccHeld, current, key, D
  <2>2. Sorted(f, key, D, current(R, r) \cup {j})
    BY <1>0, <2>1, SortedAdd
  <2>3. current(R \cup {j}, r) = current(R, r) \cup {j}
    BY <1>0 DEF current
  <2>4. Ttcc!addedNewTask(s, j) = Ttcc!registered([s EXCEPT !.fifo = f], j)
    BY DEF Ttcc!addedNewTask, Ttcc!enqueued, key
  <2> HIDE DEF f
  <2>5. f \in [D -> Seq(Job)]
    BY <2>2 DEF Sorted
  <2> DEFINE t == [s EXCEPT !.fifo = f]
  <2>6. t \in Ttcc!State /\ t.fifo = f /\ t.slot = s.slot /\ t.slice = s.slice
    BY <1>a, <2>1, <2>5
  <2> HIDE DEF t
  <2> DEFINE u == Ttcc!registered(t, j)
  <2>7. u \in Ttcc!State /\ u.fifo = f /\ u.slot = s.slot /\ u.slice = s.slice
    BY <2>6, TtccRegistered
  <2> HIDE DEF u
  <2>8. TtccHeld(u, R \cup {j}, r)
    BY <1>2, <2>2, <2>3, <2>7 DEF TtccHeld, key, D
  <2> QED  BY <2>4, <2>8 DEF t, u
<1>3. ASSUME NEW s, NEW R, NEW r \in Job, TtccHeld(s, R, r), r \notin R
      PROVE  TtccHeld(Ttcc!removedTask(s, r), R, NoTask)
  <2> DEFINE f == [s.fifo EXCEPT ![key[r]] = RemoveFirst(@, r)]
  <2>1. s \in Ttcc!State /\ Sorted(s.fifo, key, D, current(R, r))
    BY <1>3 DEF TtccHeld, key, D
  <2>2. Sorted(f, key, D, current(R, r) \ {r})
    BY <1>0, <2>1, SortedRemove
  <2>3. current(R, NoTask) = current(R, r) \ {r}
    BY <1>0, <1>3 DEF current
  <2>4. Ttcc!removedTask(s, r) = [s EXCEPT !.fifo = f]
    BY TtccWithout DEF Ttcc!removedTask, Ttcc!dequeued, key
  <2> HIDE DEF f
  <2>5. f \in [D -> Seq(Job)]
    BY <2>2 DEF Sorted
  <2> QED  BY <1>3, <1>a, <2>1, <2>2, <2>3, <2>4, <2>5 DEF TtccHeld, key, D
<1>4. ASSUME NEW s, NEW R, NEW r, TtccHeld(s, R, r)
      PROVE  TtccHeld(Ttcc!elapsed(s), R, r)
  <2>1. s \in Ttcc!State /\ Ttcc!elapsedSince(s.since) \in 0..Longest
    BY <1>0, <1>4 DEF TtccHeld, Ttcc!State, Ttcc!elapsedSince
  <2> QED  BY <1>4, <2>1 DEF TtccHeld, Ttcc!elapsed, Ttcc!State
<1> QED  BY <1>1, <1>2, <1>3, <1>4

\* TimeTriggeredCCScheduler::schedulingDecision: the task that the slot stops is
\* resigned, only one whose cycle it is is assigned, and the next slot is awaited.
LEMMA TtccDecides ==
  ASSUME SchedulerAssumption, NEW s, NEW R, NEW r, Instances(R, r), TtccHeld(s, R, r),
         NEW d \in Ttcc!schedulingDecision(s, r),
         NEW slice, slice = Ttcc!getSchedulerTimeSlice(d.state, offered(d, R), kept(d, r))
  PROVE  /\ Sound(d, R, r)
         /\ TtccHeld(d.state, readyAfter(d, R), runningAfter(d, r))
         /\ Timed(slice, d, R, r)
         /\ TtccFits(s, r) => TtccFits(d.state, runningAfter(d, r))
         /\ runningAfter(d, r) # NoTask =>
              slice \in Nat /\ slice = d.state.slice - d.state.since
<1> DEFINE L == CcTable.slots
           D == DOMAIN L
           like(t) == t \in Ttcc!State /\ t.fifo = s.fifo
           same(t, u) == t.cycle = u.cycle /\ t.own = u.own
<1>1. NoTask \notin Job /\ CcTable.slotOf \in [Job -> D]
  BY TableSlots DEF SchedulerAssumption, JobAssumption
<1>2. s \in Ttcc!State /\ Sorted(s.fifo, CcTable.slotOf, D, current(R, r))
      /\ (s.slot = 0 => s.slice = 0)
  BY DEF TtccHeld
<1>3. /\ Longest \in Nat /\ CycleRound \in Nat \ {0}
      /\ Len(L) \in Nat \ {0} /\ D = 1..Len(L)
      /\ \A i \in D : L[i] \in 0..Longest
  <2>1. L \in Seq(Nat \ {0}) /\ L # <<>> /\ \A i \in D : L[i] <= Longest
    BY DEF SchedulerAssumption, Ttcc!MultiplexAssumption, Ttcc!SlotsAssumption
  <2>2. Longest \in Nat /\ CycleRound \in Nat \ {0}
    BY DEF SchedulerAssumption, Ttcc!MultiplexAssumption
  <2> HIDE DEF L
  <2> QED  BY <2>1, <2>2
<1> HIDE DEF L, D
<1>4. ASSUME NEW t, like(t)
      PROVE  /\ like(Ttcc!aged(t)) /\ Ttcc!aged(t).slot = t.slot /\ Ttcc!aged(t).since = 0
             /\ t.slice = 0 => Ttcc!aged(t).slice = 0
             /\ same(Ttcc!aged(t), t)
  <2>1. t \in Ttcc!State /\ t.slice \in 0..Longest /\ t.since \in 0..Longest
    BY <1>4 DEF Ttcc!State
  <2>2. Ttcc!until(t.slice - t.since) \in 0..Longest
        /\ (t.slice = 0 => Ttcc!until(t.slice - t.since) = 0)
    BY <1>3, <2>1 DEF Ttcc!until
  <2> DEFINE n == Ttcc!until(t.slice - t.since)
             a == Ttcc!aged(t)
  <2>3. a = [t EXCEPT !.slice = n, !.since = 0] /\ 0 \in 0..Longest
    BY <1>3, <2>1 DEF Ttcc!aged, Ttcc!State
  <2> HIDE DEF n, a
  <2>4. a \in Ttcc!State /\ a.fifo = t.fifo /\ a.slot = t.slot /\ a.slice = n /\ a.since = 0
        /\ same(a, t)
    BY <2>1, <2>2, <2>3 DEF Ttcc!State, n
  <2> QED  BY <1>4, <2>2, <2>4 DEF a, n
<1>5. ASSUME NEW t, like(t), t.slot < Len(L)
      PROVE  /\ like(Ttcc!nextSlot(t)) /\ Ttcc!nextSlot(t).slot \in D
             /\ Ttcc!nextSlot(t).since = t.since
  <2>1. t \in Ttcc!State /\ t.slot + 1 \in 1..Len(L)
    BY <1>3, <1>5 DEF Ttcc!State, L
  <2> DEFINE m == t.slot + 1
             n == L[m]
             x == Ttcc!nextSlot(t)
  <2>2. m \in 0..Len(L) /\ m \in D /\ n \in 0..Longest
    BY <1>3, <2>1
  <2>3. x = [t EXCEPT !.slot = m, !.slice = n]
    BY DEF Ttcc!nextSlot, L
  <2> HIDE DEF m, n, x
  <2>4. x \in Ttcc!State /\ x.fifo = t.fifo /\ x.slot = m /\ x.since = t.since
    BY <2>1, <2>2, <2>3 DEF Ttcc!State, L
  <2> QED  BY <1>5, <2>2, <2>4 DEF x
<1>6. ASSUME NEW t, like(t), t.slot \in D, NEW n \in 1..Len(t.fifo[t.slot])
      PROVE  t.fifo[t.slot][n] \in current(R, r) /\ CcTable.slotOf[t.fifo[t.slot][n]] = t.slot
  BY <1>2, <1>6 DEF Sorted, Lists
<1>7. ASSUME NEW t, like(t), t.slot \in D
      PROVE  /\ Ttcc!atStart(t) \in 0..Len(t.fifo[t.slot])
             /\ Ttcc!later(t) \in 0..Len(t.fifo[t.slot])
             /\ Len(t.fifo[t.slot]) \in Nat
             /\ \A n \in {Ttcc!atStart(t), Ttcc!later(t)} :
                  n # 0 => Ttcc!allowed(t, t.fifo[t.slot][n])
  <2>1. t.fifo[t.slot] \in Seq(Job)
    BY <1>2, <1>7 DEF Sorted
  <2>2. t.cycle \in Nat /\ t.own \in [Job -> Job]
    BY <1>3, <1>7 DEF Ttcc!State
  <2>3. Len(t.fifo[t.slot]) \in Nat
    BY <2>1
  <2>4. /\ Ttcc!atStart(t) \in 0..Len(t.fifo[t.slot])
        /\ Ttcc!later(t) \in 0..Len(t.fifo[t.slot])
        /\ \A n \in {Ttcc!atStart(t), Ttcc!later(t)} :
             n # 0 => Ttcc!allowed(t, t.fifo[t.slot][n])
    BY <2>1, <2>2, TtccPlaces
  <2> QED  BY <2>3, <2>4
<1>8. ASSUME NEW t, like(t), t.slot \in D, d \in Ttcc!slotStarts(t, r)
      PROVE  Sound(d, R, r) /\ d.state = t /\ TtccFits(t, runningAfter(d, r))
  <2> DEFINE j == t.fifo[t.slot][Ttcc!atStart(t)]
  <2>1. CASE Ttcc!atStart(t) = 0
    BY <1>1, <1>8, <2>1
    DEF Ttcc!slotStarts, Ttcc!stopRunning, Ttcc!noChange, Ttcc!resigned, Ttcc!decide, Sound,
        offered, kept, runningAfter, TtccFits
  <2>2. CASE Ttcc!atStart(t) # 0
    <3>1. d = Ttcc!switch(r, j, t)
      BY <1>8, <2>2 DEF Ttcc!slotStarts
    <3>2. j \in current(R, r) /\ CcTable.slotOf[j] = t.slot /\ Ttcc!allowed(t, j)
      BY <1>6, <1>7, <1>8, <2>2
    <3> HIDE DEF j
    <3>3. CASE r = NoTask
      BY <3>1, <3>2, <3>3
      DEF Ttcc!switch, Ttcc!onlyAssign, Ttcc!decide, Sound, offered, kept, current,
          runningAfter, TtccFits
    <3>4. CASE r # NoTask
      BY <3>1, <3>2, <3>4
      DEF Ttcc!switch, Ttcc!preempt, Ttcc!decide, Sound, offered, kept, current,
          runningAfter, TtccFits
    <3> QED  BY <3>3, <3>4
  <2> QED  BY <2>1, <2>2
<1>9. ASSUME NEW t, like(t), t.slot \in D, d \in Ttcc!withinSlot(t, r)
      PROVE  /\ Sound(d, R, r) /\ d.state = t
             /\ TtccFits(t, r) => TtccFits(t, runningAfter(d, r))
  <2> DEFINE j == t.fifo[t.slot][Ttcc!later(t)]
  <2>1. CASE r # NoTask \/ Ttcc!later(t) = 0
    BY <1>1, <1>9, <2>1
    DEF Ttcc!withinSlot, Ttcc!noChange, Ttcc!decide, Sound, offered, kept, runningAfter
  <2>2. CASE ~(r # NoTask \/ Ttcc!later(t) = 0)
    <3>1. d = Ttcc!onlyAssign(j, t)
      BY <1>9, <2>2 DEF Ttcc!withinSlot
    <3>2. j \in current(R, r) /\ CcTable.slotOf[j] = t.slot /\ Ttcc!allowed(t, j)
      BY <1>6, <1>7, <1>9, <2>2
    <3> HIDE DEF j
    <3> QED  BY <2>2, <3>1, <3>2
             DEF Ttcc!onlyAssign, Ttcc!decide, Sound, offered, kept, current,
                 runningAfter, TtccFits
  <2> QED  BY <2>1, <2>2
<1>10. ASSUME NEW t, like(t), t.slot < Len(L), t.slot = 0 => t.slice = 0,
              d \in Ttcc!static(t, r)
       PROVE  /\ Sound(d, R, r) /\ like(d.state) /\ d.state.slot \in D /\ d.state.since = 0
              /\ (t.slice # 0 => TtccFits(t, r)) => TtccFits(d.state, runningAfter(d, r))
  <2>1. like(Ttcc!aged(t)) /\ Ttcc!aged(t).slot = t.slot /\ Ttcc!aged(t).since = 0
        /\ same(Ttcc!aged(t), t)
    BY <1>4, <1>10
  <2>2. CASE Ttcc!aged(t).slice = 0
    <3>1. d \in Ttcc!slotStarts(Ttcc!nextSlot(Ttcc!aged(t)), r)
      BY <1>10, <2>2 DEF Ttcc!static
    <3>2. /\ like(Ttcc!nextSlot(Ttcc!aged(t))) /\ Ttcc!nextSlot(Ttcc!aged(t)).slot \in D
          /\ Ttcc!nextSlot(Ttcc!aged(t)).since = 0
      BY <1>5, <1>10, <2>1
    <3> QED  BY <1>8, <3>1, <3>2
  <2>3. CASE Ttcc!aged(t).slice # 0
    <3>1. d \in Ttcc!withinSlot(Ttcc!aged(t), r)
      BY <1>10, <2>3 DEF Ttcc!static
    <3>2. Ttcc!aged(t).slot \in D
      <4>1. t.slot # 0
        BY <1>4, <1>10, <2>3
      <4> QED  BY <1>3, <1>10, <2>1, <4>1 DEF Ttcc!State
    <3>3. TtccFits(t, r) => TtccFits(Ttcc!aged(t), r)
      BY <2>1 DEF TtccFits, Ttcc!allowed, Ttcc!inCycle
    <3>4. t.slice # 0
      BY <1>4, <1>10, <2>3
    <3> QED  BY <1>9, <2>1, <3>1, <3>2, <3>3, <3>4
  <2> QED  BY <2>2, <2>3
<1>11. /\ s.slot < Len(L) => d \in Ttcc!static(s, r)
       /\ s.slot = Len(L) /\ s.slice > 0 => d = Ttcc!noChange(Ttcc!aged(s))
       /\ s.slot = Len(L) /\ s.slice = 0 =>
            d \in Ttcc!static([s EXCEPT !.slot = 0, !.cycle = Ttcc!nextCycle(@)], r)
       /\ s.slot \in 0..Len(L) /\ s.slice \in Nat
  <2>1. s.slot \in 0..Len(L) /\ s.slice \in Nat
    BY <1>2, <1>3 DEF Ttcc!State, L
  <2>2. CASE s.slot < Len(L)
    BY <1>3, <2>1, <2>2 DEF Ttcc!schedulingDecision, L
  <2>3. CASE s.slot = Len(L) /\ s.slice > 0
    BY <1>3, <2>1, <2>3 DEF Ttcc!schedulingDecision, L
  <2>4. CASE s.slot = Len(L) /\ s.slice = 0
    BY <1>3, <2>1, <2>4 DEF Ttcc!schedulingDecision, L
  <2> QED  BY <1>3, <2>1, <2>2, <2>3, <2>4
<1>12. /\ Sound(d, R, r) /\ like(d.state) /\ d.state.slot \in D /\ d.state.since = 0
       /\ TtccFits(s, r) => TtccFits(d.state, runningAfter(d, r))
  <2>1. CASE s.slot < Len(L)
    BY <1>2, <1>10, <1>11, <2>1
  <2>2. CASE s.slot = Len(L) /\ s.slice > 0
    <3>1. d = Ttcc!noChange(Ttcc!aged(s))
      BY <1>11, <2>2
    <3>2. Sound(d, R, r) /\ d.state = Ttcc!aged(s) /\ runningAfter(d, r) = r
      BY <1>1, <3>1 DEF Ttcc!noChange, Ttcc!decide, Sound, offered, kept, runningAfter
    <3>3. TtccFits(s, r) => TtccFits(Ttcc!aged(s), r)
      BY <1>2, <1>4 DEF TtccFits, Ttcc!allowed, Ttcc!inCycle
    <3> QED  BY <1>2, <1>3, <1>4, <2>2, <3>2, <3>3
  <2>3. CASE s.slot = Len(L) /\ s.slice = 0
    <3> DEFINE t == [s EXCEPT !.slot = 0, !.cycle = Ttcc!nextCycle(@)]
    <3>1. d \in Ttcc!static(t, r)
      BY <1>11, <2>3
    <3>2. like(t) /\ t.slot = 0 /\ t.slice = 0
      <4> DEFINE n == Ttcc!nextCycle(s.cycle)
      <4>1. s.cycle \in 0..(2 * CycleRound - 1) /\ 0 \in 0..Len(L)
        BY <1>2, <1>3 DEF Ttcc!State
      <4>2. n \in 0..(2 * CycleRound - 1)
        BY <1>3, <4>1 DEF Ttcc!nextCycle
      <4> HIDE DEF n
      <4>3. t = [s EXCEPT !.slot = 0, !.cycle = n]
        BY <1>2 DEF Ttcc!State, n
      <4> HIDE DEF t
      <4>4. t \in Ttcc!State /\ t.fifo = s.fifo /\ t.slot = 0 /\ t.slice = s.slice
        BY <1>2, <4>1, <4>2, <4>3 DEF Ttcc!State, L
      <4> QED  BY <2>3, <4>4
    <3> HIDE DEF t
    <3> QED  BY <1>3, <1>10, <3>1, <3>2
  <2> QED  BY <1>3, <1>11, <2>1, <2>2, <2>3
<1>13. TtccHeld(d.state, readyAfter(d, R), runningAfter(d, r))
  BY <1>1, <1>2, <1>3, <1>12, CurrentKept DEF TtccHeld, D, L
<1>14. Timed(slice, d, R, r)
  <2>1. CASE kept(d, r) = NoTask /\ \A k \in D : s.fifo[k] = <<>>
    <3>1. slice = NoSlice
      BY <1>12, <2>1 DEF Ttcc!getSchedulerTimeSlice, NoSlice, Ttcc!NoSlice, D, L
    <3>2. current(R, r) = {}
      <4>1. current(R, r) \subseteq Job
        BY DEF current, Instances
      <4> QED  BY <1>1, <1>2, <2>1, <4>1, SortedNone
    <3>3. offered(d, R) = {}
      BY <1>1, <1>12, <3>2 DEF current, offered, Sound, Instances
    <3> QED  BY <3>1, <3>3 DEF Timed
  <2>2. CASE ~(kept(d, r) = NoTask /\ \A k \in D : s.fifo[k] = <<>>)
    <3>1. slice = d.state.slice /\ d.state.slice \in Nat
      BY <1>3, <1>12, <2>2 DEF Ttcc!getSchedulerTimeSlice, Ttcc!State, D, L
    <3> QED  BY <3>1 DEF Timed, NoSlice
  <2> QED  BY <2>1, <2>2
<1>15. ASSUME runningAfter(d, r) # NoTask
       PROVE  slice \in Nat /\ slice = d.state.slice - d.state.since
  <2>1. current(R, r) # {}
    <3>1. current(readyAfter(d, R), runningAfter(d, r)) = current(R, r)
      BY <1>1, <1>12, CurrentKept
    <3> QED  BY <1>15, <3>1 DEF current
  <2>2. ~ \A k \in D : s.fifo[k] = <<>>
    <3>1. current(R, r) \subseteq Job
      BY DEF current, Instances
    <3> QED  BY <1>1, <1>2, <2>1, <3>1, SortedNone
  <2>3. slice = d.state.slice
    BY <1>12, <2>2 DEF Ttcc!getSchedulerTimeSlice, D, L
  <2>4. d.state.slice \in Nat
    BY <1>3, <1>12 DEF Ttcc!State
  <2> QED  BY <1>12, <2>3, <2>4
<1> QED  BY <1>12, <1>13, <1>14, <1>15

-----------------------------------------------------------------------------
(* FlexRayScheduler *)

\* The variables of FlexRayScheduler.
LEMMA FrameFields ==
  \A f \in {"class", "fifo", "slot", "slice", "since", "cycle", "clock", "toInit", "lead",
            "slotA", "sliceA", "sinceA", "slotB", "params", "own", "ids"} : f \in FrameField
  BY DEF FrameField

\* Instantiating the module does not change what is shown for its operators.
LEMMA FlexRayWithout == \A q, j : FlexRay!without(q, j) = RemoveFirst(q, j)
  BY DEF FlexRay!without, FlexRay!RemoveFirst, FlexRay!SelectInSeq, FlexRay!Min, FlexRay!RemoveAt,
         RemoveFirst, SelectInSeq, Min, RemoveAt

\* What is found in the queue of a slot is a place in it, of an instance that may run
\* in this cycle.
LEMMA FlexRayPlaces ==
  ASSUME SchedulerAssumption, NEW t, t.fifo[t.slot] \in Seq(Job), t.cycle \in Nat,
         t.own \in [Job -> Job]
  PROVE  /\ FlexRay!atStart(t) \in 0..Len(t.fifo[t.slot])
         /\ FlexRay!later(t) \in 0..Len(t.fifo[t.slot])
         /\ \A n \in {FlexRay!atStart(t), FlexRay!later(t)} :
              n # 0 => FlexRay!allowed(t, t.fifo[t.slot][n])
<1> DEFINE q == t.fifo[t.slot]
           I == {i \in 1..Len(q) : FlexRay!allowed(t, q[i])}
           K == {i \in 1..Len(q) : FrameTable.offset[t.own[q[i]]] < t.cycle /\ FlexRay!inCycle(t, q[i])}
<1>1. /\ FlexRay!atStart(t) = IF I # {} THEN Min(I) ELSE 0
      /\ FlexRay!later(t) = IF K # {} THEN Min(K) ELSE 0
  BY DEF FlexRay!atStart, FlexRay!later, FlexRay!SelectInSeq, FlexRay!Min, Min
<1>2. Len(q) \in Nat
  OBVIOUS
<1>3. ASSUME NEW S, S \subseteq 1..Len(q)
      PROVE  (IF S # {} THEN Min(S) ELSE 0) \in S \cup {0}
  <2>1. S \subseteq Nat
    BY <1>2, <1>3
  <2> HIDE DEF q
  <2>2. S # {} => Min(S) \in S
    BY <2>1, FirstOf
  <2> QED  BY <2>2
<1>4. I \subseteq 1..Len(q) /\ K \subseteq 1..Len(q)
  OBVIOUS
<1>5. K \subseteq I
  <2>1. \A i \in 1..Len(q) : FrameTable.offset[t.own[q[i]]] \in Nat
    <3>1. FrameTable.offset \in [Job -> Nat]
      BY DEF SchedulerAssumption, FlexRay!MultiplexAssumption
    <3>2. \A i \in 1..Len(q) : q[i] \in Job
      OBVIOUS
    <3> QED  BY <3>1, <3>2
  <2> HIDE DEF q
  <2> QED  BY <2>1 DEF FlexRay!allowed
<1>6. FlexRay!atStart(t) \in I \cup {0} /\ FlexRay!later(t) \in K \cup {0}
  <2> HIDE DEF q, I, K
  <2>1. (IF I # {} THEN Min(I) ELSE 0) \in I \cup {0}
    BY <1>3, <1>4
  <2>2. (IF K # {} THEN Min(K) ELSE 0) \in K \cup {0}
    BY <1>3, <1>4
  <2> QED  BY <1>1, <2>1, <2>2
<1>7. \A n \in I : n \in 1..Len(q) /\ FlexRay!allowed(t, q[n])
  OBVIOUS
<1> HIDE DEF I, K
<1> QED  BY <1>2, <1>5, <1>6, <1>7 DEF q

\* Registering an instance changes the parameters of that instance and of processes
\* only.
LEMMA FlexRayRegistered ==
  ASSUME SchedulerAssumption, NEW t, FrameTyped(t), NEW j \in Job
  PROVE  LET u == FlexRay!registered(t, j)
         IN  /\ FrameTyped(u) /\ u.fifo = t.fifo
             /\ u.slot = t.slot /\ u.slice = t.slice /\ u.cycle = t.cycle
             /\ u.clock = t.clock
             /\ \A i \in Job : i # j => u.own[i] = t.own[i]
<1> DEFINE n == t.ids + 1
           v == [t.own EXCEPT ![j] = t.params[j]]
           w == [k \in Job |-> IF k = SharedIds[n] THEN t.params[j] ELSE t.params[k]]
           x == [t EXCEPT !.own = v, !.params = w, !.ids = n]
           y == [t EXCEPT !.own = v]
<1>1. t.own \in [Job -> Job] /\ t.params \in [Job -> Job] /\ n \in Nat
  BY DEF FrameTyped
<1>2. v \in [Job -> Job] /\ w \in [Job -> Job] /\ \A i \in Job : i # j => v[i] = t.own[i]
  BY <1>1
<1>3. FlexRay!registered(t, j) \in {x, y}
  BY DEF FlexRay!registered, FrameTyped
<1>4. x = [f \in FrameField |-> IF f = "ids" THEN n ELSE IF f = "params" THEN w
                                ELSE IF f = "own" THEN v ELSE t[f]]
  BY DEF FrameTyped
<1>5. y = [f \in FrameField |-> IF f = "own" THEN v ELSE t[f]]
  BY DEF FrameTyped
<1> HIDE DEF n, v, w, x, y
<1>6. /\ FrameTyped(x) /\ x.fifo = t.fifo /\ x.slot = t.slot /\ x.slice = t.slice
      /\ x.cycle = t.cycle /\ x.clock = t.clock /\ x.own = v
  BY <1>1, <1>2, <1>4, FrameFields DEF FrameTyped
<1>7. /\ FrameTyped(y) /\ y.fifo = t.fifo /\ y.slot = t.slot /\ y.slice = t.slice
      /\ y.cycle = t.cycle /\ y.clock = t.clock /\ y.own = v
  BY <1>1, <1>2, <1>5, FrameFields DEF FrameTyped
<1> QED  BY <1>2, <1>3, <1>6, <1>7

\* The slots of both segments of FlexRayScheduler have lengths, and a cycle takes
\* time.
LEMMA FlexRayLengths ==
  ASSUME SchedulerAssumption
  PROVE  /\ Len(FrameTable.slots) \in Nat \ {0} /\ Len(FrameTable.dynamic) \in Nat
         /\ DOMAIN FrameTable.slots = 1..Len(FrameTable.slots)
         /\ \A i \in 1..Len(FrameTable.slots) :
              FrameTable.slots[i] \in Nat /\ FlexRay!offsets[i + 1] \in Nat
         /\ \A i \in 1..Len(FrameTable.dynamic) : FrameTable.dynamic[i] \in Nat
         /\ FlexRay!lastOffset = FlexRay!offsets[Len(FrameTable.slots) + 1]
         /\ FlexRay!lastOffset \in Nat \ {0} /\ FlexRay!cycle_length \in Nat \ {0}
         /\ FrameTable.length \in Nat /\ Microtick \in Nat /\ CycleRound \in Nat \ {0}
         /\ Longest \in Nat
<1> DEFINE L == FrameTable.slots
           M == FrameTable.dynamic
<1>1. L \in Seq(Nat \ {0}) /\ L # <<>> /\ M \in Seq(Nat \ {0})
  BY DEF SchedulerAssumption, FlexRay!SlotsAssumption, FlexRay!DynamicAssumption
<1>2. /\ FrameTable.length \in Nat /\ Microtick \in Nat /\ CycleRound \in Nat \ {0}
      /\ Longest \in Nat
  BY DEF SchedulerAssumption, FlexRay!DynamicAssumption, FlexRay!MultiplexAssumption
<1>3. FlexRay!offsets = startsOf(L)
  BY DEF FlexRay!offsets, FlexRay!startsOf, startsOf
<1>4. /\ startsOf(L) \in [1..(Len(L) + 1) -> Nat] /\ startsOf(L)[1] = 0
      /\ \A i \in 1..Len(L) : startsOf(L)[i + 1] = startsOf(L)[i] + L[i]
  BY <1>1, Starts
<1> HIDE DEF L
<1>5. /\ Len(L) \in Nat \ {0} /\ Len(L) \in 1..Len(L) /\ L[Len(L)] \in Nat \ {0}
      /\ DOMAIN L = 1..Len(L) /\ Len(M) \in Nat
      /\ \A i \in 1..Len(L) : L[i] \in Nat
      /\ \A i \in 1..Len(M) : M[i] \in Nat
  BY <1>1
<1>6. \A i \in 1..Len(L) : startsOf(L)[i + 1] \in Nat
  BY <1>4, <1>5, SMTT(30)
<1>7. startsOf(L)[Len(L) + 1] \in Nat \ {0}
  BY <1>4, <1>5
<1>8. FlexRay!lastOffset = startsOf(L)[Len(L) + 1]
  BY <1>3 DEF FlexRay!lastOffset, L
<1>9. FlexRay!cycle_length \in Nat \ {0}
  BY <1>2, <1>7, <1>8 DEF FlexRay!cycle_length
<1> QED  BY <1>2, <1>3, <1>5, <1>6, <1>7, <1>8, <1>9 DEF L

\* A task that becomes ready moves neither the slot that has been counted to nor,
\* while there are tasks, the cycle.
LEMMA FlexRayAdded ==
  ASSUME SchedulerAssumption, NEW s, FrameTyped(s), NEW j \in Job
  PROVE  LET t == FlexRay!addedNewTask(s, j)
         IN  /\ FrameTyped(t) /\ t.fifo = FlexRay!enqueued(s.fifo, j)
             /\ t.slot = s.slot /\ t.slice = s.slice
             /\ ~FlexRay!idle(s) => t.cycle = s.cycle
             /\ \A i \in Job : i # j => t.own[i] = s.own[i]
<1> DEFINE f == FlexRay!enqueued(s.fifo, j)
           u == [s EXCEPT !.fifo = f]
           v == FlexRay!listed(s, j)
           c == s.clock \div FlexRay!cycle_length
           l == s.clock % FlexRay!cycle_length
           x == [v EXCEPT !.cycle = c, !.toInit = TRUE, !.lead = l]
           like(t) == /\ FrameTyped(t) /\ t.fifo = f
                      /\ t.slot = s.slot /\ t.slice = s.slice
                      /\ \A i \in Job : i # j => t.own[i] = s.own[i]
<1>1. f \in [FrameSlots -> Seq(Job)]
  <2>1. s.fifo \in [FrameSlots -> Seq(Job)] /\ FrameTable.slotOf[j] \in FrameSlots
    BY TableSlots DEF FrameTyped
  <2>2. Append(s.fifo[FrameTable.slotOf[j]], j) \in Seq(Job)
    BY <2>1
  <2> QED  BY <2>1, <2>2 DEF FlexRay!enqueued
<1>2. c \in Nat /\ l \in Int
  <2>1. s.clock \in Nat /\ FlexRay!cycle_length \in Nat \ {0}
    BY FlexRayLengths DEF FrameTyped
  <2>2. \A a \in Nat, b \in Nat \ {0} : a \div b \in Nat /\ a % b \in Int
    OBVIOUS
  <2> QED  BY <2>1, <2>2
<1>3. /\ ~FlexRay!idle(s) => FlexRay!addedNewTask(s, j) = v
      /\ FlexRay!idle(s) => FlexRay!addedNewTask(s, j) = x
  BY DEF FlexRay!addedNewTask
<1>4. v \in {u, FlexRay!registered(u, j)}
  BY DEF FlexRay!listed
<1> HIDE DEF f, c, l
<1>5. FrameTyped(u) /\ u.fifo = f /\ u.slot = s.slot /\ u.slice = s.slice
      /\ u.cycle = s.cycle /\ u.own = s.own
  <2>1. u = [k \in FrameField |-> IF k = "fifo" THEN f ELSE s[k]]
    BY DEF FrameTyped
  <2> HIDE DEF u
  <2> QED  BY <1>1, <2>1, FrameFields DEF FrameTyped
<1> HIDE DEF u, v
<1>6. like(v) /\ v.cycle = s.cycle
  <2>1. CASE v = u
    BY <1>5, <2>1
  <2>2. CASE v = FlexRay!registered(u, j)
    <3>1. /\ FrameTyped(v) /\ v.fifo = u.fifo /\ v.slot = u.slot /\ v.slice = u.slice
          /\ v.cycle = u.cycle
          /\ \A i \in Job : i # j => v.own[i] = u.own[i]
      BY <1>5, <2>2, FlexRayRegistered
    <3> QED  BY <1>5, <3>1
  <2> QED  BY <1>4, <2>1, <2>2
<1>7. like(x)
  <2>1. x = [k \in FrameField |-> IF k = "lead" THEN l ELSE IF k = "toInit" THEN TRUE
                                  ELSE IF k = "cycle" THEN c ELSE v[k]]
    BY <1>6 DEF FrameTyped
  <2> HIDE DEF x
  <2>2. FrameTyped(x) /\ x.fifo = v.fifo /\ x.slot = v.slot /\ x.slice = v.slice
        /\ x.own = v.own
    BY <1>2, <1>6, <2>1, FrameFields DEF FrameTyped
  <2> QED  BY <1>6, <2>2
<1> HIDE DEF x
<1> QED  BY <1>3, <1>6, <1>7 DEF f

\* The queues of FlexRayScheduler list the tasks that wait or run, each in that of
\* its slot, through all calls but the decision.
LEMMA FlexRayHolds ==
  ASSUME SchedulerAssumption
  PROVE
  /\ FlexRayHeld(FlexRay!initial, {}, NoTask)
  /\ \A s, R, r, j : FlexRayHeld(s, R, r) /\ j \in Job /\ j \notin R /\ j # r
                     => FlexRayHeld(FlexRay!addedNewTask(s, j), R \cup {j}, r)
  /\ \A s, R, r : FlexRayHeld(s, R, r) /\ r \in Job /\ r \notin R
                  => FlexRayHeld(FlexRay!removedTask(s, r), R, NoTask)
  /\ \A s, R, r : FlexRayHeld(s, R, r) => FlexRayHeld(FlexRay!elapsed(s), R, r)
<1> DEFINE D == FrameSlots
           key == FrameTable.slotOf
<1>0. key \in [Job -> D] /\ NoTask \notin Job /\ Longest \in Nat
      /\ CycleRound \in Nat \ {0} /\ Len(FrameTable.slots) \in Nat
      /\ Len(FrameTable.dynamic) \in Nat /\ FlexRay!cycle_length \in Nat \ {0}
  BY TableSlots, FlexRayLengths DEF SchedulerAssumption, JobAssumption
<1>a. ASSUME NEW s, FrameTyped(s), NEW f \in [D -> Seq(Job)]
      PROVE  /\ FrameTyped([s EXCEPT !.fifo = f]) /\ [s EXCEPT !.fifo = f].fifo = f
             /\ [s EXCEPT !.fifo = f].slot = s.slot /\ [s EXCEPT !.fifo = f].slice = s.slice
  BY <1>a, FrameFields DEF FrameTyped
<1>1. FlexRayHeld(FlexRay!initial, {}, NoTask)
  <2>1. FrameTyped(FlexRay!initial)
    <3> DEFINE i == FlexRay!initial
    <3>1. i = [f \in FrameField |-> i[f]]
      BY DEF FlexRay!initial, FrameField
    <3>2. /\ i.class = "FLEXRAY" /\ i.slot = 0 /\ i.slice = 0 /\ i.since = 0 /\ i.cycle = 0
          /\ i.clock = 0 /\ i.toInit = FALSE /\ i.lead = 0 /\ i.slotA = 0 /\ i.slotB = 0
          /\ i.sliceA = 0 /\ i.sinceA = 0 /\ i.fifo = [k \in FrameSlots |-> <<>>]
          /\ i.params = FlexRay!asConfigured /\ i.own = FlexRay!asConfigured /\ i.ids = 0
      BY DEF FlexRay!initial, FrameSlots, FlexRay!StartslotDynamic
    <3> HIDE DEF i
    <3>3. 0 \in 0..(Len(FrameTable.slots) + 1) /\ 0 \in 0..Len(FrameTable.dynamic)
      BY <1>0
    <3>4. i.fifo \in [FrameSlots -> Seq(Job)]
      BY <3>2
    <3>5. /\ i.slot \in 0..(Len(FrameTable.slots) + 1) /\ i.toInit \in BOOLEAN
          /\ i.slotA \in 0..Len(FrameTable.dynamic) /\ i.slotB \in 0..Len(FrameTable.dynamic)
      BY <3>2, <3>3
    <3>6. /\ i.slice \in Nat /\ i.since \in Nat /\ i.cycle \in Nat /\ i.clock \in Nat
          /\ i.lead \in Int /\ i.sliceA \in Nat /\ i.sinceA \in Nat /\ i.ids \in Nat
      BY <3>2
    <3>7. i.params \in [Job -> Job] /\ i.own \in [Job -> Job]
      BY <3>2 DEF FlexRay!asConfigured
    <3>8. FrameTyped(i)
      BY <3>1, <3>2, <3>4, <3>5, <3>6, <3>7 DEF FrameTyped
    <3> QED  BY <3>8 DEF i
  <2>2. current({}, NoTask) = {}
    BY DEF current
  <2> QED  BY <2>1, <2>2, SortedEmpty DEF FlexRayHeld, FlexRay!initial, FrameSlots,
                                              FlexRay!StartslotDynamic
<1> HIDE DEF D, key
<1>2. ASSUME NEW s, NEW R, NEW r, NEW j \in Job, FlexRayHeld(s, R, r), j \notin R, j # r
      PROVE  FlexRayHeld(FlexRay!addedNewTask(s, j), R \cup {j}, r)
  <2> DEFINE f == [s.fifo EXCEPT ![key[j]] = Append(@, j)]
  <2>1. FrameTyped(s) /\ Sorted(s.fifo, key, D, current(R, r)) /\ j \notin current(R, r)
    BY <1>2 DEF FlexRayHeld, current, key, D
  <2>2. Sorted(f, key, D, current(R, r) \cup {j})
    BY <1>0, <2>1, SortedAdd
  <2>3. current(R \cup {j}, r) = current(R, r) \cup {j}
    BY <1>0 DEF current
  <2>4. FlexRay!enqueued(s.fifo, j) = f
    BY DEF FlexRay!enqueued, key
  <2> DEFINE t == FlexRay!addedNewTask(s, j)
  <2>5. FrameTyped(t) /\ t.fifo = f /\ t.slot = s.slot /\ t.slice = s.slice
    BY <2>1, <2>4, FlexRayAdded
  <2> HIDE DEF t, f
  <2>6. FlexRayHeld(t, R \cup {j}, r)
    BY <1>2, <2>2, <2>3, <2>5 DEF FlexRayHeld, key, D
  <2> QED  BY <2>6 DEF t
<1>3. ASSUME NEW s, NEW R, NEW r \in Job, FlexRayHeld(s, R, r), r \notin R
      PROVE  FlexRayHeld(FlexRay!removedTask(s, r), R, NoTask)
  <2> DEFINE f == [s.fifo EXCEPT ![key[r]] = RemoveFirst(@, r)]
  <2>1. FrameTyped(s) /\ Sorted(s.fifo, key, D, current(R, r))
    BY <1>3 DEF FlexRayHeld, key, D
  <2>2. Sorted(f, key, D, current(R, r) \ {r})
    BY <1>0, <2>1, SortedRemove
  <2>3. current(R, NoTask) = current(R, r) \ {r}
    BY <1>0, <1>3 DEF current
  <2>4. FlexRay!removedTask(s, r) = [s EXCEPT !.fifo = f]
    BY FlexRayWithout DEF FlexRay!removedTask, FlexRay!dequeued, key
  <2> HIDE DEF f
  <2>5. f \in [D -> Seq(Job)]
    BY <2>2 DEF Sorted
  <2> QED  BY <1>3, <1>a, <2>1, <2>2, <2>3, <2>4, <2>5 DEF FlexRayHeld, key, D
<1>4. ASSUME NEW s, NEW R, NEW r, FlexRayHeld(s, R, r)
      PROVE  FlexRayHeld(FlexRay!elapsed(s), R, r)
  <2> DEFINE e == FlexRay!elapsed(s)
             a == IF s.clock + 1 = 2 * CycleRound * FlexRay!cycle_length
                  THEN CycleRound * FlexRay!cycle_length ELSE s.clock + 1
             b == IF s.toInit /\ ~(s.slot = 0 /\ FlexRay!idle(s)) THEN s.lead + 1 ELSE s.lead
             m == FlexRay!elapsedSince(s.since)
             n == FlexRay!elapsedSince(s.sinceA)
  <2>1. FrameTyped(s) /\ s.clock \in Nat /\ s.lead \in Int
    BY <1>4 DEF FlexRayHeld, FrameTyped
  <2>2. a \in Nat
    <3>1. \A x, y \in Nat : x * y \in Nat
      OBVIOUS
    <3>2. CycleRound * FlexRay!cycle_length \in Nat
      BY <1>0, <3>1
    <3> QED  BY <2>1, <3>2
  <2>3. b \in Int /\ m \in Nat /\ n \in Nat
    BY <2>1, SMTT(30) DEF FlexRay!elapsedSince, FrameTyped
  <2>4. e = [s EXCEPT !.since = m, !.sinceA = n, !.clock = a, !.lead = b]
    BY <2>1 DEF FlexRay!elapsed, FrameTyped
  <2> HIDE DEF a, b, m, n, e
  <2>5. FrameTyped(e) /\ e.fifo = s.fifo /\ e.slot = s.slot /\ e.slice = s.slice
    <3>1. e = [f \in FrameField |-> IF f = "lead" THEN b ELSE IF f = "clock" THEN a
                                   ELSE IF f = "sinceA" THEN n ELSE IF f = "since" THEN m
                                   ELSE s[f]]
      BY <2>1, <2>4 DEF FrameTyped
    <3> QED  BY <2>1, <2>2, <2>3, <3>1, FrameFields DEF FrameTyped
  <2> QED  BY <1>4, <2>5 DEF FlexRayHeld, e
<1> QED  BY <1>1, <1>2, <1>3, <1>4

\* The slot the clock is in is one of the static ones, and some of it is left.
LEMMA FlexRayCorrected ==
  ASSUME SchedulerAssumption, NEW t, FrameTyped(t), t.slot \in 1..Len(FrameTable.slots)
  PROVE  LET c == FlexRay!corrected(t)
         IN  /\ FrameTyped(c) /\ c.fifo = t.fifo /\ c.slot \in 1..Len(FrameTable.slots)
             /\ c.since = t.since
<1> DEFINE N == Len(FrameTable.slots)
           o == FlexRay!offsets
           into == IF t.lead < 0 THEN t.lead + FlexRay!cycle_length ELSE t.lead
           ended == {i \in 1..N : into <= o[i + 1]}
           first == Min(ended)
           u == [t EXCEPT !.toInit = FALSE, !.lead = 0]
           c == FlexRay!corrected(t)
<1>1. /\ N \in Nat \ {0} /\ DOMAIN FrameTable.slots = 1..N
      /\ \A i \in 1..N : o[i + 1] \in Nat
      /\ FlexRay!lastOffset = o[N + 1]
  BY FlexRayLengths
<1>2. into \in Int
  <2>1. t.lead \in Int /\ FlexRay!cycle_length \in Nat
    BY FlexRayLengths DEF FrameTyped
  <2> QED  BY <2>1
<1>3. FrameTyped(u) /\ u.fifo = t.fifo /\ u.slot = t.slot /\ u.since = t.since
  <2>1. u = [f \in FrameField |-> IF f = "lead" THEN 0 ELSE IF f = "toInit" THEN FALSE
                                 ELSE t[f]]
    BY DEF FrameTyped
  <2> HIDE DEF u
  <2> QED  BY <2>1, FrameFields DEF FrameTyped
<1>4. c = IF ended = {} THEN [u EXCEPT !.slice = into - FlexRay!lastOffset]
          ELSE [u EXCEPT !.slot = first, !.slice = o[first + 1] - into]
  <2>1. ended = {i \in DOMAIN FrameTable.slots : into <= o[i + 1]}
    BY <1>1
  <2>2. first = FlexRay!Min({i \in DOMAIN FrameTable.slots : into <= o[i + 1]})
    BY <2>1 DEF Min, FlexRay!Min
  <2> HIDE DEF first
  <2> QED  BY <2>1, <2>2 DEF FlexRay!corrected
<1> HIDE DEF N, o, into, u, c
<1>5. CASE ended = {}
  <2>1. N \in 1..N /\ N \notin ended
    BY <1>1, <1>5
  <2>2. into - FlexRay!lastOffset \in Nat
    BY <1>1, <1>2, <2>1
  <2> HIDE DEF ended, first
  <2>3. c = [u EXCEPT !.slice = into - FlexRay!lastOffset]
    BY <1>4, <1>5
  <2>4. FrameTyped(c) /\ c.fifo = u.fifo /\ c.slot = u.slot /\ c.since = u.since
    BY <1>3, <2>2, <2>3, FrameFields DEF FrameTyped
  <2> QED  BY <1>3, <2>4 DEF c, N
<1>6. CASE ended # {}
  <2>1. first \in ended
    <3>1. ended \subseteq Nat
      BY <1>1
    <3> HIDE DEF ended
    <3> QED  BY <1>6, <3>1, FirstOf
  <2> HIDE DEF first
  <2>2. first \in 1..N /\ o[first + 1] - into \in Nat
    BY <1>1, <1>2, <2>1
  <2>3. c = [u EXCEPT !.slot = first, !.slice = o[first + 1] - into]
    BY <1>4, <1>6 DEF first
  <2>4. first \in 0..(Len(FrameTable.slots) + 1)
    BY <1>1, <2>2 DEF N
  <2>5. FrameTyped(c) /\ c.fifo = u.fifo /\ c.slot = first /\ c.since = u.since
    <3> DEFINE n == o[first + 1] - into
    <3>1. c = [f \in FrameField |-> IF f = "slice" THEN n ELSE IF f = "slot" THEN first
                                   ELSE u[f]]
      BY <1>3, <2>3 DEF FrameTyped
    <3>2. n \in Nat
      BY <2>2
    <3> HIDE DEF n
    <3> QED  BY <1>3, <2>4, <3>1, <3>2, FrameFields DEF FrameTyped
  <2> QED  BY <1>3, <2>2, <2>5 DEF c, N
<1> QED  BY <1>5, <1>6

\* Decisions in the static segment: a task is resigned at the end of its slot, and
\* only a waiting one is assigned.
LEMMA FlexRayStatic ==
  ASSUME SchedulerAssumption, NEW s, NEW R, NEW r, Instances(R, r), FlexRayHeld(s, R, r),
         s.slot < Len(FrameTable.slots), NEW d \in FlexRay!static(s, r)
  PROVE  /\ Sound(d, R, r)
         /\ FrameTyped(d.state) /\ d.state.fifo = s.fifo /\ d.state.slot # 0
         /\ d.state.since = 0
         /\ FlexRayFits(s, r) => FlexRayFits(d.state, runningAfter(d, r))
<1> DEFINE L == FrameTable.slots
           D == 1..Len(L)
           like(t) == FrameTyped(t) /\ t.fifo = s.fifo
           a == FlexRay!aged(s)
           n == FlexRay!nextSlot(a)
<1>1. NoTask \notin Job
  BY DEF SchedulerAssumption, JobAssumption
<1>2. FrameTyped(s) /\ Sorted(s.fifo, FrameTable.slotOf, FrameSlots, current(R, r))
      /\ (s.slot = 0 => s.slice = 0)
  BY DEF FlexRayHeld
<1>3. /\ Len(L) \in Nat \ {0} /\ D \subseteq FrameSlots
      /\ \A i \in D : L[i] \in Nat
  <2>1. /\ Len(L) \in Nat \ {0} /\ Len(FrameTable.dynamic) \in Nat
        /\ \A i \in D : L[i] \in Nat
    BY FlexRayLengths
  <2>2. FrameSlots = 1..(Len(L) + Len(FrameTable.dynamic))
    BY DEF FrameSlots
  <2> HIDE DEF L
  <2> QED  BY <2>1, <2>2
<1> HIDE DEF L
<1>4. like(a) /\ a.slot = s.slot /\ a.since = 0 /\ (s.slice = 0 => a.slice = 0)
      /\ a.cycle = s.cycle /\ a.own = s.own
  <2>1. s.slice \in Nat /\ s.since \in Nat
    BY <1>2 DEF FrameTyped
  <2>2. FlexRay!until(s.slice - s.since) \in Nat
        /\ (s.slice = 0 => FlexRay!until(s.slice - s.since) = 0)
    BY <2>1 DEF FlexRay!until
  <2> DEFINE w == FlexRay!until(s.slice - s.since)
  <2>3. a = [f \in FrameField |-> IF f = "since" THEN 0 ELSE IF f = "slice" THEN w ELSE s[f]]
    BY <1>2 DEF FlexRay!aged, FrameTyped
  <2> HIDE DEF a, w
  <2>4. FrameTyped(a) /\ a.fifo = s.fifo /\ a.slot = s.slot /\ a.slice = w /\ a.since = 0
        /\ a.cycle = s.cycle /\ a.own = s.own
    BY <1>2, <2>2, <2>3, FrameFields DEF FrameTyped, w
  <2> QED  BY <2>2, <2>4 DEF w
<1>5. like(n) /\ n.slot \in D /\ n.since = 0
  <2> HIDE DEF a
  <2>1. FrameTyped(a) /\ a.slot + 1 \in D /\ a.slot + 1 \in 0..(Len(L) + 1)
    <3>1. a.slot \in 0..(Len(L) + 1) /\ a.slot < Len(L)
      BY <1>2, <1>4 DEF FrameTyped, L
    <3> QED  BY <1>3, <1>4, <3>1
  <2> DEFINE m == a.slot + 1
             x == L[m]
  <2>2. n = [f \in FrameField |-> IF f = "slice" THEN x ELSE IF f = "slot" THEN m ELSE a[f]]
    BY <2>1 DEF FlexRay!nextSlot, FrameTyped, L
  <2>3. x \in Nat
    BY <1>3, <2>1
  <2> HIDE DEF n, m, x
  <2>4. m \in D /\ m \in 0..(Len(L) + 1)
    BY <2>1 DEF m
  <2>5. FrameTyped(n) /\ n.fifo = a.fifo /\ n.slot = m /\ n.since = a.since
    BY <2>1, <2>2, <2>3, <2>4, FrameFields DEF FrameTyped, L
  <2> QED  BY <1>4, <2>4, <2>5
<1> HIDE DEF a, n
<1>6. ASSUME NEW t, like(t), t.slot \in D
      PROVE  /\ FlexRay!atStart(t) \in 0..Len(t.fifo[t.slot])
             /\ FlexRay!later(t) \in 0..Len(t.fifo[t.slot])
             /\ \A k \in 1..Len(t.fifo[t.slot]) :
                  /\ t.fifo[t.slot][k] \in current(R, r)
                  /\ FrameTable.slotOf[t.fifo[t.slot][k]] = t.slot
             /\ Len(t.fifo[t.slot]) \in Nat
             /\ \A m \in {FlexRay!atStart(t), FlexRay!later(t)} :
                  m # 0 => FlexRay!allowed(t, t.fifo[t.slot][m])
  <2>1. Lists(t.fifo[t.slot], {j \in current(R, r) : FrameTable.slotOf[j] = t.slot})
    BY <1>2, <1>3, <1>6 DEF Sorted
  <2>2. t.fifo[t.slot] \in Seq(Job)
    BY <2>1 DEF Lists
  <2>3. t.cycle \in Nat /\ t.own \in [Job -> Job]
    BY <1>6 DEF FrameTyped
  <2>4. /\ FlexRay!atStart(t) \in 0..Len(t.fifo[t.slot])
        /\ FlexRay!later(t) \in 0..Len(t.fifo[t.slot])
        /\ \A m \in {FlexRay!atStart(t), FlexRay!later(t)} :
             m # 0 => FlexRay!allowed(t, t.fifo[t.slot][m])
    BY <2>2, <2>3, FlexRayPlaces
  <2>5. \A k \in 1..Len(t.fifo[t.slot]) :
          /\ t.fifo[t.slot][k] \in current(R, r)
          /\ FrameTable.slotOf[t.fifo[t.slot][k]] = t.slot
    BY <2>1 DEF Lists
  <2>6. Len(t.fifo[t.slot]) \in Nat
    BY <2>2
  <2> QED  BY <2>4, <2>5, <2>6
<1>7. ASSUME NEW t, like(t), t.slot \in D, d \in FlexRay!slotStarts(t, r)
      PROVE  Sound(d, R, r) /\ d.state = t /\ FlexRayFits(t, runningAfter(d, r))
  <2> DEFINE j == t.fifo[t.slot][FlexRay!atStart(t)]
  <2>1. CASE FlexRay!atStart(t) = 0
    BY <1>1, <1>7, <2>1
    DEF FlexRay!slotStarts, FlexRay!stopRunning, FlexRay!noChange, FlexRay!resigned,
        FlexRay!decide, Sound, offered, kept, runningAfter, FlexRayFits
  <2>2. CASE FlexRay!atStart(t) # 0
    <3>1. d = FlexRay!switch(r, j, t)
      BY <1>7, <2>2 DEF FlexRay!slotStarts
    <3>2. j \in current(R, r) /\ FrameTable.slotOf[j] = t.slot /\ FlexRay!allowed(t, j)
      BY <1>6, <1>7, <2>2
    <3> HIDE DEF j
    <3>3. CASE r = NoTask
      BY <1>7, <3>1, <3>2, <3>3
      DEF FlexRay!switch, FlexRay!onlyAssign, FlexRay!decide, Sound, offered, kept, current,
          runningAfter, FlexRayFits, L
    <3>4. CASE r # NoTask
      BY <1>7, <3>1, <3>2, <3>4
      DEF FlexRay!switch, FlexRay!preempt, FlexRay!decide, Sound, offered, kept, current,
          runningAfter, FlexRayFits, L
    <3> QED  BY <3>3, <3>4
  <2> QED  BY <2>1, <2>2
<1>8. ASSUME NEW t, like(t), t.slot \in D, d \in FlexRay!withinSlot(t, r)
      PROVE  /\ Sound(d, R, r) /\ d.state = t
             /\ FlexRayFits(t, r) => FlexRayFits(t, runningAfter(d, r))
  <2> DEFINE j == t.fifo[t.slot][FlexRay!later(t)]
  <2>1. CASE r # NoTask \/ FlexRay!later(t) = 0
    BY <1>1, <1>8, <2>1
    DEF FlexRay!withinSlot, FlexRay!noChange, FlexRay!decide, Sound, offered, kept, runningAfter
  <2>2. CASE ~(r # NoTask \/ FlexRay!later(t) = 0)
    <3>1. d = FlexRay!onlyAssign(j, t)
      BY <1>8, <2>2 DEF FlexRay!withinSlot
    <3>2. j \in current(R, r) /\ FrameTable.slotOf[j] = t.slot /\ FlexRay!allowed(t, j)
      BY <1>6, <1>8, <2>2
    <3> HIDE DEF j
    <3> QED  BY <1>8, <2>2, <3>1, <3>2
             DEF FlexRay!onlyAssign, FlexRay!decide, Sound, offered, kept, current,
                 runningAfter, FlexRayFits, L
  <2> QED  BY <2>1, <2>2
<1>9. CASE a.slice > 0
  <2>1. d \in FlexRay!withinSlot(a, r)
    BY <1>9 DEF FlexRay!static, a
  <2>2. a.slot \in D
    <3>1. s.slot # 0
      BY <1>2, <1>4, <1>9
    <3>2. s.slot \in Nat
      BY <1>2 DEF FrameTyped
    <3> QED  BY <1>3, <1>4, <3>1, <3>2 DEF L
  <2>3. FlexRayFits(s, r) => FlexRayFits(a, r)
    BY <1>4 DEF FlexRayFits, FlexRay!allowed, FlexRay!inCycle
  <2> QED  BY <1>3, <1>4, <1>8, <2>1, <2>2, <2>3
<1>10. CASE ~(a.slice > 0)
  <2> DEFINE t == IF s.toInit /\ r = NoTask THEN FlexRay!corrected(n) ELSE n
  <2>1. d \in FlexRay!slotStarts(t, r)
    BY <1>10 DEF FlexRay!static, a, n
  <2>2. LET c == FlexRay!corrected(n) IN like(c) /\ c.slot \in D /\ c.since = 0
    BY <1>5, FlexRayCorrected DEF L
  <2>3. like(t) /\ t.slot \in D /\ t.since = 0
    BY <1>5, <2>2
  <2> HIDE DEF t
  <2> QED  BY <1>3, <1>7, <2>1, <2>3
<1> QED  BY <1>9, <1>10

\* Decisions in the dynamic segment: the slot counter finds a waiting task or the
\* next cycle, and a task that is done makes room.
LEMMA FlexRayDynamic ==
  ASSUME SchedulerAssumption, NEW s, NEW R, NEW r, Instances(R, r), FlexRayHeld(s, R, r),
         s.slot > Len(FrameTable.slots),
         NEW d, r = NoTask => d \in FlexRay!idleDynamic(s),
         r # NoTask => d \in FlexRay!busyDynamic(s, r)
  PROVE  /\ Sound(d, R, r)
         /\ FrameTyped(d.state) /\ d.state.fifo = s.fifo /\ d.state.slot = s.slot
         /\ FlexRayFits(s, r) => FlexRayFits(d.state, runningAfter(d, r))
<1> DEFINE N == Len(FrameTable.slots)
           M == Len(FrameTable.dynamic)
           like(t) == FrameTyped(t) /\ t.fifo = s.fifo /\ t.slot = s.slot
           fits == FlexRayFits(s, r) => FlexRayFits(d.state, runningAfter(d, r))
           onA == FlexRay!frames(s, s.slotA)
           onB == FlexRay!frames(s, s.slotB)
<1>1. NoTask \notin Job /\ N \in Nat \ {0} /\ M \in Nat
      /\ \A i \in 1..M : FrameTable.dynamic[i] \in Nat
  BY FlexRayLengths DEF SchedulerAssumption, JobAssumption
<1>2. FrameTyped(s) /\ Sorted(s.fifo, FrameTable.slotOf, FrameSlots, current(R, r))
      /\ s.slotA \in 0..M /\ s.slotB \in 0..M
  BY DEF FlexRayHeld, FrameTyped
<1>3. ASSUME NEW k \in 0..M, FlexRay!frames(s, k) # <<>>
      PROVE  /\ k + 1 \in 1..M /\ Head(FlexRay!frames(s, k)) \in current(R, r)
             /\ FrameTable.slotOf[Head(FlexRay!frames(s, k))] > N
  <2>1. k < M /\ FlexRay!frames(s, k) = s.fifo[N + k + 1]
    BY <1>3 DEF FlexRay!frames, FlexRay!StartslotDynamic
  <2>2. N + k + 1 \in FrameSlots /\ k + 1 \in 1..M /\ N + k + 1 > N
    <3>1. N + k + 1 \in 1..(N + M) /\ k + 1 \in 1..M /\ N + k + 1 > N
      <4> HIDE DEF N, M
      <4> QED  BY <1>1, <2>1
    <3> QED  BY <3>1 DEF FrameSlots
  <2> DEFINE q == FlexRay!frames(s, k)
             own == {j \in current(R, r) : FrameTable.slotOf[j] = N + k + 1}
  <2>3. Lists(q, own)
    BY <1>2, <2>1, <2>2 DEF Sorted
  <2>4. q # <<>>
    BY <1>3
  <2> HIDE DEF q, own
  <2>5. Head(q) \in own
    BY <2>3, <2>4, ListsHead
  <2> QED  BY <2>2, <2>5 DEF q, own
<1>4. onA # <<>> => /\ s.slotA + 1 \in 1..M /\ Head(onA) \in current(R, r)
                    /\ FrameTable.slotOf[Head(onA)] > N
  BY <1>2, <1>3
<1>5. onB # <<>> => /\ s.slotB + 1 \in 1..M /\ Head(onB) \in current(R, r)
                    /\ FrameTable.slotOf[Head(onB)] > N
  BY <1>2, <1>3
<1>6. ASSUME NEW t, like(t), d = FlexRay!noChange(t)
      PROVE  Sound(d, R, r) /\ d.state = t /\ fits
  BY <1>1, <1>6 DEF FlexRay!noChange, FlexRay!decide, Sound, offered, kept, runningAfter,
                    FlexRayFits
<1>7. ASSUME r = NoTask
      PROVE  Sound(d, R, r) /\ like(d.state) /\ fits
  <2>1. d \in FlexRay!idleDynamic(s)
    BY <1>7
  <2>2. ASSUME NEW j \in current(R, r), FrameTable.slotOf[j] > N,
               NEW t, like(t), d = FlexRay!onlyAssign(j, t)
        PROVE  Sound(d, R, r) /\ like(d.state) /\ fits
    BY <1>7, <2>2 DEF FlexRay!onlyAssign, FlexRay!decide, Sound, offered, kept, current,
                      runningAfter, FlexRayFits
  <2>3. CASE onA # <<>>
    <3> DEFINE t == [s EXCEPT !.slotA = @ + 1, !.sinceA = 0,
                              !.sliceA = FrameTable.dynamic[s.slotA + 1]]
    <3>1. d = FlexRay!onlyAssign(Head(onA), t)
      BY <2>1, <2>3 DEF FlexRay!idleDynamic
    <3>2. like(t)
      <4> DEFINE m == s.slotA + 1
                 n == FrameTable.dynamic[m]
      <4>1. t = [f \in FrameField |-> IF f = "sliceA" THEN n ELSE IF f = "sinceA" THEN 0
                                     ELSE IF f = "slotA" THEN m ELSE s[f]]
        BY <1>2 DEF FrameTyped
      <4>2. m \in 0..Len(FrameTable.dynamic) /\ n \in Nat
        BY <1>1, <1>4, <2>3
      <4> HIDE DEF t, m, n
      <4> QED  BY <1>2, <4>1, <4>2, FrameFields DEF FrameTyped
    <3> HIDE DEF t, onA
    <3> QED  BY <1>4, <2>2, <2>3, <3>1, <3>2
  <2>4. CASE onA = <<>> /\ s.slotA < M /\ onB # <<>>
    <3> DEFINE t == [s EXCEPT !.slotB = @ + 1]
    <3>1. d = FlexRay!onlyAssign(Head(onB), t)
      BY <2>1, <2>4 DEF FlexRay!idleDynamic
    <3>2. like(t)
      <4> DEFINE m == s.slotB + 1
      <4>1. t = [f \in FrameField |-> IF f = "slotB" THEN m ELSE s[f]]
        BY <1>2 DEF FrameTyped
      <4>2. m \in 0..Len(FrameTable.dynamic)
        BY <1>1, <1>5, <2>4
      <4> HIDE DEF t, m
      <4> QED  BY <1>2, <4>1, <4>2, FrameFields DEF FrameTyped
    <3> HIDE DEF t, onB
    <3> QED  BY <1>5, <2>2, <2>4, <3>1, <3>2
  <2>5. CASE onA = <<>> /\ s.slotA < M /\ onB = <<>> /\ s.slotB < M
    <3> DEFINE t == [s EXCEPT !.slotA = @ + 1, !.slotB = @ + 1]
    <3>1. d = FlexRay!noChange(t)
      BY <2>1, <2>5 DEF FlexRay!idleDynamic
    <3>2. like(t)
      <4> DEFINE m == s.slotA + 1
                 n == s.slotB + 1
      <4>1. t = [f \in FrameField |-> IF f = "slotB" THEN n ELSE IF f = "slotA" THEN m
                                     ELSE s[f]]
        BY <1>2 DEF FrameTyped
      <4>2. m \in 0..Len(FrameTable.dynamic) /\ n \in 0..Len(FrameTable.dynamic)
        BY <1>1, <1>2, <2>5
      <4> HIDE DEF t, m, n
      <4> QED  BY <1>2, <4>1, <4>2, FrameFields DEF FrameTyped
    <3> HIDE DEF t
    <3> QED  BY <1>6, <3>1, <3>2
  <2>6. CASE /\ onA = <<>> /\ ~(s.slotA < M /\ onB # <<>>)
             /\ ~(s.slotA < M /\ onB = <<>> /\ s.slotB < M)
    <3>1. d = FlexRay!noChange(s)
      BY <2>1, <2>6 DEF FlexRay!idleDynamic
    <3> QED  BY <1>2, <1>6, <3>1
  <2> QED  BY <2>3, <2>4, <2>5, <2>6
<1>8. ASSUME r # NoTask
      PROVE  Sound(d, R, r) /\ like(d.state) /\ fits
  <2> DEFINE rest == FlexRay!until(s.sliceA - s.sinceA)
             next == s.slotA + 1 < M
             n == IF next THEN FrameTable.dynamic[s.slotA + 1] ELSE 0
             t == [s EXCEPT !.sinceA = 0, !.sliceA = n]
             u == [s EXCEPT !.sliceA = rest, !.sinceA = 0]
  <2>1. d \in FlexRay!busyDynamic(s, r)
    BY <1>8
  <2>2. rest \in Nat /\ n \in Nat
    <3>1. s.sliceA \in Nat /\ s.sinceA \in Nat
      BY <1>2 DEF FrameTyped
    <3>2. rest \in Nat
      BY <3>1 DEF FlexRay!until
    <3>3. n \in Nat
      <4>1. next => s.slotA + 1 \in 1..M
        <5> HIDE DEF M
        <5> QED  BY <1>1, <1>2
      <4> HIDE DEF next
      <4> QED  BY <1>1, <4>1
    <3> QED  BY <3>2, <3>3
  <2>3. d \in {FlexRay!noChange(s), FlexRay!noChange(u), FlexRay!resigned(r, t)}
        \/ (onA # <<>> /\ d = FlexRay!preempt(r, Head(onA), t))
    BY <2>1 DEF FlexRay!busyDynamic
  <2> HIDE DEF rest, next, n
  <2>4. like(t) /\ like(u)
    <3>1. t = [f \in FrameField |-> IF f = "sliceA" THEN n ELSE IF f = "sinceA" THEN 0 ELSE s[f]]
      BY <1>2 DEF FrameTyped
    <3>2. u = [f \in FrameField |-> IF f = "sinceA" THEN 0 ELSE IF f = "sliceA" THEN rest ELSE s[f]]
      BY <1>2 DEF FrameTyped
    <3> HIDE DEF t, u
    <3>3. like(t)
      BY <1>2, <2>2, <3>1, FrameFields DEF FrameTyped
    <3>4. like(u)
      BY <1>2, <2>2, <3>2, FrameFields DEF FrameTyped
    <3> QED  BY <3>3, <3>4
  <2> HIDE DEF t, u
  <2>5. CASE d = FlexRay!noChange(s) \/ d = FlexRay!noChange(u)
    BY <1>2, <1>6, <2>4, <2>5
  <2>6. CASE d = FlexRay!resigned(r, t)
    BY <1>1, <1>8, <2>4, <2>6 DEF FlexRay!resigned, FlexRay!decide, Sound, offered, kept,
                                  runningAfter, FlexRayFits
  <2>7. CASE onA # <<>> /\ d = FlexRay!preempt(r, Head(onA), t)
    <3>1. Head(onA) \in R \cup {r} /\ FrameTable.slotOf[Head(onA)] > N
      BY <1>4, <2>7 DEF current
    <3> HIDE DEF onA
    <3> QED  BY <1>8, <2>4, <2>7, <3>1
             DEF FlexRay!preempt, FlexRay!decide, Sound, offered, kept, runningAfter,
                 FlexRayFits
  <2> QED  BY <2>3, <2>5, <2>6, <2>7
<1> QED  BY <1>7, <1>8

\* FlexRayScheduler::schedulingDecision: in each segment the queues follow the
\* decision, and the next slot is awaited.
LEMMA FlexRayDecides ==
  ASSUME SchedulerAssumption, NEW s, NEW R, NEW r, Instances(R, r), FlexRayHeld(s, R, r),
         NEW d \in FlexRay!schedulingDecision(s, r),
         NEW slice, slice = FlexRay!getSchedulerTimeSlice(d.state, offered(d, R), kept(d, r))
  PROVE  /\ Sound(d, R, r)
         /\ FlexRayHeld(d.state, readyAfter(d, R), runningAfter(d, r))
         /\ Timed(slice, d, R, r)
         /\ FlexRayFits(s, r) => FlexRayFits(d.state, runningAfter(d, r))
         /\ d.state.slot \in 1..Len(FrameTable.slots) =>
              slice \in Nat /\ slice = d.state.slice - d.state.since
<1> DEFINE N == Len(FrameTable.slots)
           like(t) == /\ FrameTyped(t) /\ t.fifo = s.fifo /\ (t.slot = 0 => t.slice = 0)
                      /\ t.slot \in 1..N => t.since = 0
           fits == FlexRayFits(s, r) => FlexRayFits(d.state, runningAfter(d, r))
<1>1. NoTask \notin Job /\ N \in Nat \ {0} /\ DOMAIN FrameTable.slots = 1..N
      /\ FrameTable.length \in Nat /\ Microtick \in Nat /\ CycleRound \in Nat \ {0}
  BY FlexRayLengths DEF SchedulerAssumption, JobAssumption
<1>2. /\ FrameTyped(s) /\ (s.slot = 0 => s.slice = 0)
      /\ s.slot \in 0..(N + 1) /\ s.slice \in Nat /\ s.since \in Nat
  BY DEF FlexRayHeld, FrameTyped
<1>3. ASSUME NEW t, like(t),
             \/ d = FlexRay!stopRunning(r, t)
             \/ d = FlexRay!noChange(t) /\ t.slot = s.slot
                /\ t.cycle = s.cycle /\ t.own = s.own
      PROVE  Sound(d, R, r) /\ like(d.state) /\ fits
  <2>1. CASE d = FlexRay!stopRunning(r, t)
    BY <1>1, <1>3, <2>1
    DEF FlexRay!stopRunning, FlexRay!noChange, FlexRay!resigned, FlexRay!decide, Sound,
        offered, kept, runningAfter, FlexRayFits
  <2>2. CASE d = FlexRay!noChange(t) /\ t.slot = s.slot /\ t.cycle = s.cycle /\ t.own = s.own
    <3>1. FlexRayFits(s, r) => FlexRayFits(t, r)
      BY <2>2 DEF FlexRayFits, FlexRay!allowed, FlexRay!inCycle
    <3>2. Sound(d, R, r) /\ d.state = t /\ runningAfter(d, r) = r
      BY <1>1, <2>2 DEF FlexRay!noChange, FlexRay!decide, Sound, offered, kept, runningAfter
    <3> QED  BY <1>3, <3>1, <3>2
  <2> QED  BY <1>3, <2>1, <2>2
<1>4. Sound(d, R, r) /\ like(d.state) /\ fits
  <2>1. CASE s.slot < N
    <3>1. d \in FlexRay!static(s, r)
      BY <1>1, <1>2, <2>1 DEF FlexRay!schedulingDecision, FlexRay!StartslotDynamic
    <3> QED  BY <2>1, <3>1, FlexRayStatic
  <2>2. CASE s.slot = N /\ s.slice > 0
    <3> DEFINE t == FlexRay!aged(s)
    <3>1. d = FlexRay!noChange(t)
      BY <1>1, <2>2 DEF FlexRay!schedulingDecision, FlexRay!StartslotDynamic
    <3>2. FlexRay!until(s.slice - s.since) \in Nat
      BY <1>2 DEF FlexRay!until
    <3>3. like(t) /\ t.slot = s.slot /\ t.cycle = s.cycle /\ t.own = s.own
      <4> DEFINE n == FlexRay!until(s.slice - s.since)
      <4>1. t = [f \in FrameField |-> IF f = "since" THEN 0 ELSE IF f = "slice" THEN n ELSE s[f]]
        BY <1>2 DEF FlexRay!aged, FrameTyped
      <4>2. s.slot # 0
        BY <1>1, <2>2
      <4> HIDE DEF t, n
      <4> QED  BY <1>2, <3>2, <4>1, <4>2, FrameFields DEF FrameTyped, n
    <3> HIDE DEF t
    <3> QED  BY <1>3, <3>1, <3>3
  <2>3. CASE s.slot = N /\ s.slice = 0
    <3> DEFINE t == FlexRay!dynamicStarts(s)
    <3>1. d = FlexRay!stopRunning(r, t)
      BY <1>1, <2>3 DEF FlexRay!schedulingDecision, FlexRay!StartslotDynamic
    <3>2. 0 \in 0..Len(FrameTable.dynamic) /\ N + 1 \in 0..(N + 1) /\ N + 1 # 0
      BY <1>1, FlexRayLengths
    <3>3. like(t)
      <4>1. t = [f \in FrameField |-> IF f \in {"slotA", "slotB", "sliceA", "since"} THEN 0
                                     ELSE IF f = "slice" THEN FrameTable.length
                                     ELSE IF f = "slot" THEN N + 1 ELSE s[f]]
        BY <1>2 DEF FlexRay!dynamicStarts, FrameTyped, FlexRay!StartslotDynamic
      <4> HIDE DEF t
      <4> QED  BY <1>1, <1>2, <3>2, <4>1, FrameFields DEF FrameTyped
    <3> HIDE DEF t
    <3> QED  BY <1>3, <3>1, <3>3
  <2>4. CASE s.slot > N /\ s.slice <= s.since
    <3> DEFINE t == FlexRay!dynamicEnds(s)
    <3>1. d = FlexRay!stopRunning(r, t)
      BY <1>1, <1>2, <2>4 DEF FlexRay!schedulingDecision, FlexRay!StartslotDynamic
    <3>2. 0 \in 0..Len(FrameTable.dynamic) /\ 0 \in 0..(N + 1)
          /\ FlexRay!nextCycle(s.cycle) \in Nat /\ FlexRay!nextLead(s) \in Int
      <4>1. s.cycle \in Nat /\ s.lead \in Int /\ FlexRay!cycle_length \in Nat
            /\ Len(FrameTable.dynamic) \in Nat
        BY <1>2, FlexRayLengths DEF FrameTyped
      <4>2. FlexRay!nextCycle(s.cycle) \in Nat
        BY <1>1, <4>1 DEF FlexRay!nextCycle
      <4>3. FlexRay!nextLead(s) \in Int
        BY <4>1 DEF FlexRay!nextLead
      <4> QED  BY <1>1, <4>1, <4>2, <4>3
    <3>3. like(t)
      <4> DEFINE n == FlexRay!nextCycle(s.cycle)
                 l == FlexRay!nextLead(s)
      <4>1. t = [f \in FrameField |->
                   IF f \in {"slot", "slice", "since", "slotA", "slotB"} THEN 0
                   ELSE IF f = "lead" THEN l ELSE IF f = "cycle" THEN n ELSE s[f]]
        BY <1>2 DEF FlexRay!dynamicEnds, FrameTyped
      <4>2. n \in Nat /\ l \in Int
        BY <3>2
      <4> HIDE DEF t, n, l
      <4> QED  BY <1>2, <3>2, <4>1, <4>2, FrameFields DEF FrameTyped
    <3> HIDE DEF t
    <3> QED  BY <1>3, <3>1, <3>3
  <2>5. CASE s.slot > N /\ s.slice > s.since
    <3>1. /\ r = NoTask => d \in FlexRay!idleDynamic(s)
          /\ r # NoTask => d \in FlexRay!busyDynamic(s, r)
      BY <1>1, <1>2, <2>5 DEF FlexRay!schedulingDecision, FlexRay!StartslotDynamic
    <3>2. /\ Sound(d, R, r) /\ fits
          /\ FrameTyped(d.state) /\ d.state.fifo = s.fifo /\ d.state.slot = s.slot
      BY <2>5, <3>1, FlexRayDynamic, ZenonT(120)
    <3>3. s.slot \notin 1..N /\ s.slot # 0
      BY <1>1, <1>2, <2>5
    <3> QED  BY <3>2, <3>3
  <2> QED  BY <1>1, <1>2, <2>1, <2>2, <2>3, <2>4, <2>5
<1>5. FlexRayHeld(d.state, readyAfter(d, R), runningAfter(d, r))
  BY <1>1, <1>4, CurrentKept DEF FlexRayHeld
<1>6. Timed(slice, d, R, r)
  <2> DEFINE t == d.state
  <2>1. t.slot \in 0..(N + 1) /\ t.slice \in Nat
    BY <1>4 DEF FrameTyped
  <2>2. CASE t.slot = 0 /\ offered(d, R) = {} /\ kept(d, r) = NoTask
    <3>1. t.slot \notin DOMAIN FrameTable.slots /\ ~(t.slot > FlexRay!StartslotDynamic)
      BY <1>1, <2>2 DEF FlexRay!StartslotDynamic
    <3>2. slice = FlexRay!getSchedulerTimeSlice(t, offered(d, R), kept(d, r))
      OBVIOUS
    <3> HIDE DEF t
    <3>3. slice = NoSlice
      BY <2>2, <3>1, <3>2 DEF FlexRay!getSchedulerTimeSlice, NoSlice, FlexRay!NoSlice
    <3>4. Timed(slice, d, R, r)
      BY <2>2, <3>3 DEF Timed
    <3> QED  BY <3>4
  <2>3. CASE ~(t.slot = 0 /\ offered(d, R) = {} /\ kept(d, r) = NoTask)
    <3>1. slice \in {0, t.slice, Microtick}
      <4>1. CASE t.slot = 0
        BY <2>3, <4>1 DEF FlexRay!getSchedulerTimeSlice
      <4>2. CASE t.slot \in 1..N
        BY <1>1, <4>2 DEF FlexRay!getSchedulerTimeSlice
      <4>3. CASE t.slot > N
        BY <1>1, <2>1, <4>3 DEF FlexRay!getSchedulerTimeSlice, FlexRay!StartslotDynamic
      <4> QED  BY <1>1, <2>1, <4>1, <4>2, <4>3
    <3> QED  BY <1>1, <2>1, <3>1 DEF Timed, NoSlice
  <2> QED  BY <2>2, <2>3
<1>7. ASSUME d.state.slot \in 1..N
      PROVE  slice \in Nat /\ slice = d.state.slice - d.state.since
  <2>1. slice = d.state.slice
    <3>1. /\ d.state.slot # 0 /\ ~(d.state.slot > FlexRay!StartslotDynamic)
          /\ d.state.slot \in DOMAIN FrameTable.slots
      BY <1>1, <1>7 DEF FlexRay!StartslotDynamic
    <3> QED  BY <3>1 DEF FlexRay!getSchedulerTimeSlice
  <2>2. d.state.since = 0 /\ d.state.slice \in Nat
    BY <1>4, <1>7 DEF FrameTyped
  <2> QED  BY <2>1, <2>2
<1> QED  BY <1>4, <1>5, <1>6, <1>7

-----------------------------------------------------------------------------
(* Every scheduler *)

\* What a scheduler holds says which one it is.
LEMMA HeldClass ==
  \A s, R, r :
    /\ PrioHeld(s, R) => s.class = "PRIORITY"
    /\ RrHeld(s, R) => s.class = "ROUNDROBIN"
    /\ ShaperHeld(s, R) => s.class = "SHAPER"
    /\ AvbHeld(s, R) => s.class = "AVB"
    /\ MostHeld(s, R, r) => s.class = "MOST"
    /\ TdmaHeld(s, R, r) => s.class = "TDMA"
    /\ TtccHeld(s, R, r) => s.class = "TTCC"
    /\ FlexRayHeld(s, R, r) => s.class = "FLEXRAY"
  BY DEF PrioHeld, Prio!State, RrHeld, Rr!State, ShaperHeld, Shaper!State, AvbHeld, Avb!State,
         MostHeld, Most!State, TdmaHeld, Tdma!State, TtccHeld, Ttcc!State,
         FlexRayHeld, FrameTyped

\* What one of the schedulers holds is held, by the class in its state.
LEMMA Holding ==
  ASSUME NEW s, NEW R, NEW r,
         \/ PrioHeld(s, R) \/ RrHeld(s, R) \/ ShaperHeld(s, R) \/ AvbHeld(s, R)
         \/ MostHeld(s, R, r) \/ TdmaHeld(s, R, r) \/ TtccHeld(s, R, r)
         \/ FlexRayHeld(s, R, r)
  PROVE  Held(s, R, r)
  BY HeldClass DEF Held

\* A scheduler holds nothing when it is set (PreemptiveComponent::setScheduler).
LEMMA HeldInitially ==
  ASSUME SchedulerAssumption
  PROVE  \A s \in initialSchedulers : Held(s, {}, NoTask)
<1>1. ASSUME NEW s \in initialSchedulers
      PROVE  Held(s, {}, NoTask)
  <2>1. \/ s = Prio!initial \/ s = Rr!initial \/ s = Shaper!initial \/ s = Avb!initial
        \/ s = Most!initial \/ s = Tdma!initial \/ s = Ttcc!initial \/ s = FlexRay!initial
    BY <1>1 DEF initialSchedulers
  <2> QED  BY <2>1, Holding, PrioHolds, RrHolds, ShaperHolds, AvbHolds, MostHolds,
              TdmaHolds, TtccHolds, FlexRayHolds
<1> QED  BY <1>1

\* addedNewTask takes in an instance that is neither waiting nor running.
LEMMA HeldAdded ==
  ASSUME SchedulerAssumption, NEW s, NEW R, NEW r, Held(s, R, r),
         NEW j \in Job, j \notin R, j # r
  PROVE  /\ Held(addedNewTask(s, j), R \cup {j}, r)
         /\ addedNewTask(s, j).class = s.class
<1>1. CASE s.class = "PRIORITY"
  <2>1. PrioHeld(Prio!addedNewTask(s, j), R \cup {j})
    BY <1>1, PrioHolds DEF Held
  <2>2. addedNewTask(s, j) = Prio!addedNewTask(s, j)
    BY <1>1 DEF addedNewTask
  <2> QED  BY <1>1, <2>1, <2>2, Holding, HeldClass
<1>2. CASE s.class = "ROUNDROBIN"
  <2>1. RrHeld(Rr!addedNewTask(s, j), R \cup {j})
    BY <1>2, RrHolds DEF Held
  <2>2. addedNewTask(s, j) = Rr!addedNewTask(s, j)
    BY <1>2 DEF addedNewTask
  <2> QED  BY <1>2, <2>1, <2>2, Holding, HeldClass
<1>3. CASE s.class = "SHAPER"
  <2>1. ShaperHeld(Shaper!addedNewTask(s, j), R \cup {j})
    BY <1>3, ShaperHolds DEF Held
  <2>2. addedNewTask(s, j) = Shaper!addedNewTask(s, j)
    BY <1>3 DEF addedNewTask
  <2> QED  BY <1>3, <2>1, <2>2, Holding, HeldClass
<1>4. CASE s.class = "AVB"
  <2>1. AvbHeld(Avb!addedNewTask(s, j), R \cup {j})
    BY <1>4, AvbHolds DEF Held
  <2>2. addedNewTask(s, j) = Avb!addedNewTask(s, j)
    BY <1>4 DEF addedNewTask
  <2> QED  BY <1>4, <2>1, <2>2, Holding, HeldClass
<1>5. CASE s.class = "MOST"
  <2>1. MostHeld(Most!addedNewTask(s, j), R \cup {j}, r)
    BY <1>5, MostHolds DEF Held
  <2>2. addedNewTask(s, j) = Most!addedNewTask(s, j)
    BY <1>5 DEF addedNewTask
  <2> QED  BY <1>5, <2>1, <2>2, Holding, HeldClass
<1>6. CASE s.class = "TDMA"
  <2>1. TdmaHeld(Tdma!addedNewTask(s, j), R \cup {j}, r)
    BY <1>6, TdmaHolds DEF Held
  <2>2. addedNewTask(s, j) = Tdma!addedNewTask(s, j)
    BY <1>6 DEF addedNewTask
  <2> QED  BY <1>6, <2>1, <2>2, Holding, HeldClass
<1>7. CASE s.class = "TTCC"
  <2>1. TtccHeld(Ttcc!addedNewTask(s, j), R \cup {j}, r)
    BY <1>7, TtccHolds DEF Held
  <2>2. addedNewTask(s, j) = Ttcc!addedNewTask(s, j)
    BY <1>7 DEF addedNewTask
  <2> QED  BY <1>7, <2>1, <2>2, Holding, HeldClass
<1>8. CASE s.class = "FLEXRAY"
  <2>1. FlexRayHeld(FlexRay!addedNewTask(s, j), R \cup {j}, r)
    BY <1>8, FlexRayHolds DEF Held
  <2>2. addedNewTask(s, j) = FlexRay!addedNewTask(s, j)
    BY <1>8 DEF addedNewTask
  <2> QED  BY <1>8, <2>1, <2>2, Holding, HeldClass
<1> QED  BY <1>1, <1>2, <1>3, <1>4, <1>5, <1>6, <1>7, <1>8 DEF Held

\* removedTask lets go of the running instance.
LEMMA HeldRemoved ==
  ASSUME SchedulerAssumption, NEW s, NEW R, NEW r, Held(s, R, r), r \in Job, r \notin R
  PROVE  /\ Held(removedTask(s, r), R, NoTask)
         /\ removedTask(s, r).class = s.class
<1>1. CASE s.class = "PRIORITY"
  <2>1. PrioHeld(Prio!removedTask(s, r), R)
    BY <1>1, PrioHolds DEF Held
  <2>2. removedTask(s, r) = Prio!removedTask(s, r)
    BY <1>1 DEF removedTask
  <2> QED  BY <1>1, <2>1, <2>2, Holding, HeldClass
<1>2. CASE s.class = "ROUNDROBIN"
  <2>1. RrHeld(Rr!removedTask(s, r), R)
    BY <1>2, RrHolds DEF Held
  <2>2. removedTask(s, r) = Rr!removedTask(s, r)
    BY <1>2 DEF removedTask
  <2> QED  BY <1>2, <2>1, <2>2, Holding, HeldClass
<1>3. CASE s.class = "SHAPER"
  <2>1. ShaperHeld(Shaper!removedTask(s, r), R)
    BY <1>3, ShaperHolds DEF Held
  <2>2. removedTask(s, r) = Shaper!removedTask(s, r)
    BY <1>3 DEF removedTask
  <2> QED  BY <1>3, <2>1, <2>2, Holding, HeldClass
<1>4. CASE s.class = "AVB"
  <2>1. AvbHeld(Avb!removedTask(s, r), R)
    BY <1>4, AvbHolds DEF Held
  <2>2. removedTask(s, r) = Avb!removedTask(s, r)
    BY <1>4 DEF removedTask
  <2> QED  BY <1>4, <2>1, <2>2, Holding, HeldClass
<1>5. CASE s.class = "MOST"
  <2>1. MostHeld(Most!removedTask(s, r), R, NoTask)
    BY <1>5, MostHolds DEF Held
  <2>2. removedTask(s, r) = Most!removedTask(s, r)
    BY <1>5 DEF removedTask
  <2> QED  BY <1>5, <2>1, <2>2, Holding, HeldClass
<1>6. CASE s.class = "TDMA"
  <2>1. TdmaHeld(Tdma!removedTask(s, r), R, NoTask)
    BY <1>6, TdmaHolds DEF Held
  <2>2. removedTask(s, r) = Tdma!removedTask(s, r)
    BY <1>6 DEF removedTask
  <2> QED  BY <1>6, <2>1, <2>2, Holding, HeldClass
<1>7. CASE s.class = "TTCC"
  <2>1. TtccHeld(Ttcc!removedTask(s, r), R, NoTask)
    BY <1>7, TtccHolds DEF Held
  <2>2. removedTask(s, r) = Ttcc!removedTask(s, r)
    BY <1>7 DEF removedTask
  <2> QED  BY <1>7, <2>1, <2>2, Holding, HeldClass
<1>8. CASE s.class = "FLEXRAY"
  <2>1. FlexRayHeld(FlexRay!removedTask(s, r), R, NoTask)
    BY <1>8, FlexRayHolds DEF Held
  <2>2. removedTask(s, r) = FlexRay!removedTask(s, r)
    BY <1>8 DEF removedTask
  <2> QED  BY <1>8, <2>1, <2>2, Holding, HeldClass
<1> QED  BY <1>1, <1>2, <1>3, <1>4, <1>5, <1>6, <1>7, <1>8 DEF Held

\* A scheduler holds what it held when time has passed.
LEMMA HeldElapsed ==
  ASSUME SchedulerAssumption, NEW s, NEW R, NEW r, Held(s, R, r)
  PROVE  /\ Held(elapsed(s), R, r)
         /\ elapsed(s).class = s.class
<1>1. CASE s.class = "PRIORITY"
  <2>1. PrioHeld(Prio!elapsed(s), R)
    BY <1>1, PrioHolds DEF Held
  <2>2. elapsed(s) = Prio!elapsed(s)
    BY <1>1 DEF elapsed
  <2> QED  BY <1>1, <2>1, <2>2, Holding, HeldClass
<1>2. CASE s.class = "ROUNDROBIN"
  <2>1. RrHeld(Rr!elapsed(s), R)
    BY <1>2, RrHolds DEF Held
  <2>2. elapsed(s) = Rr!elapsed(s)
    BY <1>2 DEF elapsed
  <2> QED  BY <1>2, <2>1, <2>2, Holding, HeldClass
<1>3. CASE s.class = "SHAPER"
  <2>1. ShaperHeld(Shaper!elapsed(s), R)
    BY <1>3, ShaperHolds DEF Held
  <2>2. elapsed(s) = Shaper!elapsed(s)
    BY <1>3 DEF elapsed
  <2> QED  BY <1>3, <2>1, <2>2, Holding, HeldClass
<1>4. CASE s.class = "AVB"
  <2>1. AvbHeld(Avb!elapsed(s), R)
    BY <1>4, AvbHolds DEF Held
  <2>2. elapsed(s) = Avb!elapsed(s)
    BY <1>4 DEF elapsed
  <2> QED  BY <1>4, <2>1, <2>2, Holding, HeldClass
<1>5. CASE s.class = "MOST"
  <2>1. MostHeld(Most!elapsed(s), R, r)
    BY <1>5, MostHolds DEF Held
  <2>2. elapsed(s) = Most!elapsed(s)
    BY <1>5 DEF elapsed
  <2> QED  BY <1>5, <2>1, <2>2, Holding, HeldClass
<1>6. CASE s.class = "TDMA"
  <2>1. TdmaHeld(Tdma!elapsed(s), R, r)
    BY <1>6, TdmaHolds DEF Held
  <2>2. elapsed(s) = Tdma!elapsed(s)
    BY <1>6 DEF elapsed
  <2> QED  BY <1>6, <2>1, <2>2, Holding, HeldClass
<1>7. CASE s.class = "TTCC"
  <2>1. TtccHeld(Ttcc!elapsed(s), R, r)
    BY <1>7, TtccHolds DEF Held
  <2>2. elapsed(s) = Ttcc!elapsed(s)
    BY <1>7 DEF elapsed
  <2> QED  BY <1>7, <2>1, <2>2, Holding, HeldClass
<1>8. CASE s.class = "FLEXRAY"
  <2>1. FlexRayHeld(FlexRay!elapsed(s), R, r)
    BY <1>8, FlexRayHolds DEF Held
  <2>2. elapsed(s) = FlexRay!elapsed(s)
    BY <1>8 DEF elapsed
  <2> QED  BY <1>8, <2>1, <2>2, Holding, HeldClass
<1> QED  BY <1>1, <1>2, <1>3, <1>4, <1>5, <1>6, <1>7, <1>8 DEF Held

\* Whatever a scheduler decides, it resigns and assigns instances of the
\* component in turn and holds what is waiting then; it asks to be called
\* again while a task is waiting and none runs.
LEMMA HeldDecides ==
  ASSUME NEW s, NEW R, NEW r, Instances(R, r), Held(s, R, r),
         decisionAssertion(s, r),
         NEW d \in schedulingDecision(s, R, r),
         sliceAssertion(d.state, offered(d, R), kept(d, r)),
         NEW slice,
         slice = getSchedulerTimeSlice(d.state, offered(d, R), kept(d, r))
  PROVE  /\ Sound(d, R, r)
         /\ Held(d.state, readyAfter(d, R), runningAfter(d, r))
         /\ Timed(slice, d, R, r)
         /\ d.state.class = s.class
         /\ s.class = "PRIORITY" =>
              \A k \in readyAfter(d, R) :
                /\ runningAfter(d, r) # NoTask
                /\ Priority[runningAfter(d, r)] <= Priority[k]
         /\ s.class = "ROUNDROBIN" /\ readyAfter(d, R) # {} =>
              /\ runningAfter(d, r) # NoTask
              /\ d.state.expires \in Nat \ {0} /\ slice = d.state.expires
<1>1. CASE s.class = "PRIORITY"
  <2>1. d \in Prio!schedulingDecision(s, r) /\ PrioHeld(s, R)
    BY <1>1 DEF Held, schedulingDecision
  <2>2. Sound(d, R, r) /\ PrioHeld(d.state, readyAfter(d, R))
        /\ \A k \in readyAfter(d, R) :
              /\ runningAfter(d, r) # NoTask
              /\ Priority[runningAfter(d, r)] <= Priority[k]
    BY <2>1, SchedulerAssumption, PrioDecides
  <2>3. d.state.class = "PRIORITY"
    BY <2>2, HeldClass
  <2>4. slice = NoSlice
    BY <2>3 DEF getSchedulerTimeSlice, Prio!getSchedulerTimeSlice, NoSlice, Prio!NoSlice
  <2>5. runningAfter(d, r) # NoTask \/ offered(d, R) = {}
    BY <2>2, SchedulerAssumption
    DEF readyAfter, runningAfter, offered, Instances, SchedulerAssumption, JobAssumption
  <2> QED  BY <1>1, <2>2, <2>3, <2>4, <2>5, Holding DEF Timed
<1>2. CASE s.class = "ROUNDROBIN"
  <2>1. d \in Rr!schedulingDecision(s, r) /\ RrHeld(s, R) /\ Rr!assertion(s, r)
    BY <1>2 DEF Held, schedulingDecision, decisionAssertion
  <2> DEFINE n == Rr!getSchedulerTimeSlice(d.state, offered(d, R), kept(d, r))
  <2>2. /\ Sound(d, R, r) /\ RrHeld(d.state, readyAfter(d, R)) /\ Timed(n, d, R, r)
        /\ readyAfter(d, R) # {} =>
             /\ runningAfter(d, r) # NoTask
             /\ d.state.expires \in Nat \ {0} /\ n = d.state.expires
    BY <2>1, SchedulerAssumption, RrDecides
  <2>3. d.state.class = "ROUNDROBIN"
    BY <2>2, HeldClass
  <2>4. slice = n
    BY <2>3 DEF getSchedulerTimeSlice
  <2> QED  BY <1>2, <2>2, <2>3, <2>4, Holding
<1>3. CASE s.class = "SHAPER"
  <2>1. d \in Shaper!schedulingDecision(s, r) /\ ShaperHeld(s, R)
    BY <1>3 DEF Held, schedulingDecision
  <2> DEFINE n == Shaper!getSchedulerTimeSlice(d.state, offered(d, R), kept(d, r))
  <2>2. Sound(d, R, r) /\ ShaperHeld(d.state, readyAfter(d, R)) /\ Timed(n, d, R, r)
    BY <2>1, SchedulerAssumption, ShaperDecides
  <2>3. d.state.class = "SHAPER"
    BY <2>2, HeldClass
  <2>4. slice = n
    BY <2>3 DEF getSchedulerTimeSlice
  <2> QED  BY <1>3, <2>2, <2>3, <2>4, Holding
<1>4. CASE s.class = "AVB"
  <2>1. d \in Avb!schedulingDecision(s, r) /\ AvbHeld(s, R)
    BY <1>4 DEF Held, schedulingDecision
  <2> DEFINE n == Avb!getSchedulerTimeSlice(d.state, offered(d, R), kept(d, r))
  <2>2. /\ Sound(d, R, r) /\ AvbHeld(d.state, readyAfter(d, R))
        /\ Avb!assertion(d.state, offered(d, R), kept(d, r)) => Timed(n, d, R, r)
    BY <2>1, SchedulerAssumption, AvbDecides
  <2>3. d.state.class = "AVB"
    BY <2>2, HeldClass
  <2>4. slice = n /\ Avb!assertion(d.state, offered(d, R), kept(d, r))
    BY <2>3 DEF getSchedulerTimeSlice, sliceAssertion
  <2> QED  BY <1>4, <2>2, <2>3, <2>4, Holding
<1>5. CASE s.class = "MOST"
  <2>1. d \in Most!schedulingDecision(s, R, r) /\ MostHeld(s, R, r)
    BY <1>5 DEF Held, schedulingDecision
  <2> DEFINE n == Most!getSchedulerTimeSlice(d.state, offered(d, R), kept(d, r))
  <2>2. Sound(d, R, r) /\ MostHeld(d.state, readyAfter(d, R), runningAfter(d, r))
        /\ Timed(n, d, R, r)
    BY <2>1, SchedulerAssumption, MostDecides
  <2>3. d.state.class = "MOST"
    BY <2>2, HeldClass
  <2>4. slice = n
    BY <2>3 DEF getSchedulerTimeSlice
  <2> QED  BY <1>5, <2>2, <2>3, <2>4, Holding
<1>6. CASE s.class = "TDMA"
  <2>1. d \in Tdma!schedulingDecision(s, r) /\ TdmaHeld(s, R, r)
    BY <1>6 DEF Held, schedulingDecision
  <2> DEFINE n == Tdma!getSchedulerTimeSlice(d.state, offered(d, R), kept(d, r))
  <2>2. Sound(d, R, r) /\ TdmaHeld(d.state, readyAfter(d, R), runningAfter(d, r))
        /\ Timed(n, d, R, r)
    BY <2>1, SchedulerAssumption, TdmaDecides
  <2>3. d.state.class = "TDMA"
    BY <2>2, HeldClass
  <2>4. slice = n
    BY <2>3 DEF getSchedulerTimeSlice
  <2> QED  BY <1>6, <2>2, <2>3, <2>4, Holding
<1>7. CASE s.class = "TTCC"
  <2>1. d \in Ttcc!schedulingDecision(s, r) /\ TtccHeld(s, R, r)
    BY <1>7 DEF Held, schedulingDecision
  <2> DEFINE n == Ttcc!getSchedulerTimeSlice(d.state, offered(d, R), kept(d, r))
  <2>2. Sound(d, R, r) /\ TtccHeld(d.state, readyAfter(d, R), runningAfter(d, r))
        /\ Timed(n, d, R, r)
    BY <2>1, SchedulerAssumption, TtccDecides
  <2>3. d.state.class = "TTCC"
    BY <2>2, HeldClass
  <2>4. slice = n
    BY <2>3 DEF getSchedulerTimeSlice
  <2> QED  BY <1>7, <2>2, <2>3, <2>4, Holding
<1>8. CASE s.class = "FLEXRAY"
  <2>1. d \in FlexRay!schedulingDecision(s, r) /\ FlexRayHeld(s, R, r)
    BY <1>8 DEF Held, schedulingDecision
  <2> DEFINE n == FlexRay!getSchedulerTimeSlice(d.state, offered(d, R), kept(d, r))
  <2>2. Sound(d, R, r) /\ FlexRayHeld(d.state, readyAfter(d, R), runningAfter(d, r))
        /\ Timed(n, d, R, r)
    BY <2>1, SchedulerAssumption, FlexRayDecides
  <2>3. d.state.class = "FLEXRAY"
    BY <2>2, HeldClass
  <2>4. slice = n
    BY <2>3 DEF getSchedulerTimeSlice
  <2> QED  BY <1>8, <2>2, <2>3, <2>4, Holding
<1> QED  BY <1>1, <1>2, <1>3, <1>4, <1>5, <1>6, <1>7, <1>8 DEF Held

-----------------------------------------------------------------------------
(* The slots *)

\* The task r that is running is in its slot, by the clock or by the count of the
\* scheduler.
Fits(s, r) ==
  /\ s.class = "TDMA" => Tdma!slotRespected(s, r)
  /\ s.class = "TTCC" => TtccFits(s, r)
  /\ s.class = "FLEXRAY" => FlexRayFits(s, r)

\* The scheduler awaits the end of a slot, which is restOf away.
inStatic(s) ==
  \/ s.class \in {"TDMA", "TTCC"}
  \/ s.class = "FLEXRAY" /\ s.slot \in 1..Len(FrameTable.slots)

restOf(s) == IF s.class = "TDMA" THEN TdmaRest(s) ELSE s.slice - s.since

\* What is left of a slot is a number of units of time.
LEMMA RestWhole ==
  ASSUME NEW s, NEW R, NEW r, Held(s, R, r), inStatic(s)
  PROVE  restOf(s) \in Int
<1>1. CASE s.class = "TDMA"
  <2>1. s \in Tdma!State
    BY <1>1 DEF Held, TdmaHeld
  <2>2. TdmaRest(s) \in Nat
    BY <2>1, SchedulerAssumption, TdmaCurrent DEF TdmaRest
  <2> QED  BY <1>1, <2>2 DEF restOf
<1>2. CASE s.class = "TTCC"
  <2>1. s.since \in 0..Longest /\ s.slice \in 0..Longest
    BY <1>2 DEF Held, TtccHeld, Ttcc!State
  <2> QED  BY <1>2, <2>1 DEF restOf
<1>3. CASE s.class = "FLEXRAY"
  <2>1. s.since \in Nat /\ s.slice \in Nat
    BY <1>3 DEF Held, FlexRayHeld, FrameTyped
  <2> QED  BY <1>3, <2>1 DEF restOf
<1> QED  BY <1>1, <1>2, <1>3 DEF inStatic

\* A task that is assigned, or runs on, does so in its slot, and the scheduler asks
\* to be called at its end.  TDMA reads the slot off the clock, and does not care
\* where the task was before.
LEMMA FitsDecides ==
  ASSUME NEW s, NEW R, NEW r, Instances(R, r), Held(s, R, r),
         decisionAssertion(s, r),
         NEW d \in schedulingDecision(s, R, r),
         sliceAssertion(d.state, offered(d, R), kept(d, r)),
         NEW slice,
         slice = getSchedulerTimeSlice(d.state, offered(d, R), kept(d, r)),
         s.class # "TDMA" => Fits(s, r),
         runningAfter(d, r) # NoTask
  PROVE  /\ Fits(d.state, runningAfter(d, r))
         /\ inStatic(d.state) => slice \in Nat /\ slice = restOf(d.state)
<1>1. d.state.class = s.class
  BY HeldDecides
<1>2. CASE s.class = "TDMA"
  <2>1. d \in Tdma!schedulingDecision(s, r) /\ TdmaHeld(s, R, r)
    BY <1>2 DEF Held, schedulingDecision
  <2> DEFINE n == Tdma!getSchedulerTimeSlice(d.state, offered(d, R), kept(d, r))
  <2>2. Tdma!slotRespected(d.state, runningAfter(d, r)) /\ n = TdmaRest(d.state)
    BY <2>1, SchedulerAssumption, TdmaDecides
  <2>3. slice = n
    BY <1>1, <1>2 DEF getSchedulerTimeSlice
  <2>4. TdmaRest(d.state) \in Nat
    <3>1. d.state \in Tdma!State
      BY <2>1, SchedulerAssumption, TdmaDecides DEF TdmaHeld
    <3> QED  BY <3>1, SchedulerAssumption, TdmaCurrent DEF TdmaRest
  <2> HIDE DEF n
  <2> QED  BY <1>1, <1>2, <2>2, <2>3, <2>4 DEF Fits, restOf
<1>3. CASE s.class = "TTCC"
  <2>1. d \in Ttcc!schedulingDecision(s, r) /\ TtccHeld(s, R, r) /\ TtccFits(s, r)
    BY <1>3 DEF Held, schedulingDecision, Fits
  <2>2. slice = Ttcc!getSchedulerTimeSlice(d.state, offered(d, R), kept(d, r))
    BY <1>1, <1>3 DEF getSchedulerTimeSlice
  <2>3. /\ TtccFits(s, r) => TtccFits(d.state, runningAfter(d, r))
        /\ slice \in Nat /\ slice = d.state.slice - d.state.since
    BY <2>1, <2>2, SchedulerAssumption, TtccDecides, ZenonT(60)
  <2> QED  BY <1>1, <1>3, <2>1, <2>2, <2>3 DEF Fits, restOf
<1>4. CASE s.class = "FLEXRAY"
  <2>1. d \in FlexRay!schedulingDecision(s, r) /\ FlexRayHeld(s, R, r) /\ FlexRayFits(s, r)
    BY <1>4 DEF Held, schedulingDecision, Fits
  <2> DEFINE n == FlexRay!getSchedulerTimeSlice(d.state, offered(d, R), kept(d, r))
  <2>2. /\ FlexRayFits(d.state, runningAfter(d, r))
        /\ d.state.slot \in 1..Len(FrameTable.slots) =>
             n \in Nat /\ n = d.state.slice - d.state.since
    BY <2>1, SchedulerAssumption, FlexRayDecides
  <2>3. slice = n
    BY <1>1, <1>4 DEF getSchedulerTimeSlice
  <2> QED  BY <1>1, <1>4, <2>2, <2>3 DEF Fits, restOf, inStatic
<1>5. CASE s.class \notin {"TDMA", "TTCC", "FLEXRAY"}
  BY <1>1, <1>5 DEF Fits, inStatic
<1> QED  BY <1>2, <1>3, <1>4, <1>5

\* A task that becomes ready does not move the slot that the scheduler counts, nor
\* change the parameters the running one has.
LEMMA FitsAdded ==
  ASSUME NEW s, NEW R, NEW r, Instances(R, r), r # NoTask, Held(s, R, r),
         NEW j \in Job, j # r, s.class # "TDMA", Fits(s, r),
         addedNewTask(s, j).class = s.class
  PROVE  Fits(addedNewTask(s, j), r)
<1> DEFINE t == addedNewTask(s, j)
<1>1. CASE s.class = "TTCC"
  <2> DEFINE u == [s EXCEPT !.fifo = Ttcc!enqueued(@, j)]
  <2>1. t = Ttcc!registered(u, j)
    BY <1>1 DEF addedNewTask, Ttcc!addedNewTask
  <2>2. s \in Ttcc!State
    BY <1>1 DEF Held, TtccHeld
  <2>3. u \in Ttcc!State /\ u.slot = s.slot /\ u.cycle = s.cycle /\ u.own = s.own
    <3> DEFINE f == Ttcc!enqueued(s.fifo, j)
    <3>1. f \in [DOMAIN CcTable.slots -> Seq(Job)]
      <4>1. s.fifo \in [DOMAIN CcTable.slots -> Seq(Job)]
            /\ CcTable.slotOf[j] \in DOMAIN CcTable.slots
        BY <2>2, SchedulerAssumption, TableSlots DEF Ttcc!State
      <4>2. Append(s.fifo[CcTable.slotOf[j]], j) \in Seq(Job)
        BY <4>1
      <4> QED  BY <4>1, <4>2 DEF Ttcc!enqueued
    <3>2. u = [s EXCEPT !.fifo = f]
      BY <2>2 DEF Ttcc!State
    <3> HIDE DEF f, u
    <3> QED  BY <2>2, <3>1, <3>2 DEF Ttcc!State
  <2> HIDE DEF t, u
  <2>4. t.slot = s.slot /\ t.cycle = s.cycle /\ t.own[r] = s.own[r]
    <3>1. /\ t.slot = u.slot /\ t.cycle = u.cycle
          /\ \A i \in Job : i # j => t.own[i] = u.own[i]
      BY <2>1, <2>3, SchedulerAssumption, TtccRegistered
    <3>2. r \in Job
      BY DEF Instances
    <3> QED  BY <2>3, <3>1, <3>2
  <2>5. TtccFits(t, r)
    BY <1>1, <2>4 DEF Fits, TtccFits, Ttcc!allowed, Ttcc!inCycle
  <2> QED  BY <1>1, <2>5 DEF Fits, t
<1>2. CASE s.class = "FLEXRAY"
  <2>1. t = FlexRay!addedNewTask(s, j)
    BY <1>2 DEF addedNewTask
  <2>2. FrameTyped(s) /\ Sorted(s.fifo, FrameTable.slotOf, FrameSlots, current(R, r))
    BY <1>2 DEF Held, FlexRayHeld
  <2>3. ~FlexRay!idle(s)
    <3>1. r \in current(R, r) /\ current(R, r) \subseteq Job
      BY SchedulerAssumption DEF current, Instances, SchedulerAssumption, JobAssumption
    <3>2. ~ \A i \in FrameSlots : s.fifo[i] = <<>>
      BY <2>2, <3>1, SchedulerAssumption, TableSlots, SortedNone
    <3>3. DOMAIN s.fifo = FrameSlots
      BY <2>2 DEF FrameTyped
    <3> QED  BY <3>2, <3>3 DEF FlexRay!idle
  <2> HIDE DEF t
  <2>4. t.slot = s.slot /\ t.cycle = s.cycle /\ t.own[r] = s.own[r]
    BY <2>1, <2>2, <2>3, SchedulerAssumption, FlexRayAdded DEF Instances
  <2>5. FlexRayFits(t, r)
    BY <1>2, <2>4 DEF Fits, FlexRayFits, FlexRay!allowed, FlexRay!inCycle
  <2> QED  BY <1>2, <2>5 DEF Fits, t
<1>3. CASE s.class \notin {"TTCC", "FLEXRAY"}
  BY <1>3 DEF Fits
<1> QED  BY <1>1, <1>2, <1>3

\* Time that passes before the end of a slot is taken from its rest; a slot that the
\* scheduler counts stays what it is until it decides.
LEMMA FitsElapsed ==
  ASSUME NEW s, NEW R, NEW r, Held(s, R, r), Fits(s, r),
         NEW w \in Nat, inStatic(s) => w <= restOf(s)
  PROVE  /\ s.class # "TDMA" => Fits(elapsed(s), r)
         /\ w > 1 => /\ Fits(elapsed(s), r)
                     /\ inStatic(elapsed(s)) => w - 1 <= restOf(elapsed(s))
<1> DEFINE e == elapsed(s)
<1>1. e.class = s.class
  BY SchedulerAssumption, HeldElapsed
<1>2. ASSUME NEW n \in Nat, NEW k \in Nat, w <= k - n
      PROVE  \A m \in {n, n + 1} : w - 1 <= k - m
  BY <1>2
<1>3. CASE s.class = "TDMA"
  <2>1. e = Tdma!elapsed(s) /\ s \in Tdma!State /\ Tdma!slotRespected(s, r)
    BY <1>3 DEF elapsed, Held, TdmaHeld, Fits
  <2>2. w <= TdmaRest(s) /\ TdmaRest(s) \in Nat
    BY <1>3, <2>1, SchedulerAssumption, TdmaCurrent DEF inStatic, restOf, TdmaRest
  <2>3. ASSUME w > 1
        PROVE  Tdma!slotRespected(e, r) /\ TdmaRest(e) = TdmaRest(s) - 1
    <3>1. TdmaRest(s) > 1
      BY <2>2, <2>3
    <3> QED  BY <2>1, <3>1, SchedulerAssumption, TdmaElapsed
  <2> HIDE DEF e
  <2>4. w > 1 => w - 1 <= TdmaRest(e)
    BY <2>2, <2>3
  <2> QED  BY <1>1, <1>3, <2>3, <2>4 DEF Fits, restOf, e
<1>4. CASE s.class = "TTCC"
  <2>1. e = Ttcc!elapsed(s) /\ s \in Ttcc!State
    BY <1>4 DEF elapsed, Held, TtccHeld
  <2>2. /\ e.slot = s.slot /\ e.slice = s.slice /\ e.since = Ttcc!elapsedSince(s.since)
        /\ e.cycle = s.cycle /\ e.own = s.own
        /\ s.since \in 0..Longest /\ s.slice \in 0..Longest
    BY <2>1 DEF Ttcc!elapsed, Ttcc!State
  <2> HIDE DEF e
  <2>3. e.since \in {s.since, s.since + 1} /\ s.since \in Nat /\ s.slice \in Nat
    BY <2>2 DEF Ttcc!elapsedSince
  <2>4. w - 1 <= e.slice - e.since
    BY <1>2, <1>4, <2>2, <2>3 DEF inStatic, restOf
  <2>5. Fits(e, r)
    BY <1>1, <1>4, <2>2 DEF Fits, TtccFits, Ttcc!allowed, Ttcc!inCycle
  <2> QED  BY <1>1, <1>4, <2>4, <2>5 DEF restOf, e
<1>5. CASE s.class = "FLEXRAY"
  <2>1. e = FlexRay!elapsed(s) /\ s = [f \in FrameField |-> s[f]]
        /\ s.since \in Nat /\ s.slice \in Nat
    BY <1>5 DEF elapsed, Held, FlexRayHeld, FrameTyped
  <2>2. /\ e.slot = s.slot /\ e.slice = s.slice /\ e.since = FlexRay!elapsedSince(s.since)
        /\ e.cycle = s.cycle /\ e.own = s.own
    <3> DEFINE a == IF s.clock + 1 = 2 * CycleRound * FlexRay!cycle_length
                    THEN CycleRound * FlexRay!cycle_length ELSE s.clock + 1
               b == IF s.toInit /\ ~(s.slot = 0 /\ FlexRay!idle(s)) THEN s.lead + 1 ELSE s.lead
               m == FlexRay!elapsedSince(s.since)
               n == FlexRay!elapsedSince(s.sinceA)
    <3>1. e = [s EXCEPT !.since = m, !.sinceA = n, !.clock = a, !.lead = b]
      BY <2>1 DEF FlexRay!elapsed
    <3> HIDE DEF a, b, m, n, e
    <3>2. e = [f \in FrameField |-> IF f = "lead" THEN b ELSE IF f = "clock" THEN a
                                   ELSE IF f = "sinceA" THEN n ELSE IF f = "since" THEN m
                                   ELSE s[f]]
      BY <2>1, <3>1
    <3>3. e.slot = s.slot /\ e.slice = s.slice /\ e.since = m
          /\ e.cycle = s.cycle /\ e.own = s.own
      BY <3>2, FrameFields
    <3> QED  BY <3>3 DEF m
  <2> HIDE DEF e
  <2>3. e.since \in {s.since, s.since + 1}
    BY <2>2 DEF FlexRay!elapsedSince
  <2>4. inStatic(e) => w - 1 <= e.slice - e.since
    BY <1>1, <1>2, <1>5, <2>1, <2>2, <2>3 DEF inStatic, restOf
  <2>5. Fits(e, r)
    BY <1>1, <1>5, <2>2 DEF Fits, FlexRayFits, FlexRay!allowed, FlexRay!inCycle
  <2> QED  BY <1>1, <1>5, <2>4, <2>5 DEF restOf, e
<1>6. CASE s.class \notin {"TDMA", "TTCC", "FLEXRAY"}
  BY <1>1, <1>6 DEF Fits, inStatic
<1> QED  BY <1>3, <1>4, <1>5, <1>6

\* While some of the slot is left, the slot is respected.
LEMMA FitsRespected ==
  ASSUME NEW s, NEW R, NEW r \in Job, Held(s, R, r), Fits(s, r),
         inStatic(s) => 1 <= restOf(s)
  PROVE  slotRespected(s, r)
<1>1. r # NoTask
  BY SchedulerAssumption DEF SchedulerAssumption, JobAssumption
<1>2. CASE s.class = "TDMA"
  BY <1>2 DEF Fits, slotRespected
<1>3. CASE s.class = "TTCC"
  <2>1. s.since \in 0..Longest /\ s.slice \in 0..Longest
    BY <1>3 DEF Held, TtccHeld, Ttcc!State
  <2>2. s.since < s.slice
    BY <1>3, <2>1 DEF inStatic, restOf
  <2> QED  BY <1>1, <1>3, <2>2 DEF Fits, TtccFits, slotRespected, Ttcc!slotRespected
<1>4. CASE s.class = "FLEXRAY"
  <2>1. s.since \in Nat /\ s.slice \in Nat
    BY <1>4 DEF Held, FlexRayHeld, FrameTyped
  <2>2. s.slot \in 1..Len(FrameTable.slots) => s.since < s.slice
    BY <1>4, <2>1 DEF inStatic, restOf
  <2>3. DOMAIN FrameTable.slots = 1..Len(FrameTable.slots)
    BY SchedulerAssumption, FlexRayLengths
  <2>4. FlexRay!slotRespected(s, r)
    BY <1>1, <1>4, <2>2, <2>3 DEF Fits, FlexRayFits, FlexRay!slotRespected,
                                  FlexRay!StartslotDynamic
  <2> QED  BY <1>4, <2>4 DEF slotRespected
<1>5. CASE s.class \notin {"TDMA", "TTCC", "FLEXRAY"}
  BY <1>5 DEF slotRespected
<1> QED  BY <1>2, <1>3, <1>4, <1>5

=============================================================================
