-------------------------- MODULE SchedulerProofs ---------------------------
(***************************************************************************)
(* What the schedulers without slots hold and decide, for any parameters.  *)
(*                                                                         *)
(* Held relates the state of a scheduler to the instances that wait in the *)
(* component and the one that runs.  Each scheduler has two lemmas: the    *)
(* first (Holds) says that all calls but the decision keep the relation,   *)
(* the second (Decides) that a decision makes sense for the component and  *)
(* keeps it, and that it leaves no task waiting in vain.                   *)
(***************************************************************************)
EXTENDS Schedulers, QueueProofs

-----------------------------------------------------------------------------
(* What a scheduler holds, and what it may decide *)

\* The instances that are waiting or running.
current(R, r) == (R \cup {r}) \ {NoTask}

\* The ready instances R and the running one r, if there is one.
Instances(R, r) == R \subseteq Job /\ r \in Job \cup {NoTask} /\ r \notin R

PrioHeld(s, R) == s \in Prio!State /\ Lists(s.queue, R)

RrHeld(s, R) == s \in Rr!State /\ Lists(s.queue, R)

ShaperHeld(s, R) == s \in Shaper!State /\ Lists(s.fifo, R)

AvbHeld(s, R) == s \in Avb!State /\ Sorted(s.queue, LevelOf, Avb!Level, R)

MostHeld(s, R, r) ==
  /\ s \in Most!State
  /\ Lists(s.async, current(R, r) \ Stream)
  /\ s.curr <= Len(s.slots)

TdmaHeld(s, R, r) ==
  /\ s \in Tdma!State
  /\ Sorted(s.fifo, TdmaTable.slotOf, DOMAIN TdmaTable.slots, current(R, r))

TtccHeld(s, R, r) ==
  /\ s \in Ttcc!State
  /\ Sorted(s.fifo, CcTable.slotOf, DOMAIN CcTable.slots, current(R, r))
  /\ s.slot = 0 => s.slice = 0

FrameSlots == 1..(Len(FrameTable.slots) + Len(FrameTable.dynamic))

FrameField ==
  {"class", "fifo", "slot", "slice", "since", "cycle", "clock", "toInit", "lead",
   "slotA", "sliceA", "sinceA", "slotB", "params", "own", "ids"}

FrameTyped(s) ==
  /\ s = [f \in FrameField |-> s[f]]
  /\ s.class = "FLEXRAY"
  /\ s.fifo \in [FrameSlots -> Seq(Job)]
  /\ s.slot \in 0..(Len(FrameTable.slots) + 1)
  /\ s.slice \in Nat /\ s.since \in Nat /\ s.cycle \in Nat /\ s.clock \in Nat
  /\ s.toInit \in BOOLEAN /\ s.lead \in Int
  /\ s.slotA \in 0..Len(FrameTable.dynamic) /\ s.slotB \in 0..Len(FrameTable.dynamic)
  /\ s.sliceA \in Nat /\ s.sinceA \in Nat
  /\ s.params \in [Job -> Job] /\ s.own \in [Job -> Job] /\ s.ids \in Nat

FlexRayHeld(s, R, r) ==
  /\ FrameTyped(s)
  /\ Sorted(s.fifo, FrameTable.slotOf, FrameSlots, current(R, r))
  /\ s.slot = 0 => s.slice = 0

\* A scheduler holds every instance it is responsible for in its queue, once.
Held(s, R, r) ==
  \/ s.class = "PRIORITY"   /\ PrioHeld(s, R)
  \/ s.class = "ROUNDROBIN" /\ RrHeld(s, R)
  \/ s.class = "SHAPER"     /\ ShaperHeld(s, R)
  \/ s.class = "AVB"        /\ AvbHeld(s, R)
  \/ s.class = "MOST"       /\ MostHeld(s, R, r)
  \/ s.class = "TDMA"       /\ TdmaHeld(s, R, r)
  \/ s.class = "TTCC"       /\ TtccHeld(s, R, r)
  \/ s.class = "FLEXRAY"    /\ FlexRayHeld(s, R, r)

\* What is left ready and running after decision d, before a task is assigned
\* and after it.
offered(d, R) == R \cup ({d.resign} \ {NoTask})
kept(d, r)    == IF d.resign = NoTask THEN r ELSE NoTask
readyAfter(d, R)   == offered(d, R) \ {d.assign}
runningAfter(d, r) == IF d.assign = NoTask THEN kept(d, r) ELSE d.assign

\* Only the running task is resigned, and only a waiting one or the one just
\* resigned is assigned, when no other is running.
Sound(d, R, r) ==
  /\ d.resign \in {NoTask, r}
  /\ d.assign \in offered(d, R) \cup {NoTask}
  /\ d.assign # NoTask => kept(d, r) = NoTask

\* The thread is not left without a timeout while a task waits in vain.
Timed(slice, d, R, r) ==
  /\ slice \in {NoSlice} \cup Nat
  /\ slice = NoSlice => runningAfter(d, r) # NoTask \/ offered(d, R) = {}

\* A decision that is sound leaves the instances of the component what they are:
\* none is lost or made up between scheduler and component.
LEMMA CurrentKept ==
  ASSUME NEW R, NEW r, Instances(R, r), NoTask \notin Job, NEW d, Sound(d, R, r)
  PROVE  current(readyAfter(d, R), runningAfter(d, r)) = current(R, r)
<1>1. CASE d.resign = NoTask
  BY <1>1 DEF Sound, Instances, current, readyAfter, runningAfter, offered, kept
<1>2. CASE d.resign # NoTask
  BY <1>2 DEF Sound, Instances, current, readyAfter, runningAfter, offered, kept
<1> QED  BY <1>1, <1>2

-----------------------------------------------------------------------------
(* PriorityScheduler *)

\* Instantiating the module does not change what is shown for its operators.
LEMMA PrioWithout == \A q, j : Prio!without(q, j) = RemoveFirst(q, j)
  BY DEF Prio!without, Prio!RemoveFirst, Prio!SelectInSeq, Prio!Min, Prio!RemoveAt,
         RemoveFirst, SelectInSeq, Min, RemoveAt

\* The queue of PriorityScheduler lists the waiting tasks when it is set up, when
\* one is added, when the running one is removed and when time passes.
LEMMA PrioHolds ==
  /\ PrioHeld(Prio!initial, {})
  /\ \A s, R, j : PrioHeld(s, R) /\ j \in Job /\ j \notin R
                  => PrioHeld(Prio!addedNewTask(s, j), R \cup {j})
  /\ \A s, R, j : PrioHeld(s, R) => PrioHeld(Prio!removedTask(s, j), R)
  /\ \A s, R : PrioHeld(s, R) => PrioHeld(Prio!elapsed(s), R)
<1>1. PrioHeld(Prio!initial, {})
  BY ListsEmpty DEF PrioHeld, Prio!initial, Prio!State
<1>2. ASSUME NEW s, NEW R, NEW j \in Job, PrioHeld(s, R), j \notin R
      PROVE  PrioHeld(Prio!addedNewTask(s, j), R \cup {j})
  <2>1. Lists(Append(s.queue, j), R \cup {j})
    BY <1>2, ListsAppend DEF PrioHeld
  <2> QED  BY <1>2, <2>1 DEF PrioHeld, Prio!addedNewTask, Prio!State, Lists
<1>3. \A s, R, j : PrioHeld(s, R) => PrioHeld(Prio!removedTask(s, j), R)
  BY DEF Prio!removedTask
<1>4. \A s, R : PrioHeld(s, R) => PrioHeld(Prio!elapsed(s), R)
  BY DEF Prio!elapsed
<1> QED  BY <1>1, <1>2, <1>3, <1>4

\* pqueue.top(): one of the waiting tasks, and none of them is more urgent.
LEMMA TopOfQueue ==
  ASSUME Prio!PriorityAssumption, NEW q \in Seq(Job), q # <<>>
  PROVE  /\ \E i \in 1..Len(q) : q[i] = Prio!top(q)
         /\ \A i \in 1..Len(q) : Priority[Prio!top(q)] <= Priority[q[i]]
<1> DEFINE before(i, k) == \/ Priority[q[i]] < Priority[q[k]]
                           \/ Priority[q[i]] = Priority[q[k]] /\ i <= k
           G == {n \in Nat : \E i \in 1..n : \A k \in 1..n : before(i, k)}
<1>1. Len(q) \in Nat \ {0}
  OBVIOUS
<1>2. \A i \in 1..Len(q) : Priority[q[i]] \in Int
  BY DEF Prio!PriorityAssumption
<1>3. 1 \in G
  BY <1>1, <1>2
<1>4. ASSUME NEW n \in Nat \ {0}, n \in G, n < Len(q)
      PROVE  n + 1 \in G
  <2>1. PICK i \in 1..n : \A k \in 1..n : before(i, k)
    BY <1>4
  <2>2. i \in 1..Len(q) /\ n + 1 \in 1..Len(q) /\ 1..n \subseteq 1..Len(q)
    BY <1>1, <1>4
  <2>3. \A k \in 1..n : Priority[q[k]] \in Int
    BY <1>2, <2>2
  <2>4. CASE Priority[q[n + 1]] < Priority[q[i]]
    <3>1. \A k \in 1..n : before(n + 1, k)
      BY <1>2, <2>1, <2>2, <2>3, <2>4
    <3>2. \A k \in 1..(n + 1) : before(n + 1, k)
      BY <3>1
    <3> QED  BY <3>2
  <2>5. CASE ~(Priority[q[n + 1]] < Priority[q[i]])
    <3>1. before(i, n + 1)
      BY <1>2, <2>2, <2>5
    <3>2. \A k \in 1..(n + 1) : before(i, k)
      BY <2>1, <3>1
    <3> QED  BY <3>2, SMTT(30)
  <2> QED  BY <2>4, <2>5
<1>5. \E i \in 1..Len(q) : \A k \in 1..Len(q) : before(i, k)
  <2>1. Len(q) \in 1..Len(q)
    BY <1>1
  <2>2. Len(q) \in G
    <3> HIDE DEF G
    <3> QED  BY <1>1, <1>3, <1>4, <2>1, Counting
  <2> QED  BY <2>2
<1> DEFINE t == CHOOSE i \in DOMAIN q : \A k \in DOMAIN q : before(i, k)
<1>6. DOMAIN q = 1..Len(q)
  OBVIOUS
<1>7. t \in 1..Len(q) /\ \A k \in 1..Len(q) : before(t, k)
  BY <1>5, <1>6
<1>8. Prio!top(q) = q[t]
  BY DEF Prio!top
<1> HIDE DEF t
<1> QED  BY <1>2, <1>7, <1>8

\* PriorityScheduler::schedulingDecision: its queue follows the tasks that are
\* resigned and assigned, and a more urgent task is never left to wait.
LEMMA PrioDecides ==
  ASSUME SchedulerAssumption, NEW s, NEW R, NEW r, Instances(R, r), PrioHeld(s, R),
         NEW d \in Prio!schedulingDecision(s, r)
  PROVE  /\ Sound(d, R, r)
         /\ PrioHeld(d.state, readyAfter(d, R))
         /\ \A k \in readyAfter(d, R) :
              runningAfter(d, r) # NoTask /\ Priority[runningAfter(d, r)] <= Priority[k]
<1> DEFINE q == s.queue
           j == Prio!top(q)
<1>1. Prio!PriorityAssumption /\ NoTask \notin Job
  BY DEF SchedulerAssumption, JobAssumption
<1>2. s \in Prio!State /\ Lists(q, R) /\ q \in Seq(Job)
  BY DEF PrioHeld, Lists
<1>3. CASE q = <<>>
  <2>1. R = {} /\ d = Prio!noChange(s)
    BY <1>2, <1>3 DEF Lists, Prio!schedulingDecision
  <2> QED  BY <2>1, <1>3 DEF Prio!noChange, Prio!decide, Sound, offered, kept,
                      readyAfter, runningAfter, PrioHeld, Instances
<1>4. CASE q # <<>>
  <2>1. j \in R /\ \A k \in R : Priority[j] <= Priority[k]
    BY <1>1, <1>2, <1>4, TopOfQueue DEF Lists
  <2>2. j \in Job /\ j # NoTask /\ j # r /\ R \subseteq Job /\ Priority[j] \in Int
        /\ \A k \in R : Priority[k] \in Int
    BY <1>1, <2>1 DEF Instances, Prio!PriorityAssumption
  <2> HIDE DEF j
  <2>3. Lists(Prio!without(q, j), R \ {j})
    BY <1>2, ListsRemoveFirst, PrioWithout
  <2>4. CASE r # NoTask /\ Priority[r] <= Priority[j]
    <3>1. d = Prio!noChange(s) /\ Priority[r] \in Int
      BY <1>1, <1>4, <2>4 DEF Prio!schedulingDecision, Instances, j, Prio!PriorityAssumption
    <3>2. Sound(d, R, r) /\ readyAfter(d, R) = R /\ runningAfter(d, r) = r /\ d.state = s
      BY <1>1, <3>1 DEF Prio!noChange, Prio!decide, Sound, offered, kept,
                   readyAfter, runningAfter, Instances
    <3> QED  BY <2>1, <2>2, <2>4, <3>1, <3>2
  <2>5. CASE r # NoTask /\ ~(Priority[r] <= Priority[j])
    <3> DEFINE t == [s EXCEPT !.queue = <<r>> \o Prio!without(q, j)]
    <3>1. d = Prio!preempt(r, j, t) /\ r \in Job /\ r \notin R /\ Priority[r] \in Int
      BY <1>1, <1>4, <2>5
      DEF Prio!schedulingDecision, Prio!switch, Instances, j, Prio!PriorityAssumption
    <3>2. Sound(d, R, r) /\ readyAfter(d, R) = (R \ {j}) \cup {r} /\ runningAfter(d, r) = j
          /\ d.state = t
      BY <1>1, <2>1, <2>2, <2>5, <3>1 DEF Prio!preempt, Prio!decide, Sound, offered, kept,
                   readyAfter, runningAfter
    <3>3. Lists(<<r>> \o Prio!without(q, j), (R \ {j}) \cup {r})
      BY <2>3, <3>1, ListsCons
    <3>4. PrioHeld(t, (R \ {j}) \cup {r})
      BY <1>2, <3>3 DEF PrioHeld, Prio!State, Lists
    <3>5. \A k \in (R \ {j}) \cup {r} : Priority[j] <= Priority[k]
      BY <2>1, <2>2, <2>5, <3>1
    <3> HIDE DEF t
    <3> QED  BY <2>2, <3>2, <3>4, <3>5
  <2>6. CASE r = NoTask
    <3> DEFINE t == [s EXCEPT !.queue = <<>> \o Prio!without(q, j)]
    <3>1. d = Prio!onlyAssign(j, t)
      BY <1>4, <2>6 DEF Prio!schedulingDecision, Prio!switch, j
    <3>2. Sound(d, R, r) /\ readyAfter(d, R) = R \ {j} /\ runningAfter(d, r) = j
          /\ d.state = t
      BY <1>1, <2>1, <2>2, <2>6, <3>1 DEF Prio!onlyAssign, Prio!decide, Sound, offered,
                   kept, readyAfter, runningAfter
    <3>3. <<>> \o Prio!without(q, j) = Prio!without(q, j)
      BY <2>3 DEF Lists
    <3>4. PrioHeld(t, R \ {j})
      BY <1>2, <2>3, <3>3 DEF PrioHeld, Prio!State, Lists
    <3> QED  BY <2>1, <2>2, <3>2, <3>4
  <2> QED  BY <2>4, <2>5, <2>6
<1> QED  BY <1>3, <1>4

-----------------------------------------------------------------------------
(* RoundRobinScheduler *)

\* Instantiating the module does not change what is shown for its operators.
LEMMA RrWithout == \A q, j : Rr!without(q, j) = RemoveFirst(q, j)
  BY DEF Rr!without, Rr!RemoveFirst, Rr!SelectInSeq, Rr!Min, Rr!RemoveAt,
         RemoveFirst, SelectInSeq, Min, RemoveAt

\* rr_fifo lists the waiting tasks when it is set up, when one is added, when the
\* running one is removed and when time passes.
LEMMA RrHolds ==
  /\ RrHeld(Rr!initial, {})
  /\ \A s, R, j : RrHeld(s, R) /\ j \in Job /\ j \notin R
                  => RrHeld(Rr!addedNewTask(s, j), R \cup {j})
  /\ \A s, R, j : RrHeld(s, R) /\ j \notin R => RrHeld(Rr!removedTask(s, j), R)
  /\ \A s, R : RrHeld(s, R) => RrHeld(Rr!elapsed(s), R)
<1>1. RrHeld(Rr!initial, {})
  BY ListsEmpty DEF RrHeld, Rr!initial, Rr!State
<1>2. ASSUME NEW s, NEW R, NEW j \in Job, RrHeld(s, R), j \notin R
      PROVE  RrHeld(Rr!addedNewTask(s, j), R \cup {j})
  <2>1. Lists(Append(s.queue, j), R \cup {j})
    BY <1>2, ListsAppend DEF RrHeld
  <2> QED  BY <1>2, <2>1 DEF RrHeld, Rr!addedNewTask, Rr!State, Lists
<1>3. ASSUME NEW s, NEW R, NEW j, RrHeld(s, R), j \notin R
      PROVE  RrHeld(Rr!removedTask(s, j), R)
  <2>1. Lists(Rr!without(s.queue, j), R \ {j})
    BY <1>3, ListsRemoveFirst, RrWithout DEF RrHeld
  <2>2. R \ {j} = R
    BY <1>3
  <2> QED  BY <1>3, <2>1, <2>2 DEF RrHeld, Rr!removedTask, Rr!State, Lists
<1>4. ASSUME NEW s, NEW R, RrHeld(s, R)
      PROVE  RrHeld(Rr!elapsed(s), R)
  BY <1>4 DEF RrHeld, Rr!elapsed, Rr!State, Rr!Passed
<1> QED  BY <1>1, <1>2, <1>3, <1>4

\* RoundRobinScheduler::schedulingDecision: rr_fifo follows the tasks resigned and
\* assigned, and while another task waits the slice that runs is not over.
LEMMA RrDecides ==
  ASSUME SchedulerAssumption, NEW s, NEW R, NEW r, Instances(R, r), RrHeld(s, R),
         Rr!assertion(s, r), NEW d \in Rr!schedulingDecision(s, r),
         NEW slice, slice = Rr!getSchedulerTimeSlice(d.state, offered(d, R), kept(d, r))
  PROVE  /\ Sound(d, R, r)
         /\ RrHeld(d.state, readyAfter(d, R))
         /\ Timed(slice, d, R, r)
         /\ readyAfter(d, R) # {} =>
              /\ runningAfter(d, r) # NoTask
              /\ d.state.expires \in Nat \ {0} /\ slice = d.state.expires
<1> DEFINE q == s.queue
<1>1. NoTask \notin Job /\ TimeSlice \in Nat \ {0}
  BY DEF SchedulerAssumption, JobAssumption, Rr!TimeSliceAssumption
<1>2. s \in Rr!State /\ Lists(q, R) /\ q \in Seq(Job) /\ s.expires \in {-1} \cup Nat
  BY DEF RrHeld, Lists, Rr!State, Rr!Passed
<1>3. slice = IF (d.state.queue # <<>> \/ kept(d, r) # NoTask) /\ d.state.expires > 0
              THEN d.state.expires ELSE NoSlice
  BY DEF Rr!getSchedulerTimeSlice, Rr!NoSlice, NoSlice
<1>4. CASE q = <<>> \/ (r # NoTask /\ s.expires # 0)
  <2>1. d = Rr!noChange(s)
    BY <1>4 DEF Rr!schedulingDecision
  <2>2. Sound(d, R, r) /\ readyAfter(d, R) = R /\ runningAfter(d, r) = r /\ d.state = s
        /\ offered(d, R) = R /\ kept(d, r) = r
    BY <1>1, <2>1 DEF Rr!noChange, Rr!decide, Sound, offered, kept,
                 readyAfter, runningAfter, Instances
  <2>3. q = <<>> => R = {}
    BY <1>2 DEF Lists
  <2>4. R # {} => r # NoTask /\ s.expires \in Nat \ {0} /\ slice = s.expires
    BY <1>2, <1>3, <1>4, <2>2, <2>3 DEF Rr!assertion, Rr!Passed
  <2>5. Timed(slice, d, R, r)
    BY <1>2, <1>3, <2>2, <2>4 DEF Timed
  <2> QED  BY <2>2, <2>4, <2>5
<1>5. CASE ~(q = <<>> \/ (r # NoTask /\ s.expires # 0))
  <2> DEFINE j == Head(q)
             back == IF r = NoTask THEN <<>> ELSE <<r>>
             t == [s EXCEPT !.queue = Tail(q) \o back, !.expires = TimeSlice]
  <2>1. j \in R /\ Lists(Tail(q), R \ {j}) /\ j # r /\ j \in Job /\ j # NoTask
    BY <1>1, <1>2, <1>5, ListsHead DEF Instances
  <2> HIDE DEF j
  <2>2. d = Rr!switch(r, j, t)
    BY <1>2, <1>5 DEF Rr!schedulingDecision, Rr!fromFront, Rr!State, j
  <2>3. CASE r = NoTask
    <3>1. Tail(q) \o back = Tail(q)
      BY <2>1, <2>3 DEF Lists
    <3>2. d = Rr!onlyAssign(j, t) /\ t.queue = Tail(q) /\ t.expires = TimeSlice
      BY <1>2, <2>2, <2>3, <3>1 DEF Rr!switch, Rr!State
    <3>3. RrHeld(t, R \ {j})
      <4>1. Tail(q) \in Seq(Job) /\ TimeSlice \in {Rr!Passed} \cup Nat
        BY <1>1, <2>1, ListsNone
      <4>2. t = [s EXCEPT !.queue = Tail(q), !.expires = TimeSlice]
        BY <3>1
      <4> HIDE DEF t
      <4>3. t \in Rr!State
        BY <1>2, <4>1, <4>2 DEF Rr!State
      <4> QED  BY <2>1, <3>2, <4>3 DEF RrHeld
    <3>4. Sound(d, R, r) /\ readyAfter(d, R) = R \ {j} /\ runningAfter(d, r) = j
          /\ d.state = t /\ offered(d, R) = R
      BY <2>1, <2>3, <3>2 DEF Rr!onlyAssign, Rr!decide, Sound, offered,
                   kept, readyAfter, runningAfter, Instances
    <3>5. R \ {j} # {} => Tail(q) # <<>>
      BY <2>1, ListsNone
    <3> HIDE DEF t
    <3>6. R \ {j} # {} => d.state.expires \in Nat \ {0} /\ slice = d.state.expires
      <4>1. d.state.queue = Tail(q) /\ d.state.expires = TimeSlice
        BY <3>2, <3>4
      <4>2. R \ {j} # {} => d.state.queue # <<>>
        BY <3>5, <4>1
      <4> QED  BY <1>1, <1>3, <4>1, <4>2
    <3>7. Timed(slice, d, R, r)
      BY <1>1, <1>3, <2>1, <3>2, <3>4 DEF Timed
    <3> QED  BY <2>1, <3>3, <3>4, <3>6, <3>7
  <2>4. CASE r # NoTask
    <3>1. Tail(q) \o back = Append(Tail(q), r) /\ r \in Job /\ r \notin R \ {j}
      BY <1>2, <2>1, <2>4, AppendIsConcat DEF Lists, Instances
    <3>2. Lists(Append(Tail(q), r), (R \ {j}) \cup {r})
      BY <2>1, <3>1, ListsAppend
    <3>3. d = Rr!preempt(r, j, t) /\ t.queue = Append(Tail(q), r) /\ t.expires = TimeSlice
      BY <1>2, <2>2, <2>4, <3>1 DEF Rr!switch, Rr!State
    <3>4. RrHeld(t, (R \ {j}) \cup {r})
      <4>1. Append(Tail(q), r) \in Seq(Job) /\ TimeSlice \in {Rr!Passed} \cup Nat
        BY <1>1, <3>2, ListsNone
      <4>2. t = [s EXCEPT !.queue = Append(Tail(q), r), !.expires = TimeSlice]
        BY <3>1
      <4> HIDE DEF t
      <4>3. t \in Rr!State
        BY <1>2, <4>1, <4>2 DEF Rr!State
      <4> QED  BY <3>2, <3>3, <4>3 DEF RrHeld
    <3>5. Sound(d, R, r) /\ readyAfter(d, R) = (R \ {j}) \cup {r}
          /\ runningAfter(d, r) = j /\ d.state = t
      BY <2>1, <2>4, <3>3 DEF Rr!preempt, Rr!decide, Sound, offered,
                   kept, readyAfter, runningAfter, Instances
    <3> HIDE DEF t
    <3>6. t.queue # <<>>
      <4>1. Append(Tail(q), r) # <<>>
        <5>1. r \in (R \ {j}) \cup {r}
          OBVIOUS
        <5>2. Append(Tail(q), r) = <<>> <=> (R \ {j}) \cup {r} = {}
          BY <3>2, ListsNone, Zenon
        <5> QED  BY <5>1, <5>2, Zenon
      <4> QED  BY <3>3, <4>1
    <3>7. d.state.expires \in Nat \ {0} /\ slice = d.state.expires
      BY <1>1, <1>3, <3>3, <3>5, <3>6
    <3>8. Timed(slice, d, R, r)
      BY <2>1, <3>5, <3>7 DEF Timed
    <3> QED  BY <2>1, <3>4, <3>5, <3>7, <3>8
  <2> QED  BY <2>3, <2>4
<1> QED  BY <1>4, <1>5

-----------------------------------------------------------------------------
(* StreamShaperScheduler *)

\* Instantiating the module does not change what is shown for its operators.
LEMMA ShaperWithout == \A q, j : Shaper!without(q, j) = RemoveFirst(q, j)
  BY DEF Shaper!without, Shaper!RemoveFirst, Shaper!SelectInSeq, Shaper!Min, Shaper!RemoveAt,
         RemoveFirst, SelectInSeq, Min, RemoveAt

\* The fifo of StreamShaperScheduler lists the waiting tasks through all calls but
\* the decision.
LEMMA ShaperHolds ==
  ASSUME SchedulerAssumption
  PROVE
  /\ ShaperHeld(Shaper!initial, {})
  /\ \A s, R, j : ShaperHeld(s, R) /\ j \in Job /\ j \notin R
                  => ShaperHeld(Shaper!addedNewTask(s, j), R \cup {j})
  /\ \A s, R, j : ShaperHeld(s, R) /\ j \notin R => ShaperHeld(Shaper!removedTask(s, j), R)
  /\ \A s, R : ShaperHeld(s, R) => ShaperHeld(Shaper!elapsed(s), R)
<1>0. ShapeCycle \in Nat
  BY DEF SchedulerAssumption, Shaper!ShapeCycleAssumption
<1>1. ShaperHeld(Shaper!initial, {})
  BY <1>0, ListsEmpty DEF ShaperHeld, Shaper!initial, Shaper!State
<1>2. ASSUME NEW s, NEW R, NEW j \in Job, ShaperHeld(s, R), j \notin R
      PROVE  ShaperHeld(Shaper!addedNewTask(s, j), R \cup {j})
  <2>1. Lists(Append(s.fifo, j), R \cup {j})
    BY <1>2, ListsAppend DEF ShaperHeld
  <2> QED  BY <1>2, <2>1 DEF ShaperHeld, Shaper!addedNewTask, Shaper!State, Lists
<1>3. ASSUME NEW s, NEW R, NEW j, ShaperHeld(s, R), j \notin R
      PROVE  ShaperHeld(Shaper!removedTask(s, j), R)
  <2>1. Lists(Shaper!without(s.fifo, j), R \ {j})
    BY <1>3, ListsRemoveFirst, ShaperWithout DEF ShaperHeld
  <2>2. R \ {j} = R
    BY <1>3
  <2> QED  BY <1>3, <2>1, <2>2 DEF ShaperHeld, Shaper!removedTask, Shaper!State, Lists
<1>4. ASSUME NEW s, NEW R, ShaperHeld(s, R)
      PROVE  ShaperHeld(Shaper!elapsed(s), R)
  BY <1>0, <1>4 DEF ShaperHeld, Shaper!elapsed, Shaper!State, Shaper!until
<1> QED  BY <1>1, <1>2, <1>3, <1>4

\* StreamShaperScheduler::schedulingDecision: the fifo follows the decision, and in
\* the gap between two tasks there is a time slice.
LEMMA ShaperDecides ==
  ASSUME SchedulerAssumption, NEW s, NEW R, NEW r, Instances(R, r), ShaperHeld(s, R),
         NEW d \in Shaper!schedulingDecision(s, r),
         NEW slice, slice = Shaper!getSchedulerTimeSlice(d.state, offered(d, R), kept(d, r))
  PROVE  /\ Sound(d, R, r)
         /\ ShaperHeld(d.state, readyAfter(d, R))
         /\ Timed(slice, d, R, r)
<1> DEFINE q == s.fifo
           open == [s EXCEPT !.firstrun = FALSE]
<1>1. NoTask \notin Job /\ ShapeCycle \in Nat
  BY DEF SchedulerAssumption, JobAssumption, Shaper!ShapeCycleAssumption
<1>2. s \in Shaper!State /\ Lists(q, R) /\ q \in Seq(Job) /\ s.closed \in Nat
      /\ s.firstrun \in BOOLEAN
  BY DEF ShaperHeld, Lists, Shaper!State
<1>3. slice = IF d.state.firstrun \/ d.state.closed = 0 THEN NoSlice ELSE d.state.closed
  BY DEF Shaper!getSchedulerTimeSlice, Shaper!NoSlice, NoSlice
<1>4. CASE ~s.firstrun /\ s.closed > 0
  <2>1. d = Shaper!noChange(s)
    BY <1>4 DEF Shaper!schedulingDecision
  <2>2. Sound(d, R, r) /\ readyAfter(d, R) = R /\ d.state = s
    BY <1>1, <2>1 DEF Shaper!noChange, Shaper!decide, Sound, offered, kept,
                 readyAfter, Instances
  <2>3. Timed(slice, d, R, r)
    BY <1>2, <1>3, <1>4, <2>2 DEF Timed, NoSlice
  <2> QED  BY <2>2, <2>3
<1>5. CASE ~(~s.firstrun /\ s.closed > 0) /\ (r # NoTask \/ q = <<>>)
  <2>1. d = Shaper!noChange(open)
    BY <1>5 DEF Shaper!schedulingDecision
  <2>2. Sound(d, R, r) /\ readyAfter(d, R) = R /\ runningAfter(d, r) = r /\ d.state = open
        /\ offered(d, R) = R
    BY <1>1, <2>1 DEF Shaper!noChange, Shaper!decide, Sound, offered, kept,
                 readyAfter, runningAfter, Instances
  <2>3. ShaperHeld(open, R) /\ open.closed \in Nat
    BY <1>2 DEF ShaperHeld, Shaper!State
  <2>4. q = <<>> => R = {}
    BY <1>2 DEF Lists
  <2> HIDE DEF open
  <2>5. Timed(slice, d, R, r)
    BY <1>3, <1>5, <2>2, <2>3, <2>4 DEF Timed
  <2> QED  BY <2>2, <2>3, <2>5
<1>6. CASE ~(~s.firstrun /\ s.closed > 0) /\ ~(r # NoTask \/ q = <<>>)
  <2> DEFINE j == Head(q)
             t == [open EXCEPT !.fifo = Tail(q), !.closed = ShapeCycle]
  <2>1. j \in R /\ Lists(Tail(q), R \ {j}) /\ j \in Job /\ j # NoTask
    BY <1>1, <1>2, <1>6, ListsHead DEF Instances
  <2>2. d = Shaper!onlyAssign(j, t)
    BY <1>2, <1>6 DEF Shaper!schedulingDecision, Shaper!State
  <2>3. ShaperHeld(t, R \ {j}) /\ t.closed \in Nat
    <3>1. Tail(q) \in Seq(Job)
      BY <2>1, ListsNone
    <3>2. open \in Shaper!State
      BY <1>2 DEF Shaper!State
    <3> HIDE DEF open
    <3>3. t = [open EXCEPT !.fifo = Tail(q), !.closed = ShapeCycle]
          /\ ShapeCycle \in 0..ShapeCycle
      BY <1>1
    <3> HIDE DEF t
    <3>4. t \in Shaper!State /\ t.fifo = Tail(q) /\ t.closed = ShapeCycle
      BY <3>1, <3>2, <3>3 DEF Shaper!State
    <3> QED  BY <1>1, <2>1, <3>4 DEF ShaperHeld
  <2> HIDE DEF j, t, open
  <2>4. Sound(d, R, r) /\ readyAfter(d, R) = R \ {j} /\ runningAfter(d, r) = j
        /\ d.state = t
    BY <1>6, <2>1, <2>2 DEF Shaper!onlyAssign, Shaper!decide, Sound, offered,
                 kept, readyAfter, runningAfter, Instances
  <2> QED  BY <1>3, <2>1, <2>3, <2>4 DEF Timed
<1> QED  BY <1>4, <1>5, <1>6

-----------------------------------------------------------------------------
(* AVBScheduler *)

\* The credits AVBScheduler computes are numbers, whichever level has run.
LEMMA AvbCredit ==
  ASSUME SchedulerAssumption, NEW s \in Avb!State, NEW i \in Avb!Level
  PROVE  /\ Avb!changed(s, i) \in Int
         /\ Avb!creditRunning(s, i) \in Int
         /\ Avb!creditEnded(s, i) \in Int
<1>1. Share[i] \in Nat \ {0} /\ CreditBound \in Nat
  BY DEF SchedulerAssumption, Avb!ShareAssumption, Avb!Level
<1>2. s.credit[i] \in Int /\ s.since \in Nat
  BY <1>1 DEF Avb!State
<1>3. \A a, b \in Int : -a * b \in Int
  OBVIOUS
<1>4. -s.since * (Share[i] - 1) \in Int
  BY <1>1, <1>2, <1>3
<1>5. Avb!changed(s, i) \in Int
  BY <1>1, <1>2, <1>4 DEF Avb!changed
<1>6. \A c \in Int : Avb!settled(c) \in Int
  BY DEF Avb!settled
<1> QED  BY <1>2, <1>5, <1>6 DEF Avb!creditRunning, Avb!creditEnded

\* The queues of AVBScheduler list the waiting tasks, each in the queue of its
\* level, through all calls but the decision.
LEMMA AvbHolds ==
  ASSUME SchedulerAssumption
  PROVE
  /\ AvbHeld(Avb!initial, {})
  /\ \A s, R, j : AvbHeld(s, R) /\ j \in Job /\ j \notin R
                  => AvbHeld(Avb!addedNewTask(s, j), R \cup {j})
  /\ \A s, R, j : AvbHeld(s, R) => AvbHeld(Avb!removedTask(s, j), R)
  /\ \A s, R : AvbHeld(s, R) => AvbHeld(Avb!elapsed(s), R)
<1>0. CreditBound \in Nat \ {0} /\ LevelOf \in [Job -> Avb!Level]
  BY DEF SchedulerAssumption, Avb!ShareAssumption, Avb!Level
<1>1. AvbHeld(Avb!initial, {})
  <2>1. Avb!initial \in Avb!State
    BY <1>0 DEF Avb!initial, Avb!State
  <2> QED  BY <2>1, SortedEmpty DEF AvbHeld, Avb!initial
<1>2. ASSUME NEW s, NEW R, NEW j \in Job, AvbHeld(s, R), j \notin R
      PROVE  AvbHeld(Avb!addedNewTask(s, j), R \cup {j})
  <2> DEFINE t == Avb!addedNewTask(s, j)
             b == s.wasEmpty[LevelOf[j]] \/ Avb!empty(s, LevelOf[j])
  <2>1. s \in Avb!State /\ b \in BOOLEAN
    BY <1>2 DEF AvbHeld
  <2> HIDE DEF b
  <2>2. Sorted([s.queue EXCEPT ![LevelOf[j]] = Append(@, j)], LevelOf, Avb!Level, R \cup {j})
    BY <1>0, <1>2, SortedAdd DEF AvbHeld
  <2>3. t = [s EXCEPT !.queue = [s.queue EXCEPT ![LevelOf[j]] = Append(@, j)],
                      !.wasEmpty = [s.wasEmpty EXCEPT ![LevelOf[j]] = b]]
    BY <2>1 DEF Avb!addedNewTask, Avb!State, b
  <2> HIDE DEF t
  <2>4. t \in Avb!State
    BY <2>1, <2>2, <2>3 DEF Avb!State, Sorted
  <2>5. t.queue = [s.queue EXCEPT ![LevelOf[j]] = Append(@, j)]
    BY <2>1, <2>3 DEF Avb!State
  <2>6. AvbHeld(t, R \cup {j})
    BY <2>2, <2>4, <2>5 DEF AvbHeld
  <2> QED  BY <2>6 DEF t
<1>3. \A s, R, j : AvbHeld(s, R) => AvbHeld(Avb!removedTask(s, j), R)
  BY DEF Avb!removedTask
<1>4. ASSUME NEW s, NEW R, AvbHeld(s, R)
      PROVE  AvbHeld(Avb!elapsed(s), R)
  <2> DEFINE n == IF s.since = CreditBound THEN s.since ELSE s.since + 1
  <2>1. s \in Avb!State
    BY <1>4 DEF AvbHeld
  <2>2. n \in 0..CreditBound
    BY <1>0, <2>1 DEF Avb!State
  <2>3. Avb!elapsed(s) = [s EXCEPT !.since = n]
    BY <2>1 DEF Avb!elapsed, Avb!State
  <2> HIDE DEF n
  <2>4. Avb!elapsed(s) \in Avb!State /\ Avb!elapsed(s).queue = s.queue
    BY <2>1, <2>2, <2>3 DEF Avb!State
  <2> QED  BY <1>4, <2>4 DEF AvbHeld
<1> QED  BY <1>1, <1>2, <1>3, <1>4

\* AVBScheduler::schedulingDecision: the queues follow the decision; where the
\* assertion of getSchedulerTimeSlice (line 94) holds, a level that waits for its
\* credit has a time slice.
LEMMA AvbDecides ==
  ASSUME SchedulerAssumption, NEW s, NEW R, NEW r, Instances(R, r), AvbHeld(s, R),
         NEW d \in Avb!schedulingDecision(s, r),
         NEW slice, slice = Avb!getSchedulerTimeSlice(d.state, offered(d, R), kept(d, r))
  PROVE  /\ Sound(d, R, r)
         /\ AvbHeld(d.state, readyAfter(d, R))
         /\ Avb!assertion(d.state, offered(d, R), kept(d, r)) => Timed(slice, d, R, r)
<1> DEFINE e == Avb!afterEnd(s)
           open == Avb!mayBeSent(e)
           first == Min(open)
           t == d.state
           waiting == {-t.credit[i] : i \in {k \in Avb!Level : ~Avb!empty(t, k)}}
<1>1. NoTask \notin Job /\ CreditBound \in Nat /\ LevelOf \in [Job -> Avb!Level]
  BY DEF SchedulerAssumption, JobAssumption, Avb!ShareAssumption, Avb!Level
<1>2. s \in Avb!State /\ Sorted(s.queue, LevelOf, Avb!Level, R)
  BY DEF AvbHeld
<1>3. ASSUME NEW x, x \in {Avb!afterRunning(s), e}
      PROVE  x \in Avb!State /\ x.queue = s.queue
  <2>1. PICK c \in [Avb!Level -> Int], w \in [Avb!Level -> BOOLEAN] :
          x = [s EXCEPT !.credit = c, !.wasEmpty = w, !.since = 0]
    <3>1. ASSUME x = Avb!afterRunning(s)
          PROVE  \E c \in [Avb!Level -> Int], w \in [Avb!Level -> BOOLEAN] :
                   x = [s EXCEPT !.credit = c, !.wasEmpty = w, !.since = 0]
      <4> DEFINE c == [i \in Avb!Level |-> Avb!creditRunning(s, i)]
                 w == [i \in Avb!Level |->
                         s.wasEmpty[i] /\ i # s.lastActive /\ Avb!empty(s, i)]
      <4>1. c \in [Avb!Level -> Int] /\ w \in [Avb!Level -> BOOLEAN]
        BY <1>2, AvbCredit
      <4>2. x = [s EXCEPT !.credit = c, !.wasEmpty = w, !.since = 0]
        BY <3>1, SMTT(30) DEF Avb!afterRunning
      <4> HIDE DEF c, w
      <4> QED  BY <4>1, <4>2
    <3>2. ASSUME x = e
          PROVE  \E c \in [Avb!Level -> Int], w \in [Avb!Level -> BOOLEAN] :
                   x = [s EXCEPT !.credit = c, !.wasEmpty = w, !.since = 0]
      <4> DEFINE c == [i \in Avb!Level |-> Avb!creditEnded(s, i)]
                 w == [i \in Avb!Level |->
                         s.wasEmpty[i] /\ ~(Avb!begins(s, i) /\ Avb!changed(s, i) >= 0)]
      <4>1. c \in [Avb!Level -> Int] /\ w \in [Avb!Level -> BOOLEAN]
        BY <1>2, AvbCredit
      <4>2. x = [s EXCEPT !.credit = c, !.wasEmpty = w, !.since = 0]
        BY <3>2 DEF Avb!afterEnd
      <4> HIDE DEF c, w
      <4> QED  BY <4>1, <4>2
    <3> QED  BY <1>3, <3>1, <3>2
  <2>2. /\ DOMAIN x = DOMAIN s /\ x = [f \in DOMAIN x |-> x[f]]
        /\ x.class = s.class /\ x.queue = s.queue /\ x.credit = c /\ x.wasEmpty = w
        /\ x.lastActive = s.lastActive /\ x.since = 0
    BY <1>2, <2>1 DEF Avb!State
  <2>3. x = [class |-> x.class, queue |-> x.queue, credit |-> x.credit,
             wasEmpty |-> x.wasEmpty, lastActive |-> x.lastActive, since |-> x.since]
    BY <1>2, <2>2 DEF Avb!State
  <2>4. 0 \in 0..CreditBound
    BY <1>1
  <2> QED  BY <1>2, <2>2, <2>3, <2>4 DEF Avb!State
<1> HIDE DEF e
<1>4. e \in Avb!State /\ e.queue = s.queue
  BY <1>3
<1>5. ASSUME r = NoTask, d.resign = NoTask, t \in Avb!State,
             Avb!assertion(t, offered(d, R), kept(d, r))
      PROVE  Timed(slice, d, R, r)
  <2>1. offered(d, R) = R /\ kept(d, r) = NoTask
    BY <1>5 DEF offered, kept
  <2>2. slice = IF R = {} THEN NoSlice ELSE IF waiting = {} THEN 0
                ELSE Min(waiting)
    <3>1. CASE R = {}
      BY <2>1, <3>1 DEF Avb!getSchedulerTimeSlice, NoSlice, Avb!NoSlice
    <3>2. CASE R # {} /\ waiting = {}
      BY <2>1, <3>2 DEF Avb!getSchedulerTimeSlice
    <3>3. CASE R # {} /\ waiting # {}
      <4>1. slice = Avb!Min(waiting)
        BY <2>1, <3>3 DEF Avb!getSchedulerTimeSlice
      <4> HIDE DEF waiting
      <4> QED  BY <3>3, <4>1 DEF Avb!Min, Min
    <3> QED  BY <3>1, <3>2, <3>3
  <2>3. R # {} => waiting \subseteq Nat
    <3> SUFFICES ASSUME R # {}, NEW i \in Avb!Level, ~Avb!empty(t, i)
                 PROVE  -t.credit[i] \in Nat
      OBVIOUS
    <3>1. ~(t.credit[i] >= 0)
      BY <1>5, <2>1 DEF Avb!assertion, Avb!mayBeSent
    <3>2. t.credit[i] \in Int
      BY <1>5 DEF Avb!State
    <3> QED  BY <3>1, <3>2
  <2>4. R # {} => slice \in Nat
    <3> HIDE DEF waiting
    <3> QED  BY <2>2, <2>3, FirstOf
  <2> QED  BY <2>1, <2>2, <2>4 DEF Timed, NoSlice
<1>6. CASE r # NoTask
  <2>1. d = Avb!noChange(Avb!afterRunning(s))
    BY <1>6 DEF Avb!schedulingDecision
  <2>2. t = Avb!afterRunning(s) /\ d.resign = NoTask /\ d.assign = NoTask
    BY <2>1 DEF Avb!noChange, Avb!decide
  <2>3. Sound(d, R, r) /\ readyAfter(d, R) = R /\ runningAfter(d, r) = r /\ kept(d, r) = r
    BY <1>1, <2>2 DEF Sound, offered, kept, readyAfter, runningAfter, Instances
  <2>4. AvbHeld(t, R)
    BY <1>2, <1>3, <2>2 DEF AvbHeld
  <2>5. slice = NoSlice
    BY <1>6, <2>3 DEF Avb!getSchedulerTimeSlice, NoSlice, Avb!NoSlice
  <2> QED  BY <1>6, <2>3, <2>4, <2>5 DEF Timed
<1>7. CASE r = NoTask /\ open = {}
  <2>1. d = Avb!noChange([e EXCEPT !.lastActive = 0])
    BY <1>7 DEF Avb!schedulingDecision, e
  <2>2. t = [e EXCEPT !.lastActive = 0] /\ d.resign = NoTask /\ d.assign = NoTask
    BY <2>1 DEF Avb!noChange, Avb!decide
  <2>3. Sound(d, R, r) /\ readyAfter(d, R) = R
    BY <1>1, <2>2 DEF Sound, offered, kept, readyAfter, Instances
  <2>4. t \in Avb!State /\ t.queue = s.queue
    BY <1>4, <2>2 DEF Avb!State
  <2> QED  BY <1>2, <1>5, <1>7, <2>2, <2>3, <2>4 DEF AvbHeld
<1>8. CASE r = NoTask /\ open # {}
  <2> DEFINE j == Head(e.queue[first])
             u == [e EXCEPT !.queue[first] = Tail(@), !.lastActive = first]
  <2>1. first \in open
    <3>1. open \subseteq Nat
      BY DEF Avb!mayBeSent, Avb!Level, SchedulerAssumption, Avb!ShareAssumption
    <3> HIDE DEF open
    <3> QED  BY <1>8, <3>1, FirstOf
  <2>2. d = Avb!onlyAssign(j, u)
    <3>1. Avb!Min(open) = first
      BY DEF Avb!Min, Min
    <3> HIDE DEF first
    <3> QED  BY <1>8, <3>1 DEF Avb!schedulingDecision, e
  <2> HIDE DEF first
  <2>3. t = u /\ d.resign = NoTask /\ d.assign = j
    BY <2>2 DEF Avb!onlyAssign, Avb!decide
  <2>4. first \in Avb!Level /\ s.queue[first] # <<>>
    BY <1>4, <2>1 DEF Avb!mayBeSent, Avb!empty
  <2>5. Lists(s.queue[first], {k \in R : LevelOf[k] = first})
    BY <1>2, <2>4 DEF Sorted
  <2>6. j \in R /\ LevelOf[j] = first
        /\ Lists(Tail(s.queue[first]), {k \in R : LevelOf[k] = first} \ {j})
    <3> DEFINE S == {k \in R : LevelOf[k] = first}
    <3>1. j = Head(s.queue[first])
      BY <1>4
    <3> HIDE DEF j, S
    <3>2. j \in S /\ Lists(Tail(s.queue[first]), S \ {j})
      BY <2>4, <2>5, <3>1, ListsHead DEF S
    <3> QED  BY <3>2 DEF S
  <2>7. Sorted([s.queue EXCEPT ![first] = Tail(@)], LevelOf, Avb!Level, R \ {j})
    <3> HIDE DEF j, u
    <3>1. j \in Job
      BY <2>6 DEF Instances
    <3>2. Sorted([s.queue EXCEPT ![LevelOf[j]] = Tail(s.queue[first])],
                 LevelOf, Avb!Level, R \ {j})
      BY <1>1, <1>2, <2>6, <3>1, SortedTake
    <3> QED  BY <2>6, <3>2
  <2>8. u \in Avb!State /\ u.queue = [s.queue EXCEPT ![first] = Tail(@)]
    <3>1. u = [e EXCEPT !.queue = [s.queue EXCEPT ![first] = Tail(@)], !.lastActive = first]
      BY <1>4 DEF Avb!State
    <3> HIDE DEF u
    <3>2. [s.queue EXCEPT ![first] = Tail(@)] \in [Avb!Level -> Seq(Job)]
      BY <2>7 DEF Sorted
    <3> QED  BY <1>4, <2>4, <3>1, <3>2 DEF Avb!State
  <2>9. Sound(d, R, r) /\ readyAfter(d, R) = R \ {j}
    BY <1>1, <1>8, <2>3, <2>6 DEF Sound, offered, kept, readyAfter, Instances
  <2> HIDE DEF u, j
  <2>10. AvbHeld(t, R \ {j}) /\ t \in Avb!State
    BY <2>3, <2>7, <2>8 DEF AvbHeld
  <2> QED  BY <1>5, <1>8, <2>3, <2>9, <2>10
<1> QED  BY <1>6, <1>7, <1>8

-----------------------------------------------------------------------------
(* MostScheduler *)

\* Instantiating the module does not change what is shown for its operators.
LEMMA MostWithout ==
  /\ \A q, j : Most!without(q, j) = RemoveFirst(q, j)
  /\ \A L : Most!startsOf(L) = startsOf(L)
  BY DEF Most!without, Most!RemoveFirst, Most!SelectInSeq, Most!Min, Most!RemoveAt,
         RemoveFirst, SelectInSeq, Min, RemoveAt, Most!startsOf, startsOf

\* The slots of the streams of MostScheduler end at times that are numbers;
\* without streams the cycle begins with its asynchronous area.
LEMMA MostSlotEnd ==
  ASSUME SchedulerAssumption, NEW s \in Most!State
  PROVE  /\ Len(s.slots) \in Nat
         /\ \A i \in 0..Len(s.slots) : Most!slotEnd(s, i) \in Nat
         /\ s.slots = <<>> => Most!boundary(s) = 0
<1> DEFINE L == [k \in DOMAIN s.slots |-> Delay[s.slots[k]]]
<1>1. Stream \subseteq Job /\ \A j \in Job : Delay[j] \in Nat
  BY DEF SchedulerAssumption, Most!MostAssumption
<1>2. s.slots \in Seq(Stream) /\ Len(s.slots) \in Nat
  BY DEF Most!State
<1>3. L \in Seq(Nat) /\ Len(L) = Len(s.slots)
  BY <1>1, <1>2
<1>4. \A i : Most!slotEnd(s, i) = startsOf(L)[i + 1]
  BY MostWithout DEF Most!slotEnd
<1> HIDE DEF L
<1>5. startsOf(L) \in [1..(Len(L) + 1) -> Nat] /\ startsOf(L)[1] = 0
  BY <1>3, Starts
<1>6. \A i \in 0..Len(s.slots) : Most!slotEnd(s, i) \in Nat
  BY <1>2, <1>3, <1>4, <1>5, SMTT(30)
<1>7. s.slots = <<>> => Most!boundary(s) = 0
  BY <1>4, <1>5 DEF Most!boundary
<1> QED  BY <1>2, <1>6, <1>7

\* MostScheduler lists the asynchronous messages that wait or run through all
\* calls but the decision.
LEMMA MostHolds ==
  ASSUME SchedulerAssumption
  PROVE
  /\ MostHeld(Most!initial, {}, NoTask)
  /\ \A s, R, r, j : MostHeld(s, R, r) /\ j \in Job /\ j \notin R /\ j # r
                     => MostHeld(Most!addedNewTask(s, j), R \cup {j}, r)
  /\ \A s, R, r : MostHeld(s, R, r) /\ r \in Job /\ r \notin R
                  => MostHeld(Most!removedTask(s, r), R, NoTask)
  /\ \A s, R, r : MostHeld(s, R, r) => MostHeld(Most!elapsed(s), R, r)
<1>0. NoTask \notin Job /\ MostCycle \in Nat \ {0} /\ Stream \subseteq Job
  BY DEF SchedulerAssumption, JobAssumption, Most!MostAssumption
<1>1. MostHeld(Most!initial, {}, NoTask)
  <2>1. Most!initial \in Most!State
    BY <1>0 DEF Most!initial, Most!State
  <2>2. current({}, NoTask) \ Stream = {}
    BY DEF current
  <2>3. /\ Most!initial.async = <<>> /\ Most!initial.curr <= Len(Most!initial.slots)
    BY DEF Most!initial
  <2> QED  BY <2>1, <2>2, <2>3, ListsEmpty DEF MostHeld
<1>2. ASSUME NEW s, NEW R, NEW r, NEW j \in Job, MostHeld(s, R, r), j \notin R, j # r
      PROVE  MostHeld(Most!addedNewTask(s, j), R \cup {j}, r)
  <2>1. s \in Most!State /\ Lists(s.async, current(R, r) \ Stream) /\ s.curr <= Len(s.slots)
        /\ s.slots \in Seq(Stream) /\ Len(s.slots) \in Nat /\ s.curr \in Nat
    BY <1>2 DEF MostHeld, Most!State
  <2>2. current(R \cup {j}, r) = current(R, r) \cup {j} /\ j \notin current(R, r)
    BY <1>0, <1>2 DEF current
  <2>3. CASE j \in Stream
    <3> DEFINE q == IF j \in Most!ToSet(s.slots) THEN s.slots ELSE Append(s.slots, j)
               t == [s EXCEPT !.slots = q]
    <3>1. q \in Seq(Stream) /\ Len(s.slots) <= Len(q) /\ Len(q) \in Nat
      BY <2>1, <2>3
    <3>2. Most!addedNewTask(s, j) = t
      BY <2>3 DEF Most!addedNewTask
    <3> HIDE DEF q
    <3>3. t \in Most!State /\ t.async = s.async /\ t.curr = s.curr /\ t.slots = q
      BY <2>1, <3>1 DEF Most!State
    <3>4. current(R \cup {j}, r) \ Stream = current(R, r) \ Stream
      BY <2>2, <2>3
    <3> HIDE DEF t
    <3>5. t.curr <= Len(t.slots)
      BY <2>1, <3>1, <3>3
    <3>6. MostHeld(t, R \cup {j}, r)
      BY <2>1, <3>3, <3>4, <3>5 DEF MostHeld
    <3> QED  BY <3>2, <3>6
  <2>4. CASE j \notin Stream
    <3> DEFINE q == Append(s.async, j)
               t == [s EXCEPT !.async = q]
    <3>1. Most!addedNewTask(s, j) = t
      BY <2>4 DEF Most!addedNewTask
    <3>2. current(R \cup {j}, r) \ Stream = (current(R, r) \ Stream) \cup {j}
      BY <2>2, <2>4
    <3>3. Lists(q, (current(R, r) \ Stream) \cup {j}) /\ q \in Seq(Job)
      BY <2>1, <2>2, ListsAppend, ListsNone
    <3> HIDE DEF q
    <3>4. t \in Most!State /\ t.async = q /\ t.curr = s.curr /\ t.slots = s.slots
      BY <2>1, <3>3 DEF Most!State
    <3> HIDE DEF t
    <3> QED  BY <2>1, <3>1, <3>2, <3>3, <3>4 DEF MostHeld
  <2> QED  BY <2>3, <2>4
<1>3. ASSUME NEW s, NEW R, NEW r \in Job, MostHeld(s, R, r), r \notin R
      PROVE  MostHeld(Most!removedTask(s, r), R, NoTask)
  <2> DEFINE q == RemoveFirst(s.async, r)
             t == [s EXCEPT !.async = q]
  <2>1. s \in Most!State /\ Lists(s.async, current(R, r) \ Stream) /\ s.curr <= Len(s.slots)
    BY <1>3 DEF MostHeld
  <2>2. Most!removedTask(s, r) = t
    BY MostWithout DEF Most!removedTask
  <2>3. current(R, NoTask) \ Stream = (current(R, r) \ Stream) \ {r}
    BY <1>0, <1>3 DEF current
  <2>4. Lists(q, (current(R, r) \ Stream) \ {r}) /\ q \in Seq(Job)
    BY <2>1, ListsRemoveFirst, ListsNone
  <2> HIDE DEF q
  <2>5. t \in Most!State /\ t.async = q /\ t.curr = s.curr /\ t.slots = s.slots
    BY <2>1, <2>4 DEF Most!State
  <2> HIDE DEF t
  <2> QED  BY <2>1, <2>2, <2>3, <2>4, <2>5 DEF MostHeld
<1>4. ASSUME NEW s, NEW R, NEW r, MostHeld(s, R, r)
      PROVE  MostHeld(Most!elapsed(s), R, r)
  <2>1. s \in Most!State /\ (s.clock + 1) % MostCycle \in 0..(MostCycle - 1)
    BY <1>0, <1>4 DEF MostHeld, Most!State
  <2>2. Most!elapsed(s) \in Most!State /\ Most!elapsed(s).async = s.async
        /\ Most!elapsed(s).curr = s.curr /\ Most!elapsed(s).slots = s.slots
    BY <2>1 DEF Most!elapsed, Most!State
  <2> QED  BY <1>4, <2>2 DEF MostHeld
<1> QED  BY <1>1, <1>2, <1>3, <1>4

\* While the slots of the streams last, the scheduler is in one of them.
LEMMA MostAdvanced ==
  ASSUME SchedulerAssumption, NEW s \in Most!State, s.curr <= Len(s.slots),
         Most!synchronous(s)
  PROVE  LET t == Most!advanced(s)
         IN  /\ t \in Most!State /\ t.slots = s.slots /\ t.async = s.async
             /\ t.clock = s.clock /\ t.curr \in 1..Len(s.slots)
<1> DEFINE N == Len(s.slots)
           u == [s EXCEPT !.curr = IF @ = 0 THEN 1 ELSE @]
           v == [u EXCEPT !.curr = @ + 1]
           t == Most!advanced(s)
<1>1. s.curr \in Nat /\ N \in Nat /\ s.clock \in Nat
  BY MostSlotEnd DEF Most!State
<1>2. s.clock < Most!boundary(s) /\ Most!boundary(s) = Most!slotEnd(s, N)
  BY DEF Most!synchronous, Most!boundary
<1>3. N # 0
  <2>1. s.slots \in Seq(Stream) /\ (s.slots = <<>> => Most!boundary(s) = 0)
    BY MostSlotEnd DEF Most!State
  <2>2. s.slots # <<>>
    BY <1>1, <1>2, <2>1
  <2> QED  BY <2>1, <2>2
<1>4. u \in Most!State /\ u.slots = s.slots /\ u.async = s.async /\ u.clock = s.clock
      /\ u.curr \in 1..N
  BY <1>1, <1>3 DEF Most!State
<1>5. t = IF Most!slotEnd(u, u.curr) <= u.clock THEN v ELSE u
  BY DEF Most!advanced
<1> HIDE DEF u, t
<1>6. \A i : Most!slotEnd(u, i) = Most!slotEnd(s, i)
  BY <1>4 DEF Most!slotEnd
<1>7. CASE Most!slotEnd(u, u.curr) <= u.clock
  <2>1. u.curr # N
    <3>1. Most!slotEnd(s, N) \in Nat
      <4>1. N \in 0..N
        BY <1>1
      <4> QED  BY <4>1, MostSlotEnd
    <3>2. ~(Most!slotEnd(u, N) <= u.clock)
      BY <1>1, <1>2, <1>4, <1>6, <3>1
    <3> QED  BY <1>7, <3>2
  <2>2. u.curr + 1 \in 1..N
    BY <1>1, <1>4, <2>1
  <2>3. v \in Most!State /\ v.slots = s.slots /\ v.async = s.async /\ v.clock = s.clock
        /\ v.curr = u.curr + 1
    BY <1>1, <1>4, <2>2 DEF Most!State
  <2> QED  BY <1>5, <1>7, <2>2, <2>3 DEF t
<1>8. CASE ~(Most!slotEnd(u, u.curr) <= u.clock)
  BY <1>4, <1>5, <1>8 DEF t
<1> QED  BY <1>7, <1>8

\* MostScheduler::schedulingDecision: a stream gets its slot only if it waits, an
\* asynchronous message only from the list; the end of each slot, and of the
\* cycle, has a time slice.
LEMMA MostDecides ==
  ASSUME SchedulerAssumption, NEW s, NEW R, NEW r, Instances(R, r), MostHeld(s, R, r),
         NEW d \in Most!schedulingDecision(s, R, r),
         NEW slice, slice = Most!getSchedulerTimeSlice(d.state, offered(d, R), kept(d, r))
  PROVE  /\ Sound(d, R, r)
         /\ MostHeld(d.state, readyAfter(d, R), runningAfter(d, r))
         /\ Timed(slice, d, R, r)
<1> DEFINE t == d.state
<1>1. NoTask \notin Job /\ MostCycle \in Nat \ {0} /\ Stream \subseteq Job
      /\ \A j \in Job : Delay[j] \in Nat
  BY DEF SchedulerAssumption, JobAssumption, Most!MostAssumption
<1>2. s \in Most!State /\ Lists(s.async, current(R, r) \ Stream) /\ s.curr <= Len(s.slots)
  BY DEF MostHeld
<1>3. ASSUME NEW u, d = Most!noChange(u)
      PROVE  Sound(d, R, r) /\ t = u
  BY <1>1, <1>3 DEF Most!noChange, Most!decide, Sound, offered, kept
<1>4. ASSUME NEW u, NEW j \in R, r = NoTask, d = Most!onlyAssign(j, u)
      PROVE  Sound(d, R, r) /\ t = u
  BY <1>4 DEF Most!onlyAssign, Most!decide, Sound, offered, kept
<1>5. ASSUME Most!synchronous(s)
      PROVE  /\ Sound(d, R, r)
             /\ t = Most!advanced(s)
  <2> DEFINE u == Most!advanced(s)
             j == u.slots[u.curr]
  <2>1. d = Most!synchronousDecision(u, R, r)
    BY <1>5 DEF Most!schedulingDecision
  <2>2. CASE r # NoTask \/ j \notin R
    <3>1. d = Most!noChange(u)
      BY <2>1, <2>2 DEF Most!synchronousDecision
    <3> HIDE DEF u
    <3> QED  BY <1>3, <3>1 DEF u
  <2>3. CASE ~(r # NoTask \/ j \notin R)
    <3>1. d = Most!onlyAssign(j, u)
      BY <2>1, <2>3 DEF Most!synchronousDecision
    <3> HIDE DEF u, j
    <3> QED  BY <1>4, <2>3, <3>1 DEF u
  <2> QED  BY <2>2, <2>3
<1>6. ASSUME ~Most!synchronous(s)
      PROVE  /\ Sound(d, R, r)
             /\ t = [s EXCEPT !.curr = 0]
  <2> DEFINE u == [s EXCEPT !.curr = 0]
             q == s.async
             j == Most!candidate(q)
  <2>1. d = Most!asynchronousDecision(s, r)
    BY <1>6 DEF Most!schedulingDecision
  <2>2. d = Most!noChange(u) \/ (r = NoTask /\ q # <<>> /\ d = Most!onlyAssign(j, u))
    BY <2>1 DEF Most!asynchronousDecision
  <2>3. CASE r = NoTask /\ q # <<>> /\ d = Most!onlyAssign(j, u)
    <3>1. q \in Seq(Job) /\ \A i \in 1..Len(q) : q[i] \in current(R, r) \ Stream
      BY <1>2 DEF Lists
    <3>2. Len(q) \in Nat \ {0}
      BY <2>3, <3>1
    <3>3. \E i \in 1..Len(q) : j = q[i]
      <4> HIDE DEF q
      <4>1. j = q[Len(q)] \/ (Len(q) # 1 /\ j = q[Len(q) - 1])
        BY DEF Most!candidate
      <4>2. Len(q) \in 1..Len(q) /\ (Len(q) # 1 => Len(q) - 1 \in 1..Len(q))
        <5>1. \A n \in Nat \ {0} : n \in 1..n /\ (n # 1 => n - 1 \in 1..n)
          OBVIOUS
        <5> QED  BY <3>2, <5>1
      <4> HIDE DEF j
      <4> QED  BY <4>1, <4>2
    <3> HIDE DEF j, u, q
    <3>4. j \in R
      BY <2>3, <3>1, <3>3 DEF current
    <3> QED  BY <1>4, <2>3, <3>4 DEF u
  <2>4. CASE d = Most!noChange(u)
    <3> HIDE DEF u
    <3> QED  BY <1>3, <2>4 DEF u
  <2> QED  BY <2>2, <2>3, <2>4
<1>7. /\ Sound(d, R, r)
      /\ t \in Most!State /\ t.slots = s.slots /\ t.async = s.async /\ t.clock = s.clock
      /\ t.curr <= Len(t.slots)
      /\ Most!synchronous(t) => t.curr \in 1..Len(t.slots)
  <2>1. CASE Most!synchronous(s)
    <3>1. /\ t \in Most!State /\ t.slots = s.slots /\ t.async = s.async
          /\ t.clock = s.clock /\ t.curr \in 1..Len(s.slots)
      BY <1>2, <1>5, <2>1, MostAdvanced
    <3>2. t.curr <= Len(s.slots)
      BY <3>1
    <3> QED  BY <1>5, <2>1, <3>1, <3>2
  <2>2. CASE ~Most!synchronous(s)
    <3>1. t \in Most!State /\ t.slots = s.slots /\ t.async = s.async /\ t.clock = s.clock
          /\ t.curr = 0
      BY <1>2, <1>6, <2>2 DEF Most!State
    <3>2. ~Most!synchronous(t)
      BY <2>2, <3>1 DEF Most!synchronous, Most!boundary, Most!slotEnd
    <3>3. 0 <= Len(s.slots)
      BY <1>2, MostSlotEnd
    <3> QED  BY <1>6, <2>2, <3>1, <3>2, <3>3
  <2> QED  BY <2>1, <2>2
<1>8. MostHeld(t, readyAfter(d, R), runningAfter(d, r))
  BY <1>1, <1>2, <1>7, CurrentKept DEF MostHeld
<1>9. Timed(slice, d, R, r)
  <2> HIDE DEF t
  <2>1. CASE offered(d, R) = {} /\ kept(d, r) = NoTask
    <3>1. slice = NoSlice
      BY <2>1 DEF Most!getSchedulerTimeSlice, NoSlice, Most!NoSlice
    <3> QED  BY <2>1, <3>1 DEF Timed
  <2>2. CASE ~(offered(d, R) = {} /\ kept(d, r) = NoTask) /\ Most!synchronous(t)
    <3>1. slice \in {Most!boundary(t) - t.clock, Delay[t.slots[t.curr]]}
      BY <2>2 DEF Most!getSchedulerTimeSlice, t
    <3>2. Most!boundary(t) - t.clock \in Nat
      <4>1. t.clock \in Nat /\ Most!boundary(t) \in Nat
        <5>1. Len(t.slots) \in 0..Len(t.slots)
          BY <1>7, MostSlotEnd
        <5>2. Most!boundary(t) \in Nat
          BY <1>7, <5>1, MostSlotEnd DEF Most!boundary
        <5>3. t.clock \in 0..(MostCycle - 1)
          BY <1>7 DEF Most!State
        <5> QED  BY <5>2, <5>3
      <4> QED  BY <2>2, <4>1 DEF Most!synchronous
    <3>3. Delay[t.slots[t.curr]] \in Nat
      BY <1>1, <1>7, <2>2 DEF Most!State
    <3>4. slice \in Nat
      BY <3>1, <3>2, <3>3
    <3> QED  BY <3>4 DEF Timed, NoSlice
  <2>3. CASE ~(offered(d, R) = {} /\ kept(d, r) = NoTask) /\ ~Most!synchronous(t)
    <3>1. slice \in {0, Most!rest(t)}
      BY <2>3 DEF Most!getSchedulerTimeSlice, t
    <3>2. Most!rest(t) \in Nat
      BY <1>1, <1>7 DEF Most!State, Most!rest
    <3>3. slice \in Nat
      BY <3>1, <3>2
    <3> QED  BY <3>3 DEF Timed, NoSlice
  <2> QED  BY <2>1, <2>2, <2>3
<1> QED  BY <1>7, <1>8, <1>9 DEF t

=============================================================================
