---------------------------- MODULE FlexRayScheduler ----------------------------
(***************************************************************************)
(* FlexRayScheduler on a single channel (dualchannel "false"; with both    *)
(* channels in use the component stops: it runs one task at a time).       *)
(* Static slots are followed by a dynamic segment, in which two counters   *)
(* of slots advance by one per microtick in which no task runs.            *)
(***************************************************************************)
EXTENDS StaticSegment

CONSTANTS Dynamic,     \* the lengths of the dynamic slots
          DynLength,   \* TimeDynamicSegment
          Microtick    \* how often the dynamic segment is looked at (1 us)

DynamicAssumption ==
  /\ Dynamic \in Seq(Nat \ {0})
  /\ DynLength \in 0..Longest /\ Microtick \in Nat \ {0}
  /\ \A i \in DOMAIN Dynamic : Dynamic[i] <= Longest

StartslotDynamic == Len(Slots)

cycle_length == lastOffset + DynLength

\* As in the static segment; the dynamic one is the slot after the last, and
\* its slots follow in fifo.  clock is the time, with the same bound as the
\* cycles, lead the time since cyclecount cycles while to_init is set, and
\* slotA, slotB the slots the two channels have counted.
State == [class : {"FLEXRAY"}, fifo : [1..(StartslotDynamic + Len(Dynamic)) -> Seq(Job)],
          slot : 0..(StartslotDynamic + 1), slice : 0..Longest, since : 0..Longest,
          cycle : 0..(2 * CycleRound - 1), clock : 0..(2 * CycleRound * cycle_length - 1),
          toInit : BOOLEAN, lead : Int,
          slotA : 0..Len(Dynamic), sliceA : 0..Longest, sinceA : 0..Longest,
          slotB : 0..Len(Dynamic),
          params : [Job -> Job], own : [Job -> Job], ids : 0..Len(SharedIds)]

initial ==
  [class |-> "FLEXRAY", fifo |-> [i \in 1..(StartslotDynamic + Len(Dynamic)) |-> <<>>],
   slot |-> 0, slice |-> 0, since |-> 0, cycle |-> 0, clock |-> 0, toInit |-> FALSE,
   lead |-> 0, slotA |-> 0, sliceA |-> 0, sinceA |-> 0, slotB |-> 0,
   params |-> asConfigured, own |-> asConfigured, ids |-> 0]

\* processcount = 0
idle(s) == \A i \in DOMAIN s.fifo : s.fifo[i] = <<>>

\* Only an instance in a static slot has parameters.
listed(s, j) ==
  LET t == [s EXCEPT !.fifo = enqueued(@, j)]
  IN  IF SlotOf[j] \in DOMAIN Slots THEN registered(t, j) ELSE t

\* The first task sets the cycle by the clock, and the slot later on.
addedNewTask(s, j) ==
  LET t == listed(s, j)
  IN  IF ~idle(s) THEN t
      ELSE [t EXCEPT !.cycle = s.clock \div cycle_length, !.toInit = TRUE,
                     !.lead = s.clock % cycle_length]

removedTask(s, j) == [s EXCEPT !.fifo = dequeued(@, j)]

\* The slot the clock is in, when that is a static one.
corrected(s) ==
  LET into  == IF s.lead < 0 THEN s.lead + cycle_length ELSE s.lead
      ended == {i \in DOMAIN Slots : into <= offsets[i + 1]}
      i     == Min(ended)
      t     == [s EXCEPT !.toInit = FALSE, !.lead = 0]
  IN  IF ended = {} THEN [t EXCEPT !.slice = into - lastOffset]
      ELSE [t EXCEPT !.slot = i, !.slice = offsets[i + 1] - into]

static(s, running) ==
  LET t == nextSlot(aged(s))
  IN  IF aged(s).slice > 0 THEN withinSlot(aged(s), running)
      ELSE slotStarts(IF s.toInit /\ running = NoTask THEN corrected(t) ELSE t, running)

dynamicStarts(s) ==
  [s EXCEPT !.slot = StartslotDynamic + 1, !.slice = DynLength, !.since = 0,
            !.slotA = 0, !.sliceA = 0, !.slotB = 0]

nextLead(s) == IF s.toInit THEN s.lead - cycle_length ELSE s.lead

dynamicEnds(s) ==
  [s EXCEPT !.slot = 0, !.slice = 0, !.since = 0, !.cycle = nextCycle(@),
            !.lead = nextLead(s), !.slotA = 0, !.slotB = 0]

\* The tasks of the dynamic slot a channel has come to.
frames(s, slot) ==
  IF slot < Len(Dynamic) THEN s.fifo[StartslotDynamic + slot + 1] ELSE <<>>

\* No task is running: the one of channel A's slot is started, or else that
\* of B's, which is counted on a single channel as well.
idleDynamic(s) ==
  LET onA == frames(s, s.slotA)
      onB == frames(s, s.slotB)
  IN  CASE onA # <<>> -> {onlyAssign(Head(onA), [s EXCEPT !.slotA = @ + 1, !.sinceA = 0,
                                                   !.sliceA = Dynamic[s.slotA + 1]])}
        [] onA = <<>> /\ s.slotA < Len(Dynamic) /\ onB # <<>> ->
             {onlyAssign(Head(onB), [s EXCEPT !.slotB = @ + 1])}
        [] onA = <<>> /\ s.slotA < Len(Dynamic) /\ onB = <<>> /\ s.slotB < Len(Dynamic) ->
             {noChange([s EXCEPT !.slotA = @ + 1, !.slotB = @ + 1])}
        [] OTHER -> {noChange(s)}

\* A task is running; if it has been started on channel A its slot may end.
busyDynamic(s, running) ==
  LET rest == until(s.sliceA - s.sinceA)
      next == s.slotA + 1 < Len(Dynamic)
      onA  == frames(s, s.slotA)
      t    == [s EXCEPT !.sinceA = 0, !.sliceA = IF next THEN Dynamic[s.slotA + 1] ELSE 0]
  IN  CASE s.sliceA = 0                            -> {noChange(s)}
        [] s.sliceA > 0 /\ rest > 0                ->
             {noChange([s EXCEPT !.sliceA = rest, !.sinceA = 0])}
        [] s.sliceA > 0 /\ rest = 0 /\ next /\ onA # <<>> -> {preempt(running, Head(onA), t)}
        [] OTHER                                   -> {resigned(running, t)}

schedulingDecision(s, running) ==
  CASE s.slot < StartslotDynamic                    -> static(s, running)
    [] s.slot = StartslotDynamic /\ s.slice > 0     -> {noChange(aged(s))}
    [] s.slot = StartslotDynamic /\ s.slice = 0     -> {stopRunning(running, dynamicStarts(s))}
    [] s.slot > StartslotDynamic /\ s.slice <= s.since -> {stopRunning(running, dynamicEnds(s))}
    [] s.slot > StartslotDynamic /\ s.slice > s.since  ->
         IF running = NoTask THEN idleDynamic(s) ELSE busyDynamic(s, running)

getSchedulerTimeSlice(s, ready, running) ==
  CASE s.slot = 0 /\ ready = {} /\ running = NoTask     -> NoSlice
    [] s.slot = 0 /\ (ready # {} \/ running # NoTask)   -> 0
    [] s.slot \in DOMAIN Slots                          -> s.slice
    [] s.slot > StartslotDynamic                        ->
         IF DynLength = 0 THEN 0 ELSE Microtick

\* At the end of a cycle without a task the scheduler sleeps until the next
\* one sets lead anew.
elapsed(s) ==
  [s EXCEPT !.since = elapsedSince(@), !.sinceA = elapsedSince(@),
            !.clock = IF @ + 1 = 2 * CycleRound * cycle_length
                      THEN CycleRound * cycle_length ELSE @ + 1,
            !.lead = IF s.toInit /\ ~(s.slot = 0 /\ idle(s)) THEN @ + 1 ELSE @]

\* A task runs in its own static slot, in a cycle its parameters allow, as long as
\* the slot, or in the dynamic segment when it belongs there.
slotRespected(s, running) ==
  \/ /\ s.slot \in DOMAIN Slots /\ SlotOf[running] = s.slot
     /\ allowed(s, running) /\ s.since < s.slice
  \/ s.slot > StartslotDynamic /\ SlotOf[running] > StartslotDynamic

=============================================================================
