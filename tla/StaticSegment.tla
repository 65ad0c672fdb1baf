----------------------------- MODULE StaticSegment -----------------------------
(***************************************************************************)
(* The static part of TimeTriggeredCCScheduler and FlexRayScheduler, whose *)
(* code is the same: slots that are counted from the scheduler's own       *)
(* decisions, and tasks that may use their slot in some cycles only.       *)
(*                                                                         *)
(* A state has the fields fifo (pid_fifo of each slot), slot               *)
(* (curr_slicecount + 1; 0 before the first slot), slice (remainingSlice), *)
(* since (the time since lastassign) and cycle (cyclecount).  The one map  *)
(* ProcessParams is kept by what its keys are: params has the entry under  *)
(* the id of a process, own that under the id of its last instance, either *)
(* as the process whose parameters it holds, and ids how many instances    *)
(* there were whose ids may be ids of processes.                           *)
(***************************************************************************)
EXTENDS SlotTable

CONSTANTS Multiplex,     \* of each task: it may use each 2^Multiplex-th cycle,
          CycleOffset,   \* the CycleOffset-th of them, and none before
          CycleRound,    \* a number of cycles after which they are the same
          Longest,       \* the longest slot or segment
          SharedIds      \* of the first instances: the process with the same id

MultiplexAssumption ==
  /\ Multiplex \in [Job -> Nat] /\ CycleOffset \in [Job -> Nat]
  /\ CycleRound \in Nat \ {0} /\ Longest \in Nat
  /\ SharedIds \in Seq(Job \cup {NoTask})
  /\ \A j \in Job : CycleRound % 2^Multiplex[j] = 0 /\ CycleOffset[j] < CycleRound
  /\ \A i \in DOMAIN Slots : Slots[i] <= Longest

\* cyclecount++.  Bound: the cycles after the second round count as those of it.
nextCycle(c) == IF c + 1 = 2 * CycleRound THEN CycleRound ELSE c + 1

asConfigured == [j \in Job |-> j]

\* ProcessParams[instanceId] = ProcessParams[processId].  Both kinds of ids count
\* from 0: an early instance may have the id of a process, whose parameters it
\* then overwrites for all its instances to come.  Bound: later ones have ids of
\* their own.
registered(s, j) ==
  LET id == s.ids + 1
  IN  IF id \in DOMAIN SharedIds
      THEN [s EXCEPT !.own = [@ EXCEPT ![j] = s.params[j]],
                     !.params = [k \in Job |-> IF k = SharedIds[id] THEN s.params[j]
                                               ELSE s.params[k]],
                     !.ids = id]
      ELSE [s EXCEPT !.own = [@ EXCEPT ![j] = s.params[j]]]

inCycle(s, j) ==
  LET m == Multiplex[s.own[j]]
  IN  m = 0 \/ s.cycle % 2^m = CycleOffset[s.own[j]]

\* The instance may use its slot in this cycle.
allowed(s, j) == CycleOffset[s.own[j]] <= s.cycle /\ inCycle(s, j)

\* Mutated atStart: the first task of the slot, whatever the cycle.
headAtStart(s) == IF s.fifo[s.slot] = <<>> THEN 0 ELSE 1

\* The place in the fifo of the first task that may use the slot when it starts ...
atStart(s) == SelectInSeq(s.fifo[s.slot], LAMBDA j : allowed(s, j))

\* ... and later; 0 if there is none.
later(s) ==
  SelectInSeq(s.fifo[s.slot], LAMBDA j : CycleOffset[s.own[j]] < s.cycle /\ inCycle(s, j))

\* remainingSlice is brought up to date.
aged(s) == [s EXCEPT !.slice = until(@ - s.since), !.since = 0]

nextSlot(s) == [s EXCEPT !.slot = @ + 1, !.slice = Slots[s.slot + 1]]

\* A slot has started: the running task has to go.
slotStarts(s, running) ==
  IF atStart(s) = 0 THEN {stopRunning(running, s)}
  ELSE {switch(running, s.fifo[s.slot][atStart(s)], s)}

\* In the middle of a slot the next task may start when none is running.
withinSlot(s, running) ==
  IF running # NoTask \/ later(s) = 0 THEN {noChange(s)}
  ELSE {onlyAssign(s.fifo[s.slot][later(s)], s)}

elapsedSince(n) == IF n = Longest THEN n ELSE n + 1

=============================================================================
