--------------------------- MODULE RoundRobinProofs ---------------------------
(***************************************************************************)
(* That the thread of RoundRobinComponent sleeps only when no actor can    *)
(* fire, and over no message but one that came while a guard was           *)
(* evaluated; that no channel overflows; and that its observers see what   *)
(* it does and supervise every deadline.  For every number of actors and   *)
(* messages, every timing and whatever the guards say, within what the     *)
(* model assumes of an application (see RoundRobinComponent).              *)
(*                                                                         *)
(* NoLostWakeup speaks of the moments at which the thread waits.  It is not *)
(* inductive: the thread also goes to sleep from other places of its code, *)
(* and what it relies on there is the rest of the invariant.  The other    *)
(* invariants are built on each other: ObserverInv, Flow (where the tokens *)
(* are), Deadlines.                                                        *)
(***************************************************************************)
EXTENDS RoundRobinComponent, FiniteSetTheorems, SequenceTheorems, TLAPS

Types ==
  /\ tokens \in [Task -> Int] /\ used \in [Task -> Int]
  /\ holds \in GuardValues /\ overtaken \subseteq Msg
  /\ useActivationCallback \in BOOLEAN
  /\ readyMsgTasks \in Seq(Msg)
  /\ thread \in {"runnable", "running", "delay", "event"}

\* No actor can fire.
Idle == \A t \in Task : ~fireable(t, tokens, used, holds)

\* No message is left but those that came while a guard was evaluated.
Left == \A i \in 1..Len(readyMsgTasks) : readyMsgTasks[i] \in overtaken

\* While the thread polls no other process runs, unless a guard takes time; the
\* round began without a message.
Polling ==
  /\ at = "poll" => thread = "running" /\ Left
  /\ at = "guarded" => /\ thread \in {"running", "delay"} /\ Left
                       /\ thread = "delay" => running.type = "GUARD"

\* The thread waits for readyEvent at one place only, and for an action never
\* there: it computes messages before it looks again.
Sleeping ==
  at = "asleep" =>
    /\ useActivationCallback => Idle
    /\ thread = "delay" => running.type = "MESSAGE"

Waiting == thread = "event" => at = "asleep" /\ useActivationCallback /\ Left

IInv == Types /\ Polling /\ Sleeping /\ Waiting

-----------------------------------------------------------------------------
(* What the operators of the model preserve *)

\* A token that is put into a channel, a place that is taken or freed there.
LEMMA ChannelTypes ==
  ASSUME Types, NEW j, NEW inst
  PROVE  /\ arrived(tokens, j) \in [Task -> Int]
         /\ freed(used, inst) \in [Task -> Int]
<1>1. arrived(tokens, j) \in [Task -> Int]
  BY DEF Types, arrived
<1>2. [used EXCEPT ![inst.job] = used[inst.job] - 1] \in [Task -> Int]
  <2>1. CASE inst.job \in Task
    BY <2>1 DEF Types
  <2>2. CASE inst.job \notin Task
    BY <2>2 DEF Types
  <2> QED  BY <2>1, <2>2
<1>3. freed(used, inst) \in [Task -> Int]
  BY <1>2 DEF freed, Types
<1> QED  BY <1>1, <1>3

\* While every actor is idle, one that is given a token and stays idle is told
\* apart by announced: if the callbacks are on, none can fire without it.
LEMMA ArrivedIdle ==
  ASSUME Types, Idle, useActivationCallback, NEW j,
         NEW h \in afterToken(delivered(j)),
         ~announced(delivered(j), arrived(tokens, j), used, h)
  PROVE  \A t \in Task : ~fireable(t, arrived(tokens, j), used, h)
<1> SUFFICES ASSUME NEW t \in Task
             PROVE  ~fireable(t, arrived(tokens, j), used, h)
  OBVIOUS
<1>1. t # NoJob
  BY RoundRobinAssumption DEF Job
<1>2. CASE t = delivered(j)
  BY <1>1, <1>2 DEF announced
<1>3. CASE t # delivered(j)
  <2>1. h[t] = holds[t]
    BY <1>3 DEF afterToken, GuardValues, Types
  <2> QED  BY <1>3, <2>1 DEF Idle, fireable, enabled, arrived, Types
<1> QED  BY <1>2, <1>3

\* What a guard says after a token or a firing.
LEMMA GuardTypes ==
  ASSUME Types, NEW t
  PROVE  afterToken(t) \subseteq GuardValues /\ afterFiring(t) \subseteq GuardValues
<1>1. ASSUME guarded(t), NEW v \in BOOLEAN  PROVE [holds EXCEPT ![t] = v] \in GuardValues
  BY <1>1 DEF Types, GuardValues
<1> QED  BY <1>1 DEF afterToken, afterFiring, Types

\* A message that is put into the list, or taken from it.
LEMMA MessageTypes ==
  ASSUME Types
  PROVE  /\ \A m \in Msg : Append(readyMsgTasks, m) \in Seq(Msg)
         /\ \A j \in Task : forwarded(j) \in Seq(Msg)
         /\ \A j : j \notin Task => forwarded(j) = readyMsgTasks
         /\ \A where : \A m \in Msg : during(where, {m}) \subseteq Msg
         /\ \A j \in Task : hops(j) => Hop[j] \in Msg
         /\ readyMsgTasks # <<>> => Head(readyMsgTasks) \in Msg /\ Tail(readyMsgTasks) \in Seq(Msg)
<1>1. \A j \in Task : hops(j) => Hop[j] \in Msg
  BY RoundRobinAssumption DEF hops
<1> QED  BY <1>1 DEF Types, forwarded, during, hops

\* What is left once a message has come: it is new only while a guard is evaluated.
LEMMA StillLeft ==
  ASSUME Types, Left, NEW m \in Msg, at = "guarded",
         readyMsgTasks' = Append(readyMsgTasks, m), overtaken' = during(at, {m})
  PROVE  Left'
BY DEF Types, Left, during

\* An immediate notification leaves the thread in one of its states.
LEMMA NotifiedType ==
  ASSUME Types
  PROVE  /\ notified(thread) \in {"runnable", "running", "delay", "event"}
         /\ notified(thread) # "event"
         /\ notified(thread) = "running" <=> thread = "running"
         /\ notified(thread) = "delay" <=> thread = "delay"
BY DEF Types, notified

-----------------------------------------------------------------------------
\* In the initial state the thread has not started and every actor with an
\* activation pending is announced: the inductive invariant holds.
THEOREM Initially == Init => IInv
<1> SUFFICES ASSUME Init  PROVE IInv
  OBVIOUS
<1>1. /\ tokens = [t \in Task |-> 0] /\ used = [t \in Task |-> 0]
      /\ holds \in GuardValues /\ readyMsgTasks = <<>> /\ overtaken = {}
      /\ useActivationCallback = FALSE /\ thread = "runnable" /\ at = "top"
  BY DEF Init
<1>2. [t \in Task |-> 0] \in [Task -> Int]
  OBVIOUS
<1>3. Types
  <2>1. <<>> \in Seq(Msg)
    OBVIOUS
  <2> QED  BY <1>1, <1>2, <2>1 DEF Types
<1> QED  BY <1>1, <1>3 DEF IInv, Polling, Sleeping, Waiting

\* Steps of other processes, which the thread may sleep through.
LEMMA SurroundingsStep ==
  ASSUME IInv,
         \/ \E t \in Task : Arrival(t)
         \/ \E m \in Msg : MessageArrival(m)
         \/ \E mode \in PowerModes : ChangePowerMode(mode)
         \/ LatencyExpires
         \/ AdvanceTime
  PROVE  IInv'
<1> USE DEF IInv, Polling, Sleeping, Waiting, channels, place, power, Evaluating
<1>1. ASSUME NEW a \in Task, Arrival(a)  PROVE IInv'
  <2>1. Types'
    BY <1>1, NotifiedType, GuardTypes DEF Arrival, announce, Types
  <2>2. /\ at' = at /\ readyMsgTasks' = readyMsgTasks /\ overtaken' = overtaken
        /\ running' = running /\ holds' \in afterToken(a)
        /\ useActivationCallback' = (useActivationCallback /\ ~announced(a, tokens', used', holds'))
        /\ thread' = IF announced(a, tokens', used', holds') THEN notified(thread) ELSE thread
    BY <1>1 DEF Arrival, announce
  <2>3. ASSUME useActivationCallback', Idle  PROVE Idle'
    <3> SUFFICES ASSUME NEW t \in Task  PROVE ~fireable(t, tokens, used, holds)'
      BY DEF Idle
    <3>1. t # NoJob
      BY RoundRobinAssumption DEF Job
    <3>2. CASE t = a
      BY <2>2, <2>3, <3>1, <3>2 DEF announced, fireable, enabled
    <3>3. CASE t # a
      <4>1. tokens'[t] = tokens[t] /\ holds'[t] = holds[t]
        BY <1>1, <2>2, <3>3 DEF Arrival, afterToken, GuardValues, Types
      <4>2. \A u \in Task : used'[u] >= used[u]
        BY <1>1 DEF Arrival, Types
      <4>3. Succ[t] # NoJob => Succ[t] \in Task
        BY RoundRobinAssumption
      <4>4. CASE Succ[t] = NoJob
        BY <2>3, <4>1, <4>4 DEF Idle, fireable, enabled
      <4>5. CASE Succ[t] # NoJob
        <5>1. used[Succ[t]] \in Int /\ used'[Succ[t]] \in Int /\ Capacity \in Int
          BY <2>1, <4>3, <4>5, RoundRobinAssumption DEF Types
        <5> QED
          BY <2>3, <4>1, <4>2, <4>3, <4>5, <5>1 DEF Idle, fireable, enabled
      <4> QED  BY <4>4, <4>5
    <3> QED  BY <3>2, <3>3
  <2>4. Sleeping'
    BY <2>1, <2>2, <2>3, NotifiedType DEF Types
  <2>5. Left' <=> Left
    BY <2>2 DEF Left
  <2>6. Polling' /\ Waiting'
    BY <1>1, <2>1, <2>2, <2>5, NotifiedType DEF Arrival, Types
  <2> QED  BY <2>1, <2>4, <2>6
<1>2. ASSUME NEW m \in Msg, MessageArrival(m)  PROVE IInv'
  <2>1. /\ at' = at /\ UNCHANGED <<tokens, used, holds, useActivationCallback, running>>
        /\ readyMsgTasks' = Append(readyMsgTasks, m) /\ overtaken' = during(at, {m})
        /\ thread' = notified(thread) /\ thread # "running"
    BY <1>2 DEF MessageArrival
  <2>2. Types'
    BY <2>1, NotifiedType, MessageTypes DEF Types
  <2>3. at = "guarded" => Left'
    BY <2>1, StillLeft
  <2>4. Idle' <=> Idle
    BY <2>1 DEF Idle, fireable, enabled
  <2> QED
    BY <2>1, <2>2, <2>3, <2>4, NotifiedType
<1>3. ASSUME NEW mode \in PowerModes, ChangePowerMode(mode)  PROVE IInv'
  BY <1>3 DEF ChangePowerMode, Types, Idle, Left, fireable, enabled
<1>4. ASSUME LatencyExpires  PROVE IInv'
  <2>1. /\ thread # "running" /\ at' = at /\ running' = running /\ used' = used
    BY <1>4 DEF LatencyExpires
  <2>2. PICK i \in DOMAIN latencyQueue : LET j == latencyQueue[i].job IN
          /\ tokens' = arrived(tokens, j) /\ holds' \in afterToken(delivered(j))
          /\ readyMsgTasks' = forwarded(j)
          /\ IF hops(j)
             THEN /\ thread' = notified(thread) /\ overtaken' = during(at, {Hop[j]})
                  /\ UNCHANGED useActivationCallback
             ELSE announce(delivered(j), tokens', used, holds') /\ UNCHANGED overtaken
    BY <1>4 DEF LatencyExpires
  <2> DEFINE j == latencyQueue[i].job
  <2>3. Types'
    <3>1. tokens' \in [Task -> Int] /\ used' \in [Task -> Int] /\ holds' \in GuardValues
      BY <2>1, <2>2, ChannelTypes, GuardTypes DEF Types
    <3>2. readyMsgTasks' \in Seq(Msg)
      BY <2>2, MessageTypes DEF Types
    <3>3. overtaken' \subseteq Msg
      <4>1. CASE hops(j)
        BY <2>2, <4>1, MessageTypes DEF hops
      <4>2. CASE ~hops(j)
        BY <2>2, <4>2 DEF Types
      <4> QED  BY <4>1, <4>2
    <3> QED  BY <2>2, <3>1, <3>2, <3>3, NotifiedType DEF Types, announce
  <2>4. CASE hops(j)
    <3>1. tokens' = tokens /\ holds' = holds
      BY <2>2, <2>4, RoundRobinAssumption DEF arrived, delivered, afterToken, Job, Types
    <3>2. Idle' <=> Idle
      BY <2>1, <3>1 DEF Idle, fireable, enabled
    <3>3. at = "guarded" => Left'
      <4>1. Hop[j] \in Msg /\ readyMsgTasks' = Append(readyMsgTasks, Hop[j])
        BY <2>2, <2>4, RoundRobinAssumption DEF hops, forwarded
      <4> QED  BY <2>2, <2>4, <4>1, StillLeft
    <3> QED
      BY <2>1, <2>2, <2>3, <2>4, <3>2, <3>3, NotifiedType
  <2>5. CASE ~hops(j)
    <3>1. /\ readyMsgTasks' = readyMsgTasks /\ overtaken' = overtaken
          /\ useActivationCallback' =
               (useActivationCallback /\ ~announced(delivered(j), tokens', used, holds'))
          /\ thread' = IF announced(delivered(j), tokens', used, holds')
                       THEN notified(thread) ELSE thread
      BY <2>2, <2>5 DEF forwarded, announce
    <3>2. useActivationCallback' /\ Idle => Idle'
      BY <2>1, <2>2, <3>1, ArrivedIdle DEF Idle
    <3>3. Sleeping'
      BY <2>1, <2>3, <3>1, <3>2, NotifiedType DEF Types
    <3>4. Left' <=> Left
      BY <3>1 DEF Left
    <3>5. Polling' /\ Waiting'
      BY <2>1, <2>3, <3>1, <3>4, NotifiedType DEF Types
    <3> QED  BY <2>3, <3>3, <3>5
  <2> QED  BY <2>4, <2>5
<1>5. ASSUME AdvanceTime  PROVE IInv'
  BY <1>5 DEF AdvanceTime, Types, Idle, Left, fireable, enabled
<1> QED  BY <1>1, <1>2, <1>3, <1>4, <1>5

\* Steps of the thread itself.
LEMMA ThreadStep ==
  ASSUME IInv, Thread
  PROVE  IInv'
<1> USE DEF IInv, Polling, Sleeping, Waiting, channels, place, power, Runs
<1>1. CASE StartMessage
  BY <1>1, MessageTypes DEF StartMessage, Execute, message, Types, Idle, fireable, enabled
<1>2. CASE BeginRound
  BY <1>2 DEF BeginRound, Types, Left
<1>3. CASE Skip
  BY <1>3 DEF Skip, Types, Left
<1>4. CASE CheckGuard
  <2>1. running'.type = "GUARD"
    BY <1>4 DEF CheckGuard, Execute, checkFiringRule, instance
  <2> QED  BY <1>4, <2>1 DEF CheckGuard, Execute, Types, Left
<1>5. CASE Fire
  <2>1. PICK t : /\ tokens' = [tokens EXCEPT ![t] = @ - 1]
                 /\ used' = IF Succ[t] = NoJob THEN used ELSE [used EXCEPT ![Succ[t]] = @ + 1]
                 /\ holds' \in afterFiring(t)
    BY <1>5 DEF Fire
  <2>2. tokens' \in [Task -> Int]
    <3>1. CASE t \in Task
      BY <2>1, <3>1 DEF Types
    <3>2. CASE t \notin Task
      BY <2>1, <3>2 DEF Types
    <3> QED  BY <3>1, <3>2
  <2>3. used' \in [Task -> Int]
    <3>1. CASE Succ[t] \in Task
      BY <2>1, <3>1 DEF Types
    <3>2. CASE Succ[t] \notin Task
      BY <2>1, <3>2 DEF Types
    <3> QED  BY <3>1, <3>2
  <2>4. holds' \in GuardValues
    BY <2>1, GuardTypes
  <2> QED  BY <1>5, <2>2, <2>3, <2>4 DEF Fire, Types
<1>6. CASE Compute
  BY <1>6 DEF Compute, Execute, Types
<1>7. CASE Timeout
  <2>1. /\ thread = "delay" /\ thread' = "running" /\ at' = at
        /\ used' = freed(used, running) /\ overtaken' = overtaken
        /\ \/ tokens' = tokens /\ holds' = holds
           \/ tokens' = arrived(tokens, running.job) /\ holds' \in afterToken(delivered(running.job))
        /\ useActivationCallback' =
              (useActivationCallback /\ (\/ tokens' = tokens
                                         \/ ~announced(delivered(running.job), tokens', used', holds')))
    BY <1>7 DEF Timeout, finishDii
  <2>2. /\ readyMsgTasks' \in {readyMsgTasks, forwarded(running.job)}
        /\ running.type = "GUARD" => readyMsgTasks' = readyMsgTasks
    BY <1>7 DEF Timeout, finishDii
  <2>3. Types'
    <3>1. readyMsgTasks' \in Seq(Msg)
      BY <2>2, MessageTypes DEF Types
    <3> QED  BY <2>1, <3>1, ChannelTypes, GuardTypes DEF Types
  <2>4. ASSUME at = "asleep", useActivationCallback'  PROVE Idle'
    <3>1. used' = used /\ Idle /\ useActivationCallback
      BY <2>1, <2>4 DEF freed
    <3>2. CASE tokens' = tokens /\ holds' = holds
      BY <3>1, <3>2 DEF Idle, fireable, enabled
    <3>3. CASE tokens' = tokens /\ holds' # holds
      <4>1. delivered(running.job) \notin Task
        BY <2>1, <3>3 DEF arrived, Types
      <4> QED  BY <2>1, <3>3, <4>1 DEF afterToken
    <3>4. CASE tokens' # tokens
      BY <2>1, <2>4, <3>1, <3>4, ArrivedIdle DEF Idle
    <3> QED  BY <3>2, <3>3, <3>4
  <2>5. at # "poll" /\ (at = "guarded" => Left')
    BY <2>1, <2>2 DEF Left
  <2> QED  BY <2>1, <2>3, <2>4, <2>5
<1>8. CASE AfterFiring
  BY <1>8 DEF AfterFiring, Types, Left
<1>9. CASE EndRound
  BY <1>9 DEF EndRound, armed, Types, Idle, Left, fireable, enabled
<1>10. CASE Awake
  BY <1>10 DEF Awake, Types, Idle, Left, fireable, enabled
<1> QED
  BY <1>1, <1>2, <1>3, <1>4, <1>5, <1>6, <1>7, <1>8, <1>9, <1>10 DEF Thread

\* A step that changes nothing keeps the inductive invariant.
LEMMA StutteringStep ==
  ASSUME IInv, UNCHANGED vars
  PROVE  IInv'
BY DEF IInv, Types, Polling, Sleeping, Waiting, Idle, Left, fireable, enabled, vars, channels, place, power

\* The inductive invariant holds in every reachable state.
THEOREM Inductive == Spec => []IInv
<1>1. IInv /\ [Next]_vars => IInv'
  BY SurroundingsStep, ThreadStep, StutteringStep DEF Next
<1> QED  BY Initially, <1>1, PTL DEF Spec

\* The thread never waits for readyEvent while an actor can fire or while the
\* callbacks that would wake it are off; and a message that is left then came
\* while check() let the time of a guard pass.
THEOREM NoLostWakeupTheorem == Spec => []NoLostWakeup
<1>1. IInv => NoLostWakeup
  BY DEF IInv, Types, Waiting, Sleeping, Idle, Left, Range, NoLostWakeup
<1> QED  BY Inductive, <1>1, PTL

-----------------------------------------------------------------------------
(* Folds: the sum of the timings of a firing rule, and below the tasks that *)
(* a deadline monitor gets to know and the deadlines that it starts.        *)

LEMMA LeastNat ==
  ASSUME NEW S, S \subseteq Nat, S # {}
  PROVE  \E n \in S : \A k \in S : n <= k
<1> DEFINE R == OpToRel(<, Nat)
<1>1. IsWellFoundedOn(R, Nat)
  BY NatLessThanWellFounded, Zenon
<1>2. \A k, m \in Nat : k < m => <<k, m>> \in R
  BY DEF OpToRel
<1> HIDE DEF R
<1>3. \E m \in S : \A k \in S : ~(<<k, m>> \in R)
  BY <1>1, WFMin, Zenon
<1>4. PICK n \in S : \A k \in S : ~(<<k, n>> \in R)
  BY <1>3, Zenon
<1>5. \A k \in S : ~(k < n)
  BY <1>2, <1>4
<1> QED  BY <1>5

LEMMA Reached ==
  ASSUME NEW G, 0 \in G, NEW N \in Nat,
         \A n \in 1..N : n - 1 \in G => n \in G
  PROVE  \A n \in 0..N : n \in G
<1> DEFINE F == {n \in 0..N : n \notin G}
<1>1. SUFFICES ASSUME F # {}
               PROVE  FALSE
  OBVIOUS
<1>3. PICK n \in F : \A k \in F : n <= k
  <2>1. F \subseteq Nat
    OBVIOUS
  <2> HIDE DEF F
  <2> QED  BY <1>1, <2>1, LeastNat
<1>4. n \in 1..N /\ n \notin G /\ n - 1 \in 0..N /\ n - 1 \notin F
  BY <1>3
<1> QED  BY <1>4

\* The largest number below a bound that is in the set.
LEMMA LargestIs ==
  ASSUME NEW n \in Nat, NEW s \in SUBSET (1..n), n \in s
  PROVE  Max(s) = n
<1>1. \A y \in s : n >= y
  OBVIOUS
<1>2. \A x \in s : (\A y \in s : x >= y) => x = n
  OBVIOUS
<1> QED  BY <1>1, <1>2 DEF Max

LEMMA LargestIn ==
  ASSUME NEW n \in Nat, NEW s \in SUBSET (1..n), s # {}
  PROVE  Max(s) \in s /\ \A y \in s : Max(s) >= y
<1> DEFINE T == {n - y : y \in s}
<1>1. T \subseteq Nat /\ T # {}
  <2>1. \A y \in s : y \in 1..n /\ n - y \in Nat
    OBVIOUS
  <2> QED  BY <2>1
<1>2. PICK m \in T : \A k \in T : m <= k
  <2> HIDE DEF T
  <2> QED  BY <1>1, LeastNat
<1>3. PICK x \in s : m = n - x
  OBVIOUS
<1>4. \A y \in s : x >= y
  <2> SUFFICES ASSUME NEW y \in s  PROVE x >= y
    OBVIOUS
  <2>1. n - y \in T /\ n - x <= n - y
    BY <1>2, <1>3
  <2> QED  BY <2>1
<1> QED  BY <1>4 DEF Max

Folds(g, N, base, F) ==
  \A s \in SUBSET (1..N) : g[s] = IF s = {} THEN base ELSE F[Max(s)][g[s \ {Max(s)}]]

\* A fold, as a function on the sets of places
LEMMA Recursion ==
  ASSUME NEW N \in Nat, NEW X, NEW base \in X, NEW F \in [1..N -> [X -> X]]
  PROVE  \E g \in [SUBSET (1..N) -> X] : Folds(g, N, base, F)
<1> DEFINE rec(g, s) == IF s = {} THEN base ELSE F[Max(s)][g[s \ {Max(s)}]]
           E(n) == \E g \in [SUBSET (1..n) -> X] : \A s \in SUBSET (1..n) : g[s] = rec(g, s)
<1>1. E(0)
  <2> DEFINE g == [s \in SUBSET (1..0) |-> base]
  <2>1. g \in [SUBSET (1..0) -> X] /\ \A s \in SUBSET (1..0) : s = {}
    OBVIOUS
  <2>2. \A s \in SUBSET (1..0) : g[s] = rec(g, s)
    BY <2>1
  <2> HIDE DEF g
  <2> QED  BY <2>1, <2>2
<1>2. ASSUME NEW n \in 1..N, E(n - 1)
      PROVE  E(n)
  <2>1. PICK g \in [SUBSET (1..(n - 1)) -> X] : \A s \in SUBSET (1..(n - 1)) : g[s] = rec(g, s)
    BY <1>2
  <2> DEFINE h == [s \in SUBSET (1..n) |-> IF n \in s THEN F[n][g[s \ {n}]] ELSE g[s]]
  <2>2. /\ \A s \in SUBSET (1..n) : s \ {n} \in SUBSET (1..(n - 1))
        /\ \A s \in SUBSET (1..n) : n \notin s => s \in SUBSET (1..(n - 1))
    OBVIOUS
  <2>3. h \in [SUBSET (1..n) -> X]
    BY <2>2
  <2>4. ASSUME NEW s \in SUBSET (1..n)
        PROVE  h[s] = rec(h, s)
    <3>1. CASE n \in s
      <4>1. Max(s) = n
        BY <3>1, LargestIs
      <4>2. s \ {n} \in SUBSET (1..n) /\ n \notin s \ {n} /\ s # {}
        BY <3>1
      <4> QED  BY <3>1, <4>1, <4>2
    <3>2. CASE n \notin s
      <4>1. s \in SUBSET (1..(n - 1)) /\ s \ {Max(s)} \in SUBSET (1..n) /\ n \notin s \ {Max(s)}
        BY <2>2, <3>2
      <4>2. h[s] = rec(g, s)
        BY <2>1, <3>2, <4>1
      <4>3. h[s \ {Max(s)}] = g[s \ {Max(s)}]
        BY <4>1
      <4> QED  BY <4>2, <4>3
    <3> QED  BY <3>1, <3>2
  <2> HIDE DEF h
  <2> QED  BY <2>3, <2>4
<1>3. E(N)
  <2> HIDE DEF E
  <2> DEFINE G == {n \in Nat : E(n)}
  <2>1. 0 \in G
    BY <1>1
  <2>2. \A n \in 1..N : n - 1 \in G => n \in G
    BY <1>2
  <2> HIDE DEF G
  <2>3. N \in G
    <3>1. N \in 0..N
      OBVIOUS
    <3> QED  BY <2>1, <2>2, <3>1, Reached
  <2> QED  BY <2>3 DEF G
<1> QED  BY <1>3 DEF Folds

LEMMA TotalFold ==
  ASSUME NEW mode, NEW S, NEW names \in Seq(S), NEW t, NEW field,
         \A k \in 1..Len(names) : timing(mode, names[k], t)[field] \in Nat
  PROVE  total(mode, names, t, field) \in Nat
<1> DEFINE N == Len(names)
           term(k) == timing(mode, names[k], t)[field]
           it == CHOOSE g : g = [s \in SUBSET (1..N) |->
                                   IF s = {} THEN 0 ELSE g[s \ {Max(s)}] + term(Max(s))]
           F == [k \in 1..N |-> [x \in Nat |-> x + term(k)]]
<1>0. N \in Nat /\ DOMAIN names = 1..N
  OBVIOUS
<1>1. total(mode, names, t, field) = it[1..N]
  BY <1>0 DEF total, FoldLeft, MapThenFoldSet
<1>2. F \in [1..N -> [Nat -> Nat]]
  OBVIOUS
<1> HIDE DEF F, N
<1>3. PICK g \in [SUBSET (1..N) -> Nat] : Folds(g, N, 0, F)
  <2>1. 0 \in Nat
    OBVIOUS
  <2> QED  BY <1>0, <1>2, <2>1, Recursion
<1>4. g = [s \in SUBSET (1..N) |-> IF s = {} THEN 0 ELSE g[s \ {Max(s)}] + term(Max(s))]
  <2>1. ASSUME NEW s \in SUBSET (1..N), s # {}
        PROVE  Max(s) \in 1..N
    BY <1>0, <2>1, LargestIn
  <2>2. ASSUME NEW s \in SUBSET (1..N)
        PROVE  g[s] = IF s = {} THEN 0 ELSE g[s \ {Max(s)}] + term(Max(s))
    BY <1>3, <2>1, <2>2 DEF F, Folds
  <2> HIDE DEF term
  <2> QED  BY <2>2
<1>5. it = [s \in SUBSET (1..N) |-> IF s = {} THEN 0 ELSE it[s \ {Max(s)}] + term(Max(s))]
  <2> HIDE DEF term
  <2> QED BY <1>4
<1> HIDE DEF it, term
<1> DEFINE G == {k \in 0..N : it[1..k] \in Nat}
<1>6. 0 \in G
  <2>1. 1..0 = {} /\ {} \in SUBSET (1..N)
    OBVIOUS
  <2> QED  BY <1>0, <1>5, <2>1
<1>7. ASSUME NEW k \in 1..N, k - 1 \in G
      PROVE  k \in G
  <2>1. Max(1..k) = k /\ (1..k) \ {k} = 1..(k - 1) /\ 1..k \in SUBSET (1..N) /\ 1..k # {}
    BY <1>0, LargestIs
  <2>2. it[1..k] = it[1..(k - 1)] + term(k) /\ it[1..(k - 1)] \in Nat
    BY <1>0, <1>5, <1>7, <2>1
  <2>3. term(k) \in Nat
    BY DEF term, N
  <2> QED  BY <2>2, <2>3
<1>8. N \in G
  <2>1. N \in 0..N
    BY <1>0
  <2>2. \A k \in 1..N : k - 1 \in G => k \in G
    BY <1>7
  <2> HIDE DEF G
  <2> QED  BY <1>0, <1>6, <2>1, <2>2, Reached
<1> QED  BY <1>1, <1>8 DEF G

\* The timings of an actor are natural numbers in every power mode.
LEMMA RegisteredTimes ==
  ASSUME NEW t \in Task, NEW mode \in PowerModes
  PROVE  registerAction(t)[mode] \in
           [guardDelay : Nat, dii : Nat, latency : Nat, pwrRunning : Nat]
<1>1. ASSUME NEW names \in {ActionNames[t], GuardNames[t]}, NEW field \in {"dii", "latency"}
      PROVE  total(mode, names, t, field) \in Nat
  <2>1. names \in Seq(Range(names))
    BY DurationsAssumption
  <2>2. ASSUME NEW k \in 1..Len(names)
        PROVE  timing(mode, names[k], t)[field] \in Nat
    <3>1. names[k] \in Range(ActionNames[t]) \cup Range(GuardNames[t])
      BY <2>1 DEF Range
    <3>2. known(mode, names[k], t)
      BY <3>1, TimingsAssumption
    <3>3. timing(mode, names[k], t) \in [dii : Nat, latency : Nat]
      BY <3>2, DurationsAssumption DEF known, timing
    <3> QED  BY <3>3
  <2> QED  BY <2>1, <2>2, TotalFold
<1>2. GuardComplexity[t] * GuardComplexityFactor[mode] \in Nat
  BY DurationsAssumption
<1>3. PwrRunning[mode] \in Nat
  BY DurationsAssumption
<1> QED  BY <1>1, <1>2, <1>3 DEF registerAction

-----------------------------------------------------------------------------
(* What the observers see.  EnergyCharged and TraceFaithful speak of the    *)
(* moments at which time goes on; the invariants below hold between any two *)
(* steps.  The deadlines have sections of their own below.                  *)

\* An instance as compute gets it.
Timed(inst) == inst.job \in Job /\ inst.delay \in Nat /\ inst.latency \in Nat

\* An instance runs exactly while the thread waits for its end, and compute
\* has been called with the firing of an actor.
Assigned ==
  /\ thread \in {"runnable", "running", "delay", "event"}
  /\ thread = "delay" => Timed(running) /\ wake \in 0..running.delay
  /\ thread # "delay" => running = None
  /\ at = "compute" => Timed(actualTask)
  /\ at = "guarded" => next \in DOMAIN TaskOrder
  /\ powerMode \in PowerModes
  /\ readyMsgTasks \in Seq(Msg)
  /\ latencyQueue \in Seq([job : Job, time : Int])

\* The parts of the observers' state.
Shape(o) ==
  /\ o = [energy  |-> o.energy, signal  |-> o.signal, paje |-> o.paje, monitor |-> o.monitor]
  /\ o.energy = [powerValue |-> o.energy.powerValue]
  /\ o.paje = [startTime     |-> o.paje.startTime,
               powerTimePast |-> o.paje.powerTimePast,
               powerValue    |-> o.paje.powerValue,
               powerValueOld |-> o.paje.powerValueOld]
  /\ o.signal \in [Job -> Component!Tracers!VcdTask]

\* The observers have seen the power that the component has, apart from the
\* two exceptions of EnergyCharged.
Charged ==
  /\ observers.energy.powerValue = observers.paje.powerValue
  /\ \/ observers.energy.powerValue = powerConsumption
     \/ running = None /\ (unused \/ latencyQueue # <<>>)

\* What getLastValue gives is what the trace file shows up to now, and a value
\* that is written for an instance that runs differs from it.
SignalFaithful(s, runs) ==
  /\ s.currentValue.letter = IF runs THEN "R" ELSE " "
  /\ Component!Tracers!getLastValue(s) = s.sampled
  /\ runs /\ s.changedNow => s.currentValue # s.sampled

Traced ==
  /\ \A j \in Job : SignalFaithful(observers.signal[j], running.job = j)
  /\ observers.paje.startTime =
       IF thread = "delay" THEN running.delay - wake ELSE Component!Tracers!NoTime

ObserverInv == Assigned /\ Shape(observers) /\ Charged /\ Traced

\* The observers' state is of the same shape, and it is the power that counts
\* from now on.
Seen(o, pw) ==
  /\ Shape(o)
  /\ o.energy.powerValue = pw /\ o.paje.powerValue = pw

\* An element of a sequence, and a sequence made from one by its elements.
LEMMA SequenceElements ==
  ASSUME NEW S, NEW q \in Seq(S), NEW i \in DOMAIN q
  PROVE  q[i] \in S
OBVIOUS

LEMMA AppendedElement ==
  ASSUME NEW S, NEW q \in Seq(S), NEW e \in S
  PROVE  Append(q, e) \in Seq(S)
OBVIOUS

LEMMA MappedSequence ==
  ASSUME NEW S, NEW R, NEW q \in Seq(S), NEW f, f = [i \in DOMAIN q |-> f[i]],
         \A i \in DOMAIN q : f[i] \in R
  PROVE  f \in Seq(R) /\ Len(f) = Len(q)
<1>1. DOMAIN q = 1..Len(q) /\ Len(q) \in Nat
  OBVIOUS
<1>2. f \in [1..Len(q) -> R]
  BY <1>1
<1> QED  BY <1>1, <1>2

\* What a firing, a guard or a message gets is a time, and the thread computes
\* the actors and messages of the component.
LEMMA InstancesTimed ==
  ASSUME powerMode \in PowerModes
  PROVE  /\ \A t \in Task : Timed(checkFiringRule(t)) /\ Timed(executeFiringRule(t))
         /\ \A j \in Msg : Timed(message(j))
<1>1. ASSUME NEW t \in Task, NEW type
      PROVE  Timed(instance(t, type))
  <2>1. registerAction(t)[powerMode] \in [guardDelay : Nat, dii : Nat, latency : Nat, pwrRunning : Nat]
    BY RegisteredTimes
  <2> QED  BY <2>1 DEF Timed, instance, initTaskInstance, Job
<1>2. ASSUME NEW j \in Msg  PROVE Timed(message(j))
  BY RoundRobinAssumption DEF Timed, message, Job
<1> QED  BY <1>1, <1>2 DEF checkFiringRule, executeFiringRule

LEMMA SignalWritten ==
  ASSUME NEW s \in Component!Tracers!VcdTask,
         NEW op \in {"ALLOCATE", "RELEASE", "ASSIGN", "FINISHDII", "FINISHLAT"},
         Component!Tracers!getLastValue(s) = s.sampled,
         NEW u, u = Component!Tracers!vcdTaskInstanceOperation(s, op)
  PROVE  /\ u \in Component!Tracers!VcdTask
         /\ op = "ASSIGN" => SignalFaithful(u, TRUE)
         /\ op = "RELEASE" => Component!Tracers!getLastValue(u) = u.sampled
         /\ op = "FINISHDII" => SignalFaithful(u, FALSE)
         /\ op \in {"ALLOCATE", "FINISHLAT"} => u = s
<1> DEFINE T(v) == [lastValue |-> s.sampled, currentValue |-> v, changedNow |-> TRUE,
                    sampled |-> s.sampled]
           other(l) == [letter |-> l, flipped |-> TRUE]
           same(l)  == [letter |-> l, flipped |-> FALSE]
           cased(l) == IF s.sampled = same(l) THEN other(l) ELSE same(l)
<1>1. /\ s = [lastValue |-> s.lastValue, currentValue |-> s.currentValue,
              changedNow |-> s.changedNow, sampled |-> s.sampled]
      /\ s.sampled \in Component!Tracers!Value
  BY DEF Component!Tracers!VcdTask
<1>2. /\ op = "RELEASE" => u = T(cased("w"))
      /\ op = "ASSIGN" => u = T(cased("R"))
      /\ op = "FINISHDII" => u = T(same(" "))
      /\ op \in {"ALLOCATE", "FINISHLAT"} => u = s
  BY <1>1 DEF Component!Tracers!vcdTaskInstanceOperation,
     Component!Tracers!traceReady, Component!Tracers!traceRunning,
     Component!Tracers!traceBlocking, Component!Tracers!traceSleeping,
     Component!Tracers!setValueWithCaseCorrection, Component!Tracers!writeValue,
     Component!Tracers!plain
<1>3. \A l \in Component!Tracers!Letter :
        /\ cased(l) \in Component!Tracers!Value /\ same(l) \in Component!Tracers!Value
        /\ cased(l).letter = l /\ same(l).letter = l /\ cased(l) # s.sampled
  BY DEF Component!Tracers!Value
<1>4. \A v \in Component!Tracers!Value :
        /\ T(v) \in Component!Tracers!VcdTask /\ T(v).currentValue = v
        /\ Component!Tracers!getLastValue(T(v)) = T(v).sampled
        /\ T(v).sampled = s.sampled
  BY <1>1 DEF Component!Tracers!VcdTask, Component!Tracers!getLastValue
<1> HIDE DEF T
<1>6. CASE op = "RELEASE"
  <2>1. PICK v \in Component!Tracers!Value : v = cased("w")
    BY <1>3 DEF Component!Tracers!Letter
  <2> QED  BY <1>2, <1>4, <1>6, <2>1
<1>7. CASE op = "ASSIGN"
  <2>1. PICK v \in Component!Tracers!Value : v = cased("R") /\ v.letter = "R" /\ v # s.sampled
    BY <1>3 DEF Component!Tracers!Letter
  <2> QED  BY <1>2, <1>4, <1>7, <2>1 DEF SignalFaithful
<1>8. CASE op = "FINISHDII"
  <2>1. PICK v \in Component!Tracers!Value : v = same(" ") /\ v.letter = " "
    BY <1>3 DEF Component!Tracers!Letter
  <2> QED  BY <1>2, <1>4, <1>8, <2>1 DEF SignalFaithful
<1> QED
  BY <1>2, <1>6, <1>7, <1>8

LEMMA ToldFields ==
  ASSUME NEW o, Shape(o), NEW op \in {"ALLOCATE", "RELEASE", "ASSIGN", "FINISHDII", "FINISHLAT"},
         NEW j \in Job, NEW pw,
         Component!Tracers!getLastValue(o.signal[j]) = o.signal[j].sampled
  PROVE  /\ Seen(told(o, op, j, pw), pw)
         /\ told(o, op, j, pw).signal =
              [o.signal EXCEPT ![j] = Component!Tracers!vcdTaskInstanceOperation(@, op)]
         /\ told(o, op, j, pw).paje.startTime =
              CASE op = "ASSIGN"    -> 0
                [] op = "FINISHDII" -> Component!Tracers!NoTime
                [] OTHER            -> o.paje.startTime
<1> DEFINE u == told(o, op, j, pw)
<1>1. /\ u.energy = [powerValue |-> pw]
      /\ u.signal = [o.signal EXCEPT ![j] = Component!Tracers!vcdTaskInstanceOperation(@, op)]
      /\ u.paje = Component!Tracers!pajeTaskInstanceOperation(o.paje, op, pw)
      /\ u = [energy |-> u.energy, signal |-> u.signal, paje |-> u.paje, monitor |-> u.monitor]
  <2>1. o.signal \in [Job -> Component!Tracers!VcdTask]
    BY DEF Shape
  <2>2. u = [energy  |-> [powerValue |-> pw],
             signal  |-> [o.signal EXCEPT ![j] = Component!Tracers!vcdTaskInstanceOperation(@, op)],
             paje    |-> Component!Tracers!pajeTaskInstanceOperation(o.paje, op, pw),
             monitor |-> Component!Monitor!taskInstanceOperation(o.monitor, op, j)]
    <3>1. PICK e, s, p, m : /\ o = [energy |-> e, signal |-> s, paje |-> p, monitor |-> m]
                            /\ o.energy = e /\ o.signal = s /\ o.paje = p /\ o.monitor = m
                            /\ e = [powerValue |-> e.powerValue]
      BY DEF Shape
    <3>2. u = [[[[o EXCEPT !.energy = [powerValue |-> pw]]
                    EXCEPT !.signal = [o.signal EXCEPT ![j] =
                                         Component!Tracers!vcdTaskInstanceOperation(@, op)]]
                    EXCEPT !.paje = Component!Tracers!pajeTaskInstanceOperation(o.paje, op, pw)]
                    EXCEPT !.monitor = Component!Monitor!taskInstanceOperation(o.monitor, op, j)]
      BY <3>1 DEF told, Component!taskInstanceOperation, Component!calculateNewEnergySum
    <3> QED  BY <3>1, <3>2
  <2> QED  BY <2>2
<1>2. u.signal \in [Job -> Component!Tracers!VcdTask]
  <2>1. Component!Tracers!vcdTaskInstanceOperation(o.signal[j], op) \in Component!Tracers!VcdTask
    <3>1. o.signal[j] \in Component!Tracers!VcdTask
      BY DEF Shape
    <3>2. PICK v : v = Component!Tracers!vcdTaskInstanceOperation(o.signal[j], op)
      OBVIOUS
    <3> QED  BY <3>1, <3>2, SignalWritten, ZenonT(60)
  <2> QED  BY <1>1, <2>1 DEF Shape
<1>3. /\ u.paje.powerValue = pw
      /\ u.paje = [startTime     |-> u.paje.startTime,
                   powerTimePast |-> u.paje.powerTimePast,
                   powerValue    |-> u.paje.powerValue,
                   powerValueOld |-> u.paje.powerValueOld]
      /\ u.paje.startTime =
              CASE op = "ASSIGN"    -> 0
                [] op = "FINISHDII" -> Component!Tracers!NoTime
                [] OTHER            -> o.paje.startTime
  BY <1>1 DEF Shape, Component!Tracers!pajeTaskInstanceOperation,
              Component!Tracers!pajeComponentOperation
<1> HIDE DEF u
<1>4. Seen(u, pw)
  BY <1>1, <1>2, <1>3 DEF Seen, Shape
<1> QED  BY <1>1, <1>3, <1>4 DEF u

\* An operation that leaves the signals and the activity as they are.
LEMMA NoticedOnly ==
  ASSUME ObserverInv, NEW op \in {"ALLOCATE", "FINISHLAT"}, NEW j \in Job, NEW pw,
         NEW u, u = told(observers, op, j, pw)
  PROVE  /\ Seen(u, pw) /\ u.signal = observers.signal
         /\ u.paje.startTime = observers.paje.startTime
<1>1. Component!Tracers!getLastValue(observers.signal[j]) = observers.signal[j].sampled
  BY DEF ObserverInv, Traced, SignalFaithful
<1>2. observers.signal \in [Job -> Component!Tracers!VcdTask]
  BY DEF ObserverInv, Shape
<1>3. Component!Tracers!vcdTaskInstanceOperation(observers.signal[j], op) = observers.signal[j]
  BY <1>1, <1>2, SignalWritten
<1>4. [observers.signal EXCEPT ![j] = Component!Tracers!vcdTaskInstanceOperation(@, op)]
        = observers.signal
  BY <1>2, <1>3
<1> QED
  BY <1>1, <1>4, ToldFields DEF ObserverInv

\* The parts of the invariant after a step.
ObservedAfter == Shape(observers)' /\ Charged' /\ Traced'

\* In the initial state the observers have been told of nothing.
LEMMA ObserversCreated == Init => ObserverInv
<1> SUFFICES ASSUME Init  PROVE ObserverInv
  OBVIOUS
<1>1. /\ readyMsgTasks = <<>> /\ latencyQueue = <<>> /\ running = None
      /\ thread = "runnable" /\ at = "top" /\ powerMode = StartPowerMode
  BY DEF Init
<1>2. PICK order \in Creations : observers = Component!created(order)
  BY DEF Init
<1>3. /\ observers = [energy |-> [powerValue |-> 0],
                      signal |-> [j \in Job |-> Component!Tracers!newVcdTask],
                      paje |-> Component!Tracers!newPajeComponent,
                      monitor |-> Component!Monitor!allocated(order)]
  BY <1>2 DEF Component!created, Component!newPSComponent
<1>4. /\ observers.energy.powerValue = 0
      /\ observers.paje = [startTime |-> Component!Tracers!NoTime, powerTimePast |-> FALSE,
                           powerValue |-> 0, powerValueOld |-> -1]
      /\ observers.signal = [j \in Job |-> Component!Tracers!newVcdTask]
  BY <1>3 DEF Component!Tracers!newPajeComponent
<1>5. /\ Component!Tracers!newVcdTask \in Component!Tracers!VcdTask
      /\ SignalFaithful(Component!Tracers!newVcdTask, FALSE)
      /\ Component!Tracers!newVcdTask.lastValue = Component!Tracers!plain("0")
  BY DEF Component!Tracers!newVcdTask, Component!Tracers!VcdTask, Component!Tracers!plain,
         Component!Tracers!Value, Component!Tracers!Letter, SignalFaithful,
         Component!Tracers!getLastValue
<1>6. Assigned
  BY <1>1, RoundRobinAssumption DEF Assigned
<1>7. Shape(observers)
  <2>1. observers.signal \in [Job -> Component!Tracers!VcdTask]
    BY <1>4, <1>5
  <2> QED  BY <1>3, <1>4, <2>1 DEF Shape
<1>8. Charged
  BY <1>1, <1>4, <1>5 DEF Charged, unused
<1>9. Traced
  <2>1. \A j \in Job : running.job # j
    BY <1>1, RoundRobinAssumption DEF None
  <2>2. \A j \in Job : observers.signal[j] = Component!Tracers!newVcdTask
    BY <1>4
  <2>3. \A j \in Job : SignalFaithful(observers.signal[j], running.job = j)
    BY <1>5, <2>1, <2>2 DEF SignalFaithful
  <2>4. observers.paje.startTime = Component!Tracers!NoTime
    BY <1>4
  <2> QED  BY <1>1, <2>3, <2>4 DEF Traced
<1> QED  BY <1>6, <1>7, <1>8, <1>9 DEF ObserverInv

\* An instance that starts: it is released and assigned.
LEMMA ExecuteStep ==
  ASSUME ObserverInv, thread # "delay", NEW inst, Timed(inst), Execute(inst)
  PROVE  ObservedAfter /\ running' = inst /\ thread' = "delay" /\ wake' = inst.delay
<1> DEFINE j == inst.job
           r == told(observers, "RELEASE", j, powerConsumption)
           o == told(r, "ASSIGN", j, inst.power)
<1>1. /\ running' = inst /\ powerConsumption' = inst.power /\ observers' = o
      /\ wake' = inst.delay /\ thread' = "delay"
  BY DEF Execute
<1>2. /\ j \in Job /\ inst.delay \in Nat /\ running = None /\ Shape(observers)
      /\ observers.signal \in [Job -> Component!Tracers!VcdTask]
      /\ \A i \in Job : SignalFaithful(observers.signal[i], FALSE)
  <2>1. running = None /\ \A i \in Job : running.job # i
    BY RoundRobinAssumption DEF ObserverInv, Assigned, None
  <2>2. \A i \in Job : SignalFaithful(observers.signal[i], FALSE)
    BY <2>1 DEF ObserverInv, Traced, SignalFaithful
  <2> QED  BY <2>1, <2>2 DEF ObserverInv, Timed, Shape
<1> HIDE DEF j
<1>3. Component!Tracers!getLastValue(observers.signal[j]) = observers.signal[j].sampled
  BY <1>2 DEF SignalFaithful
<1>4. /\ Seen(r, powerConsumption)
      /\ r.signal = [observers.signal EXCEPT ![j] =
                       Component!Tracers!vcdTaskInstanceOperation(@, "RELEASE")]
  BY <1>2, <1>3, ToldFields
<1>5. r.signal[j] \in Component!Tracers!VcdTask
  BY <1>2, <1>4 DEF Seen, Shape
<1>6. Component!Tracers!getLastValue(r.signal[j]) = r.signal[j].sampled
  <2>1. PICK v : v = Component!Tracers!vcdTaskInstanceOperation(observers.signal[j], "RELEASE")
    OBVIOUS
  <2>2. r.signal[j] = v /\ observers.signal[j] \in Component!Tracers!VcdTask
    BY <1>2, <1>4, <2>1
  <2>3. Component!Tracers!getLastValue(v) = v.sampled
    BY <1>3, <2>1, <2>2, SignalWritten
  <2> QED  BY <2>2, <2>3
<1> HIDE DEF r
<1>7. /\ Seen(o, inst.power)
      /\ o.signal = [r.signal EXCEPT ![j] =
                       Component!Tracers!vcdTaskInstanceOperation(@, "ASSIGN")]
      /\ o.paje.startTime = 0
  BY <1>2, <1>4, <1>6, ToldFields DEF Seen
<1>8. SignalFaithful(o.signal[j], TRUE)
  <2>1. PICK v : v = Component!Tracers!vcdTaskInstanceOperation(r.signal[j], "ASSIGN")
    OBVIOUS
  <2>2. o.signal[j] = v
    BY <1>2, <1>4, <1>7, <2>1 DEF Seen, Shape
  <2>3. SignalFaithful(v, TRUE)
    BY <1>5, <1>6, <2>1, SignalWritten
  <2> QED  BY <2>2, <2>3
<1>9. \A i \in Job : i # j => SignalFaithful(o.signal[i], FALSE)
  <2>1. \A i \in Job : i # j => o.signal[i] = observers.signal[i]
    BY <1>2, <1>4, <1>7 DEF Seen, Shape
  <2> QED  BY <1>2, <2>1
<1> HIDE DEF o
<1>10. Traced'
  <2>1. \A i \in Job : SignalFaithful(o.signal[i], inst.job = i)
    BY <1>8, <1>9 DEF j
  <2>2. inst.delay - inst.delay = 0
    BY <1>2
  <2> QED  BY <1>1, <1>7, <2>1, <2>2 DEF Traced
<1> QED  BY <1>1, <1>7, <1>10 DEF Seen, Charged, ObservedAfter

\* A step that the observers are not told of.
LEMMA UntoldStep ==
  ASSUME ObserverInv, UNCHANGED <<running, wake, powerConsumption, observers>>,
         thread' = "delay" <=> thread = "delay",
         latencyQueue' = latencyQueue
  PROVE  ObservedAfter
BY DEF ObserverInv, ObservedAfter, Shape, Charged, Traced, unused

\* A step that they are told of, with the power there is, but that starts and
\* ends no instance.
LEMMA NoticedStep ==
  ASSUME ObserverInv, UNCHANGED <<running, wake, powerConsumption>>,
         thread' = "delay" <=> thread = "delay",
         NEW op \in {"ALLOCATE", "FINISHLAT"}, NEW j \in Job,
         observers' = told(observers, op, j, powerConsumption)
  PROVE  ObservedAfter
<1>1. PICK u : u = told(observers, op, j, powerConsumption)
  OBVIOUS
<1>2. /\ Seen(u, powerConsumption) /\ u.signal = observers.signal
      /\ u.paje.startTime = observers.paje.startTime
  BY <1>1, NoticedOnly
<1> QED
  BY <1>1, <1>2 DEF ObserverInv, ObservedAfter, Seen, Charged, Traced

\* Steps of other processes.
LEMMA ObserversOfSurroundings ==
  ASSUME ObserverInv,
         \/ \E t \in Task : Arrival(t)
         \/ \E m \in Msg : MessageArrival(m)
         \/ \E mode \in PowerModes : ChangePowerMode(mode)
         \/ LatencyExpires
         \/ AdvanceTime
  PROVE  ObserverInv'
<1> USE DEF channels, place, power, Evaluating
<1>0. /\ thread \in {"runnable", "running", "delay", "event"}
      /\ notified(thread) = "delay" <=> thread = "delay"
      /\ notified(thread) \in {"runnable", "running", "delay", "event"}
  BY DEF ObserverInv, Assigned, notified
<1>1. ASSUME NEW a \in Task, Arrival(a)  PROVE ObserverInv'
  <2>1. /\ thread' \in {thread, notified(thread)}
        /\ UNCHANGED <<running, wake, powerConsumption, observers, latencyQueue, at, next,
                       actualTask, powerMode, readyMsgTasks>>
    BY <1>1 DEF Arrival, announce
  <2>2. Assigned'
    BY <1>0, <2>1 DEF ObserverInv, Assigned, Timed
  <2>3. ObservedAfter
    BY <1>0, <2>1, UntoldStep
  <2> QED  BY <2>2, <2>3 DEF ObserverInv, ObservedAfter
<1>2. ASSUME NEW m \in Msg, MessageArrival(m)  PROVE ObserverInv'
  <2>1. /\ thread' = notified(thread)
        /\ readyMsgTasks' = Append(readyMsgTasks, m)
        /\ observers' = told(observers, "ALLOCATE", m, powerConsumption)
        /\ UNCHANGED <<running, wake, powerConsumption, latencyQueue, at, next,
                       actualTask, powerMode>>
    BY <1>2 DEF MessageArrival, allocated
  <2>2. Assigned'
    BY <1>0, <2>1 DEF ObserverInv, Assigned, Timed
  <2>3. ObservedAfter
    BY <1>0, <2>1, NoticedStep DEF Job
  <2> QED  BY <2>2, <2>3 DEF ObserverInv, ObservedAfter
<1>3. ASSUME NEW mode \in PowerModes, ChangePowerMode(mode)  PROVE ObserverInv'
  <2>1. /\ observers' = Component!componentOperation(observers, powerConsumption)
        /\ powerMode' = mode
        /\ UNCHANGED <<running, wake, powerConsumption, latencyQueue, at, next, thread,
                       actualTask, readyMsgTasks>>
    BY <1>3 DEF ChangePowerMode
  <2>2. Assigned'
    BY <2>1 DEF ObserverInv, Assigned, Timed
  <2>3. /\ Seen(observers', powerConsumption) /\ observers'.signal = observers.signal
        /\ observers'.paje.startTime = observers.paje.startTime
    <3>1. PICK e, s, p, q : /\ observers = [energy |-> e, signal |-> s, paje |-> p, monitor |-> q]
                            /\ observers.energy = e /\ observers.signal = s
                            /\ observers.paje = p /\ observers.monitor = q
                            /\ e = [powerValue |-> e.powerValue]
                            /\ s \in [Job -> Component!Tracers!VcdTask]
                            /\ p = [startTime     |-> p.startTime,
                                    powerTimePast |-> p.powerTimePast,
                                    powerValue    |-> p.powerValue,
                                    powerValueOld |-> p.powerValueOld]
      BY DEF ObserverInv, Shape
    <3>2. PICK y : /\ y = Component!Tracers!pajeComponentOperation(p, powerConsumption)
                   /\ y.powerValue = powerConsumption /\ y.startTime = p.startTime
                   /\ y = [startTime     |-> y.startTime,
                           powerTimePast |-> y.powerTimePast,
                           powerValue    |-> y.powerValue,
                           powerValueOld |-> y.powerValueOld]
      <4>1. PICK y : y = Component!Tracers!pajeComponentOperation(p, powerConsumption)
        OBVIOUS
      <4>2. /\ y.powerValue = powerConsumption /\ y.startTime = p.startTime
            /\ y = [startTime     |-> y.startTime,
                    powerTimePast |-> y.powerTimePast,
                    powerValue    |-> y.powerValue,
                    powerValueOld |-> y.powerValueOld]
        BY <3>1, <4>1 DEF Component!Tracers!pajeComponentOperation
      <4> QED  BY <4>1, <4>2
    <3>3. observers' = [energy |-> [powerValue |-> powerConsumption], signal |-> s,
                        paje |-> y, monitor |-> q]
      BY <2>1, <3>1, <3>2 DEF Component!componentOperation, Component!calculateNewEnergySum
    <3> QED  BY <3>1, <3>2, <3>3 DEF Seen, Shape
  <2>4. ObservedAfter
    BY <2>1, <2>3 DEF ObserverInv, ObservedAfter, Seen, Shape, Charged, Traced
  <2> QED  BY <2>2, <2>4 DEF ObserverInv, ObservedAfter
<1>4. ASSUME LatencyExpires  PROVE ObserverInv'
  <2>1. PICK i \in DOMAIN latencyQueue :
          /\ latencyQueue' = RemoveAt(latencyQueue, i)
          /\ readyMsgTasks' = forwarded(latencyQueue[i].job)
          /\ observers' = told(observers, "FINISHLAT", latencyQueue[i].job, powerConsumption)
    BY <1>4 DEF LatencyExpires
  <2>2. /\ thread' \in {thread, notified(thread)}
        /\ UNCHANGED <<running, wake, powerConsumption, at, next, actualTask, powerMode>>
    BY <1>4 DEF LatencyExpires, announce
  <2>3. /\ latencyQueue \in Seq([job : Job, time : Int]) /\ readyMsgTasks \in Seq(Msg)
    BY DEF ObserverInv, Assigned
  <2>4. /\ latencyQueue[i].job \in Job /\ i \in 1..Len(latencyQueue)
        /\ latencyQueue' \in Seq([job : Job, time : Int])
    <3> DEFINE S == [job : Job, time : Int]
    <3>1. i \in 1..Len(latencyQueue) /\ Len(latencyQueue) \in Nat
      BY <2>3
    <3>2. latencyQueue[i] \in S
      BY <2>3, <3>1, SequenceElements
    <3>3. latencyQueue \in Seq(S)
      BY <2>3
    <3>4. latencyQueue[i].job \in Job
      BY <3>2
    <3> HIDE DEF S
    <3>5. SubSeq(latencyQueue, 1, i - 1) \in Seq(S)
      BY <3>1, <3>3
    <3>6. SubSeq(latencyQueue, i + 1, Len(latencyQueue)) \in Seq(S)
      BY <3>1, <3>3
    <3>7. latencyQueue' \in Seq(S)
      BY <2>1, <3>5, <3>6 DEF RemoveAt
    <3> QED  BY <3>1, <3>4, <3>7 DEF S
  <2>5. readyMsgTasks' \in Seq(Msg)
    BY <2>1, <2>3, RoundRobinAssumption DEF forwarded, hops
  <2>6. Assigned'
    BY <1>0, <2>2, <2>4, <2>5 DEF ObserverInv, Assigned, Timed
  <2>7. ObservedAfter
    BY <1>0, <2>1, <2>2, <2>4, NoticedStep
  <2> QED  BY <2>6, <2>7 DEF ObserverInv, ObservedAfter
<1>5. ASSUME AdvanceTime  PROVE ObserverInv'
  <2>1. /\ thread' = thread /\ UNCHANGED <<running, powerConsumption, at, next,
                       actualTask, powerMode, readyMsgTasks>>
        /\ \/ thread = "event"
           \/ thread = "delay" /\ wake > 0
        /\ wake' = IF thread = "delay" THEN wake - 1 ELSE wake
        /\ latencyQueue' =
             [i \in DOMAIN latencyQueue |-> [latencyQueue[i] EXCEPT !.time = @ - 1]]
        /\ observers' = Component!elapsed(observers)
    BY <1>5 DEF AdvanceTime, Quiet
  <2>2. latencyQueue \in Seq([job : Job, time : Int])
    BY DEF ObserverInv, Assigned
  <2>3. /\ latencyQueue' \in Seq([job : Job, time : Int])
        /\ latencyQueue # <<>> => latencyQueue' # <<>>
    <3>1. \A i \in DOMAIN latencyQueue : latencyQueue'[i] \in [job : Job, time : Int]
      <4> SUFFICES ASSUME NEW i \in DOMAIN latencyQueue
                   PROVE  latencyQueue'[i] \in [job : Job, time : Int]
        OBVIOUS
      <4>1. latencyQueue[i] \in [job : Job, time : Int]
        BY <2>2, SequenceElements
      <4>2. latencyQueue'[i] = [latencyQueue[i] EXCEPT !.time = @ - 1]
        BY <2>1
      <4> QED  BY <4>1, <4>2
    <3>2. /\ latencyQueue' = [i \in DOMAIN latencyQueue |-> latencyQueue'[i]]
          /\ DOMAIN latencyQueue' = DOMAIN latencyQueue
      BY <2>1
    <3>3. /\ latencyQueue' \in Seq([job : Job, time : Int])
          /\ Len(latencyQueue') = Len(latencyQueue)
      BY <2>2, <3>1, <3>2, MappedSequence
    <3> QED  BY <2>2, <3>3
  <2>4. /\ Assigned' /\ (thread = "delay" => running.delay - wake \in Nat
                         /\ running.delay - wake' = running.delay - wake + 1)
    BY <2>1, <2>3 DEF ObserverInv, Assigned, Timed
  <2>5. PICK e, s, p, q : /\ observers = [energy |-> e, signal |-> s, paje |-> p, monitor |-> q]
                          /\ observers.energy = e /\ observers.signal = s
                          /\ observers.paje = p /\ observers.monitor = q
                          /\ e = [powerValue |-> e.powerValue]
                          /\ s \in [Job -> Component!Tracers!VcdTask]
                          /\ p = [startTime     |-> p.startTime,
                                  powerTimePast |-> p.powerTimePast,
                                  powerValue    |-> p.powerValue,
                                  powerValueOld |-> p.powerValueOld]
    BY DEF ObserverInv, Shape
  <2>6. PICK y : /\ y = Component!Tracers!pajeElapsed(p)
                 /\ y.powerValue = p.powerValue
                 /\ y.startTime = IF p.startTime = Component!Tracers!NoTime
                                  THEN Component!Tracers!NoTime ELSE p.startTime + 1
                 /\ y = [startTime     |-> y.startTime,
                         powerTimePast |-> y.powerTimePast,
                         powerValue    |-> y.powerValue,
                         powerValueOld |-> y.powerValueOld]
    <3>1. PICK y : y = Component!Tracers!pajeElapsed(p)
      OBVIOUS
    <3>2. /\ y.powerValue = p.powerValue
          /\ y.startTime = IF p.startTime = Component!Tracers!NoTime
                           THEN Component!Tracers!NoTime ELSE p.startTime + 1
          /\ y = [startTime     |-> y.startTime,
                  powerTimePast |-> y.powerTimePast,
                  powerValue    |-> y.powerValue,
                  powerValueOld |-> y.powerValueOld]
      BY <2>5, <3>1 DEF Component!Tracers!pajeElapsed
    <3> QED  BY <3>1, <3>2
  <2>7. PICK v : v = [j \in Job |-> Component!Tracers!vcdElapsed(s[j])]
    OBVIOUS
  <2>8. /\ observers'.energy = e /\ observers'.signal = v /\ observers'.paje = y
        /\ observers' = [energy |-> observers'.energy, signal |-> observers'.signal,
                         paje |-> observers'.paje, monitor |-> observers'.monitor]
    BY <2>1, <2>5, <2>6, <2>7 DEF Component!elapsed
  <2>9. ASSUME NEW j \in Job, NEW runs \in BOOLEAN, SignalFaithful(s[j], runs)
        PROVE  /\ v[j] \in Component!Tracers!VcdTask /\ SignalFaithful(v[j], runs)
               /\ v[j].lastValue = s[j].lastValue
    <3>1. s[j] \in Component!Tracers!VcdTask /\ v[j] = Component!Tracers!vcdElapsed(s[j])
      BY <2>5, <2>7
    <3> QED
      BY <2>9, <3>1 DEF Component!Tracers!VcdTask, Component!Tracers!vcdElapsed,
         Component!Tracers!getLastValue, SignalFaithful
  <2>10. \A j \in Job : SignalFaithful(s[j], running.job = j)
    BY <2>5 DEF ObserverInv, Traced
  <2>11. /\ v \in [Job -> Component!Tracers!VcdTask]
         /\ \A j \in Job : SignalFaithful(v[j], running.job = j) /\ v[j].lastValue = s[j].lastValue
    <3>1. \A j \in Job : /\ v[j] \in Component!Tracers!VcdTask
                         /\ SignalFaithful(v[j], running.job = j)
                         /\ v[j].lastValue = s[j].lastValue
      BY <2>9, <2>10
    <3> QED  BY <2>7, <3>1
  <2>12. Shape(observers)'
    BY <2>5, <2>6, <2>8, <2>11 DEF Shape
  <2>13. Charged'
    BY <2>1, <2>3, <2>5, <2>6, <2>8, <2>11 DEF ObserverInv, Charged, unused
  <2>14. Traced'
    <3>1. p.startTime = IF thread = "delay" THEN running.delay - wake
                        ELSE Component!Tracers!NoTime
      BY <2>5 DEF ObserverInv, Traced
    <3>2. y.startTime = IF thread = "delay" THEN running.delay - wake'
                        ELSE Component!Tracers!NoTime
      BY <2>4, <2>6, <3>1 DEF Component!Tracers!NoTime
    <3> QED  BY <2>1, <2>8, <2>11, <3>2 DEF Traced
  <2> QED  BY <2>4, <2>12, <2>13, <2>14 DEF ObserverInv
<1> QED  BY <1>1, <1>2, <1>3, <1>4, <1>5

\* The end of wait(getDelay()): the DII is over, and perhaps the latency too.
LEMMA FinishStep ==
  ASSUME ObserverInv, thread = "delay", finishDii(running), thread' = "running",
         wake' = wake
  PROVE  /\ ObservedAfter /\ running' = None
         /\ latencyQueue' \in Seq([job : Job, time : Int])
         /\ readyMsgTasks' \in Seq(Msg)
<1> DEFINE j == running.job
           d == told(observers, "FINISHDII", j, powerConsumption)
           l == told(d, "FINISHLAT", j, powerConsumption')
<1>1. /\ j \in Job /\ running.delay \in Nat /\ running.latency \in Nat /\ Shape(observers)
      /\ observers.signal \in [Job -> Component!Tracers!VcdTask]
      /\ \A i \in Job : SignalFaithful(observers.signal[i], j = i)
  BY DEF ObserverInv, Assigned, Traced, Timed, Shape
<1>2. \A i \in Job : Component!Tracers!getLastValue(observers.signal[i])
                       = observers.signal[i].sampled
  BY <1>1 DEF SignalFaithful
<1>3. /\ running' = None
      /\ \/ /\ observers' = l
            /\ latencyQueue' = latencyQueue
         \/ /\ observers' = d
            /\ latencyQueue' =
                 Append(latencyQueue, [job |-> j, time |-> running.latency - running.delay])
      /\ readyMsgTasks' \in {readyMsgTasks, forwarded(j)}
  BY DEF finishDii
<1>4. /\ latencyQueue \in Seq([job : Job, time : Int]) /\ readyMsgTasks \in Seq(Msg)
  BY DEF ObserverInv, Assigned
<1>5. latencyQueue' \in Seq([job : Job, time : Int])
  <2>1. [job |-> j, time |-> running.latency - running.delay] \in [job : Job, time : Int]
    BY <1>1
  <2>2. Append(latencyQueue, [job |-> j, time |-> running.latency - running.delay])
          \in Seq([job : Job, time : Int])
    BY <1>4, <2>1, AppendedElement
  <2> QED  BY <1>3, <1>4, <2>2
<1>6. readyMsgTasks' \in Seq(Msg)
  <2>1. hops(j) => Hop[j] \in Msg
    BY RoundRobinAssumption DEF hops
  <2>2. forwarded(j) \in Seq(Msg)
    BY <1>4, <2>1, AppendedElement DEF forwarded
  <2> QED  BY <1>3, <1>4, <2>2
<1> HIDE DEF j
<1>7. /\ Seen(d, powerConsumption)
      /\ d.signal = [observers.signal EXCEPT ![j] =
                       Component!Tracers!vcdTaskInstanceOperation(@, "FINISHDII")]
      /\ d.paje.startTime = Component!Tracers!NoTime
  BY <1>1, <1>2, ToldFields
<1>8. \A i \in Job : SignalFaithful(d.signal[i], FALSE)
  <2>1. PICK v : v = Component!Tracers!vcdTaskInstanceOperation(observers.signal[j], "FINISHDII")
    OBVIOUS
  <2>2. SignalFaithful(v, FALSE)
    BY <1>1, <1>2, <2>1, SignalWritten
  <2>3. SignalFaithful(d.signal[j], FALSE)
    BY <1>1, <1>7, <2>1, <2>2
  <2>4. ASSUME NEW i \in Job, i # j  PROVE SignalFaithful(d.signal[i], FALSE)
    <3>1. d.signal[i] = observers.signal[i]
      BY <1>1, <1>7, <2>4
    <3> QED  BY <1>1, <2>4, <3>1 DEF SignalFaithful
  <2> QED  BY <2>3, <2>4
<1> HIDE DEF d
<1>9. /\ Seen(l, powerConsumption') /\ l.paje.startTime = d.paje.startTime
      /\ \A i \in Job : SignalFaithful(l.signal[i], FALSE)
  <2>1. /\ Shape(d) /\ d.signal \in [Job -> Component!Tracers!VcdTask]
        /\ Component!Tracers!getLastValue(d.signal[j]) = d.signal[j].sampled
    BY <1>1, <1>7, <1>8 DEF Seen, Shape, SignalFaithful
  <2>2. PICK v : v = Component!Tracers!vcdTaskInstanceOperation(d.signal[j], "FINISHLAT")
    OBVIOUS
  <2>3. d.signal[j] \in Component!Tracers!VcdTask
    BY <1>1, <2>1
  <2>4. v = d.signal[j]
    BY <2>1, <2>2, <2>3, SignalWritten
  <2>5. /\ Seen(l, powerConsumption') /\ l.paje.startTime = d.paje.startTime
        /\ l.signal = [d.signal EXCEPT ![j] = v]
    BY <1>1, <2>1, <2>2, ToldFields
  <2> QED  BY <1>8, <2>1, <2>4, <2>5
<1> HIDE DEF l
<1>10. \A i \in Job : running'.job # i
  BY <1>3, RoundRobinAssumption DEF None
<1>11. /\ Shape(observers)' /\ observers'.paje.startTime = Component!Tracers!NoTime
       /\ \A i \in Job : SignalFaithful(observers'.signal[i], FALSE)
       /\ \/ Seen(observers', powerConsumption')
          \/ Seen(observers', powerConsumption) /\ latencyQueue' # <<>>
  <2>1. CASE observers' = l
    BY <1>7, <1>9, <2>1 DEF Seen
  <2>2. CASE observers' = d /\ latencyQueue' =
                Append(latencyQueue, [job |-> j, time |-> running.latency - running.delay])
    <3>1. latencyQueue' # <<>>
      BY <1>4, <2>2, SMTT(30)
    <3> QED  BY <1>7, <1>8, <2>2, <3>1 DEF Seen
  <2> QED  BY <1>3, <2>1, <2>2 DEF j
<1>12. Traced'
  <2>1. \A i \in Job : SignalFaithful(observers'.signal[i], running'.job = i)
    BY <1>10, <1>11 DEF SignalFaithful
  <2> QED  BY <1>11, <2>1 DEF Traced
<1>13. Charged'
  BY <1>3, <1>11 DEF Charged, Seen
<1> QED  BY <1>3, <1>5, <1>6, <1>11, <1>12, <1>13 DEF ObservedAfter

\* Steps of the thread.
LEMMA ObserversOfThread ==
  ASSUME ObserverInv, Thread
  PROVE  ObserverInv'
<1> USE DEF channels, place, power, Runs
<1>0. /\ thread \in {"runnable", "running"} => running = None
      /\ powerMode \in PowerModes
      /\ readyMsgTasks \in Seq(Msg)
      /\ latencyQueue \in Seq([job : Job, time : Int])
  BY DEF ObserverInv, Assigned
<1>1. CASE StartMessage
  <2> DEFINE i == message(Head(readyMsgTasks))
  <2>1. /\ thread \in {"runnable", "running"} /\ readyMsgTasks # <<>>
        /\ Execute(i) /\ readyMsgTasks' = Tail(readyMsgTasks)
        /\ at # "guarded"
        /\ UNCHANGED <<latencyQueue, actualTask, at, next, powerMode>>
    BY <1>1 DEF StartMessage
  <2>2. /\ Timed(i) /\ readyMsgTasks' \in Seq(Msg)
    BY <1>0, <2>1, InstancesTimed
  <2> HIDE DEF i
  <2>3. ObservedAfter /\ running' = i /\ thread' = "delay" /\ wake' = i.delay
    BY <2>1, <2>2, ExecuteStep
  <2>4. Assigned'
    BY <1>0, <2>1, <2>2, <2>3 DEF ObserverInv, Assigned, Timed
  <2> QED  BY <2>3, <2>4 DEF ObserverInv, ObservedAfter
<1>2. CASE BeginRound
  <2>1. /\ UNCHANGED <<running, wake, powerConsumption, observers, latencyQueue,
                       actualTask, powerMode, readyMsgTasks>>
        /\ thread # "delay" /\ thread' = "running" /\ at' = "poll"
    BY <1>2 DEF BeginRound
  <2> QED
    BY <1>0, <2>1, UntoldStep DEF ObserverInv, Assigned, ObservedAfter
<1>3. CASE Skip
  <2>1. /\ UNCHANGED <<running, wake, powerConsumption, observers, latencyQueue,
                       actualTask, powerMode, readyMsgTasks>>
        /\ thread # "delay" /\ thread' = "running" /\ at' = "poll"
    BY <1>3 DEF Skip
  <2> QED
    BY <1>0, <2>1, UntoldStep DEF ObserverInv, Assigned, ObservedAfter
<1>4. CASE CheckGuard
  <2> DEFINE i == checkFiringRule(TaskOrder[next])
  <2>1. /\ thread \in {"runnable", "running"} /\ next \in DOMAIN TaskOrder
        /\ Execute(i) /\ at' = "guarded"
        /\ UNCHANGED <<latencyQueue, actualTask, next, powerMode, readyMsgTasks>>
    BY <1>4 DEF CheckGuard
  <2>2. Timed(i)
    BY <1>0, <2>1, InstancesTimed, SequenceElements, RoundRobinAssumption
  <2> HIDE DEF i
  <2>3. ObservedAfter /\ running' = i /\ thread' = "delay" /\ wake' = i.delay
    BY <2>1, <2>2, ExecuteStep
  <2>4. Assigned'
    BY <1>0, <2>1, <2>2, <2>3 DEF ObserverInv, Assigned, Timed
  <2> QED  BY <2>3, <2>4 DEF ObserverInv, ObservedAfter
<1>5. CASE Fire
  <2>1. /\ thread \in {"runnable", "running"} /\ next \in DOMAIN TaskOrder
        /\ actualTask' = executeFiringRule(TaskOrder[next])
        /\ thread' = "running" /\ at' = "compute"
        /\ observers' = told(observers, "ALLOCATE", TaskOrder[next], powerConsumption)
        /\ UNCHANGED <<latencyQueue, running, wake, next, powerMode, readyMsgTasks,
                       powerConsumption>>
    BY <1>5 DEF Fire, allocated, ObserverInv, Assigned
  <2>2. TaskOrder[next] \in Task
    BY <2>1, SequenceElements, RoundRobinAssumption
  <2>3. Timed(executeFiringRule(TaskOrder[next]))
    BY <1>0, <2>2, InstancesTimed
  <2>4. Assigned'
    BY <1>0, <2>1, <2>3 DEF ObserverInv, Assigned
  <2>5. ObservedAfter
    BY <2>1, <2>2, NoticedStep DEF Job
  <2> QED  BY <2>4, <2>5 DEF ObserverInv, ObservedAfter
<1>6. CASE Compute
  <2> DEFINE i == actualTask
  <2>1. /\ thread \in {"runnable", "running"} /\ at = "compute"
        /\ Execute(i) /\ at' = "fired"
        /\ UNCHANGED <<latencyQueue, next, powerMode, readyMsgTasks>>
    BY <1>6 DEF Compute
  <2>2. Timed(i)
    BY <2>1 DEF ObserverInv, Assigned
  <2>3. ObservedAfter /\ running' = i /\ thread' = "delay" /\ wake' = i.delay
    BY <2>1, <2>2, ExecuteStep
  <2>4. Assigned'
    BY <1>0, <2>1, <2>2, <2>3 DEF ObserverInv, Assigned, Timed
  <2> QED  BY <2>3, <2>4 DEF ObserverInv, ObservedAfter
<1>7. CASE Timeout
  <2>1. /\ thread = "delay" /\ finishDii(running) /\ thread' = "running" /\ wake' = wake
        /\ UNCHANGED <<actualTask, at, next, powerMode>>
    BY <1>7 DEF Timeout
  <2>2. /\ ObservedAfter /\ running' = None
        /\ latencyQueue' \in Seq([job : Job, time : Int])
        /\ readyMsgTasks' \in Seq(Msg)
    BY <2>1, FinishStep
  <2>3. Assigned'
    BY <2>1, <2>2 DEF ObserverInv, Assigned, Timed
  <2> QED  BY <2>2, <2>3 DEF ObserverInv, ObservedAfter
<1>8. CASE AfterFiring
  <2>1. /\ UNCHANGED <<running, wake, powerConsumption, observers, latencyQueue,
                       actualTask, powerMode, readyMsgTasks>>
        /\ thread # "delay" /\ thread' = "running" /\ at' = "poll"
    BY <1>8 DEF AfterFiring
  <2> QED
    BY <1>0, <2>1, UntoldStep DEF ObserverInv, Assigned, ObservedAfter
<1>9. CASE EndRound
  <2>1. /\ UNCHANGED <<running, wake, powerConsumption, observers, latencyQueue,
                       actualTask, powerMode, readyMsgTasks>>
        /\ thread # "delay" /\ thread' \in {"running", "event"} /\ at' \in {"top", "asleep"}
    BY <1>9 DEF EndRound
  <2> QED
    BY <1>0, <2>1, UntoldStep DEF ObserverInv, Assigned, ObservedAfter
<1>10. CASE Awake
  <2>1. /\ UNCHANGED <<running, wake, powerConsumption, observers, latencyQueue,
                       actualTask, powerMode, readyMsgTasks>>
        /\ thread # "delay" /\ thread' \in {"running", "event"} /\ at' \in {"top", "asleep"}
    BY <1>10 DEF Awake
  <2> QED
    BY <1>0, <2>1, UntoldStep DEF ObserverInv, Assigned, ObservedAfter
<1> QED
  BY <1>1, <1>2, <1>3, <1>4, <1>5, <1>6, <1>7, <1>8, <1>9, <1>10 DEF Thread

\* In every reachable state the observers have seen the power that counts, and
\* signals and activities tell which instance runs.
THEOREM ObserversInvariant == Spec => []ObserverInv
<1>1. ObserverInv /\ UNCHANGED vars => ObserverInv'
  BY DEF ObserverInv, Assigned, Timed, Shape, Charged, Traced, unused, vars, channels, place, power
<1>2. ObserverInv /\ [Next]_vars => ObserverInv'
  BY <1>1, ObserversOfSurroundings, ObserversOfThread DEF Next
<1> QED  BY ObserversCreated, <1>2, PTL DEF Spec

\* Whenever time goes on the energy is charged, and the gauge of the trace
\* shows, the power that the component has, but for its first operation and
\* for the latency that is left after a DII.
THEOREM EnergyChargedTheorem == Spec => []EnergyCharged
<1>1. ObserverInv => EnergyCharged
  BY DEF ObserverInv, Charged, EnergyCharged
<1> QED  BY ObserversInvariant, <1>1, PTL

\* Whenever time goes on the trace tells the task that runs from the others,
\* and a firing that has just begun from what was traced before; the open
\* activity is as old as the instance that runs.
THEOREM TraceFaithfulTheorem == Spec => []TraceFaithful
<1>1. ObserverInv => TraceFaithful
  <2> SUFFICES ASSUME ObserverInv  PROVE TraceFaithful
    OBVIOUS
  <2>1. /\ \A j \in Job : SignalFaithful(observers.signal[j], running.job = j)
        /\ observers.paje.startTime =
             IF thread = "delay" THEN running.delay - wake ELSE Component!Tracers!NoTime
    BY DEF ObserverInv, Traced
  <2>2. thread # "delay" <=> running = None
    BY RoundRobinAssumption DEF ObserverInv, Assigned, Timed, None
  <2> QED  BY <2>1, <2>2 DEF SignalFaithful, TraceFaithful
<1> QED  BY ObserversInvariant, <1>1, PTL

-----------------------------------------------------------------------------
(* The deadline monitor: its folds, as what they do to its state.           *)

\* The sets of places that a fold goes through.
LEMMA UpToPlace ==
  ASSUME NEW N \in Nat
  PROVE  /\ \A k \in 1..N : /\ Max(1..k) = k /\ (1..k) \ {k} = 1..(k - 1)
                            /\ 1..k \in SUBSET (1..N) /\ 1..k # {}
         /\ 1..0 = {} /\ {} \in SUBSET (1..N)
<1>1. ASSUME NEW k \in 1..N
      PROVE  /\ Max(1..k) = k /\ (1..k) \ {k} = 1..(k - 1)
             /\ 1..k \in SUBSET (1..N) /\ 1..k # {}
  <2>1. k \in Nat /\ 1..k \in SUBSET (1..k) /\ k \in 1..k
    OBVIOUS
  <2>2. Max(1..k) = k
    BY <2>1, LargestIs
  <2> QED  BY <2>1, <2>2
<1>2. 1..0 = {} /\ {} \in SUBSET (1..N)
  OBVIOUS
<1> QED  BY <1>1, <1>2

MonitorState == Component!Monitor!State

\* Deadline x of an end actor begins.
Began(s, x, u) ==
  /\ u \in MonitorState
  /\ u = [s EXCEPT !.activeDeadlines = u.activeDeadlines]
  /\ u.activeDeadlines = [s.activeDeadlines EXCEPT ![x.end] = Append(@, x.deadline)]

LEMMA StartedType ==
  ASSUME NEW s \in MonitorState, NEW x \in [end : Job, deadline : Nat],
         NEW u, u = Component!Monitor!started(s, x)
  PROVE  Began(s, x, u)
<1> DEFINE a == [s.activeDeadlines EXCEPT ![x.end] = Append(@, x.deadline)]
<1>1. /\ s.activeDeadlines \in [Job -> Seq(Int)] /\ x.end \in Job /\ x.deadline \in Int
      /\ s = [tasks |-> s.tasks, endActors |-> s.endActors,
              pendingEndActors |-> s.pendingEndActors,
              reportGroupReport |-> s.reportGroupReport,
              activeDeadlines |-> s.activeDeadlines]
  BY DEF MonitorState, Component!Monitor!State
<1>2. a \in [Job -> Seq(Int)]
  BY <1>1
<1>3. u = [s EXCEPT !.activeDeadlines = a]
  BY DEF Component!Monitor!started
<1> HIDE DEF a
<1>4. u.activeDeadlines = a
  BY <1>1, <1>3
<1>5. u \in MonitorState
  BY <1>2, <1>3 DEF MonitorState, Component!Monitor!State
<1> QED  BY <1>3, <1>4, <1>5 DEF a, Began

LEMMA StartedFold ==
  ASSUME NEW s \in MonitorState, NEW t \in Job,
         NEW u, u = Component!Monitor!taskInstanceOperation(s, "RELEASE", t)
  PROVE  /\ u \in MonitorState
         /\ u = [s EXCEPT !.activeDeadlines = u.activeDeadlines]
         /\ \A e \in Job :
              LET K == {k \in DOMAIN s.endActors[t] : s.endActors[t][k].end = e}
              IN  /\ IsFiniteSet(K)
                  /\ Len(u.activeDeadlines[e]) = Len(s.activeDeadlines[e]) + Cardinality(K)
<1> DEFINE S == [end : Job, deadline : Nat]
           ends == s.endActors[t]
           N == Len(ends)
           op(x, k) == Component!Monitor!started(x, ends[k])
           it == CHOOSE g : g = [p \in SUBSET (1..N) |->
                                   IF p = {} THEN s ELSE op(g[p \ {Max(p)}], Max(p))]
           F == [k \in 1..N |-> [x \in MonitorState |-> op(x, k)]]
           K(n, e) == {k \in 1..n : ends[k].end = e}
           Added(x, k) ==
             /\ x \in MonitorState
             /\ x = [s EXCEPT !.activeDeadlines = x.activeDeadlines]
             /\ \A e \in Job :
                  /\ IsFiniteSet(K(k, e))
                  /\ Len(x.activeDeadlines[e]) = Len(s.activeDeadlines[e]) + Cardinality(K(k, e))
           G == {k \in 0..N : Added(it[1..k], k)}
<1>1. ends \in Seq(S) /\ N \in Nat /\ DOMAIN ends = 1..N
  <2>1. ends \in Seq(S)
    BY DEF MonitorState, Component!Monitor!State
  <2> QED  BY <2>1
<1>3. \A k \in 1..N : ends[k] \in S
  <2> HIDE DEF ends, S
  <2> QED  BY <1>1
<1>2. u = it[1..N]
  BY <1>1 DEF Component!Monitor!taskInstanceOperation, Component!Monitor!FoldLeft,
     Component!Monitor!MapThenFoldSet, Component!Monitor!Max, Max
<1> HIDE DEF ends, N
<1>4. F \in [1..N -> [MonitorState -> MonitorState]]
  BY <1>3, StartedType DEF Began
<1> HIDE DEF F
<1>5. PICK g \in [SUBSET (1..N) -> MonitorState] : Folds(g, N, s, F)
  BY <1>1, <1>4, Recursion
<1>6. g = [p \in SUBSET (1..N) |-> IF p = {} THEN s ELSE op(g[p \ {Max(p)}], Max(p))]
  <2>1. ASSUME NEW p \in SUBSET (1..N), p # {}
        PROVE  Max(p) \in 1..N /\ p \ {Max(p)} \in SUBSET (1..N)
    BY <1>1, <2>1, LargestIn
  <2>2. ASSUME NEW p \in SUBSET (1..N)
        PROVE  g[p] = IF p = {} THEN s ELSE op(g[p \ {Max(p)}], Max(p))
    <3> HIDE DEF op
    <3> QED  BY <1>5, <2>1, <2>2 DEF F, Folds
  <2> HIDE DEF op
  <2> QED  BY <2>2
<1>7. it = [p \in SUBSET (1..N) |-> IF p = {} THEN s ELSE op(it[p \ {Max(p)}], Max(p))]
  <2> HIDE DEF op
  <2> QED BY <1>6
<1> HIDE DEF it
<1>8. 0 \in G
  <2>1. it[1..0] = s
    <3> HIDE DEF op
    <3> QED  BY <1>1, <1>7, UpToPlace
  <2>2. \A e \in Job : K(0, e) = {} /\ Len(s.activeDeadlines[e]) \in Nat
    BY DEF MonitorState, Component!Monitor!State
  <2>3. s = [s EXCEPT !.activeDeadlines = s.activeDeadlines]
    BY DEF MonitorState, Component!Monitor!State
  <2>4. IsFiniteSet({}) /\ Cardinality({}) = 0
    BY FS_EmptySet
  <2>5. ASSUME NEW e \in Job
        PROVE  /\ IsFiniteSet(K(0, e))
               /\ Len(s.activeDeadlines[e]) = Len(s.activeDeadlines[e]) + Cardinality(K(0, e))
    <3>1. K(0, e) = {} /\ Len(s.activeDeadlines[e]) \in Nat
      BY <2>2
    <3> HIDE DEF K
    <3>2. IsFiniteSet(K(0, e)) /\ Cardinality(K(0, e)) = 0
      BY <2>4, <3>1, Zenon
    <3> QED  BY <3>1, <3>2
  <2>6. Added(s, 0)
    <3> HIDE DEF K
    <3> QED  BY <2>3, <2>5
  <2> HIDE DEF Added
  <2> QED  BY <1>1, <2>1, <2>6
<1>9. ASSUME NEW k \in 1..N, k - 1 \in G
      PROVE  k \in G
  <2> DEFINE v == it[1..(k - 1)]
             w == it[1..k]
  <2>1. w = op(v, k)
    <3>1. Max(1..k) = k /\ (1..k) \ {k} = 1..(k - 1) /\ 1..k \in SUBSET (1..N) /\ 1..k # {}
      BY <1>1, UpToPlace
    <3> HIDE DEF op
    <3>2. it[1..k] = op(it[(1..k) \ {Max(1..k)}], Max(1..k))
      BY <1>7, <3>1
    <3> QED  BY <3>1, <3>2
  <2>2. /\ v \in MonitorState /\ v = [s EXCEPT !.activeDeadlines = v.activeDeadlines]
        /\ \A e \in Job : /\ IsFiniteSet(K(k - 1, e))
                          /\ Len(v.activeDeadlines[e]) = Len(s.activeDeadlines[e]) + Cardinality(K(k - 1, e))
    BY <1>9
  <2> HIDE DEF v, w, K, it
  <2>3. ends[k] \in [end : Job, deadline : Nat]
    BY <1>3
  <2>4. /\ w \in MonitorState
        /\ w = [v EXCEPT !.activeDeadlines = w.activeDeadlines]
        /\ w.activeDeadlines = [v.activeDeadlines EXCEPT ![ends[k].end] = Append(@, ends[k].deadline)]
    <3>1. w = Component!Monitor!started(v, ends[k])
      BY <2>1
    <3>2. v \in MonitorState
      BY <2>2
    <3>3. PICK x : x = ends[k] /\ x \in [end : Job, deadline : Nat]
      BY <2>3
    <3>4. Began(v, x, w)
      BY <3>1, <3>2, <3>3, StartedType
    <3> QED  BY <3>3, <3>4 DEF Began
  <2>5. w = [s EXCEPT !.activeDeadlines = w.activeDeadlines]
    BY <2>2, <2>4 DEF MonitorState, Component!Monitor!State
  <2>6. ASSUME NEW e \in Job
        PROVE  /\ IsFiniteSet(K(k, e))
               /\ Len(w.activeDeadlines[e]) = Len(s.activeDeadlines[e]) + Cardinality(K(k, e))
    <3>1. K(k, e) = IF ends[k].end = e THEN K(k - 1, e) \cup {k} ELSE K(k - 1, e)
      BY DEF K
    <3>2. k \notin K(k - 1, e)
      BY DEF K
    <3>3. /\ v.activeDeadlines \in [Job -> Seq(Int)] /\ s.activeDeadlines[e] \in Seq(Int)
          /\ v.activeDeadlines[e] \in Seq(Int)
      BY <2>2 DEF MonitorState, Component!Monitor!State
    <3>4. /\ IsFiniteSet(K(k, e)) /\ Cardinality(K(k - 1, e)) \in Nat
          /\ Cardinality(K(k, e)) = Cardinality(K(k - 1, e)) + (IF ends[k].end = e THEN 1 ELSE 0)
      BY <2>2, <3>1, <3>2, FS_AddElement, FS_CardinalityType
    <3>5. Len(w.activeDeadlines[e]) = Len(v.activeDeadlines[e]) + (IF ends[k].end = e THEN 1 ELSE 0)
      <4>1. PICK a : a = v.activeDeadlines
        OBVIOUS
      <4>2. PICK x \in Job, d \in Int : ends[k].end = x /\ ends[k].deadline = d
        BY <2>3
      <4>3. a \in [Job -> Seq(Int)] /\ w.activeDeadlines = [a EXCEPT ![x] = Append(@, d)]
        BY <2>4, <3>3, <4>1, <4>2
      <4>4. Len(w.activeDeadlines[e]) = Len(a[e]) + (IF x = e THEN 1 ELSE 0)
        <5>1. CASE x = e
          BY <4>3, <5>1
        <5>2. CASE x # e
          BY <4>3, <5>2
        <5> QED  BY <5>1, <5>2
      <4> QED  BY <4>1, <4>2, <4>4
    <3>6. Len(s.activeDeadlines[e]) \in Nat
      BY <3>3
    <3>7. Len(v.activeDeadlines[e]) = Len(s.activeDeadlines[e]) + Cardinality(K(k - 1, e))
      BY <2>2
    <3> QED  BY <3>4, <3>5, <3>6, <3>7, SMTT(30)
  <2>7. Added(w, k)
    BY <2>4, <2>5, <2>6
  <2> HIDE DEF Added
  <2> QED  BY <2>7 DEF w
<1>10. N \in G
  <2>1. N \in 0..N
    BY <1>1
  <2>2. \A k \in 1..N : k - 1 \in G => k \in G
    BY <1>9
  <2> HIDE DEF G
  <2> QED  BY <1>1, <1>8, <2>1, <2>2, Reached
<1> QED  BY <1>1, <1>2, <1>10 DEF ends, N

\* Task t has been created.
Created(s, t, u) ==
  /\ u \in MonitorState
  /\ u.tasks = s.tasks \cup {t} /\ u.activeDeadlines = s.activeDeadlines
  /\ u.endActors = [s.endActors EXCEPT ![t] = Component!Monitor!matched(t)]
  /\ \A e \in Job \ {t} : u.reportGroupReport[e] = s.reportGroupReport[e]
  /\ \A p \in s.pendingEndActors :
       IF p.end = t THEN u.reportGroupReport[t] # NoJob ELSE p \in u.pendingEndActors
  /\ \A i \in DOMAIN DeadlineInfos : \A l \in DOMAIN DeadlineInfos[i].ends :
       LET e == DeadlineInfos[i].ends[l].end
       IN  DeadlineInfos[i].start = t /\ e \notin s.tasks \cup {t}
             => [start |-> t, end |-> e] \in u.pendingEndActors

LEMMA DeadlineTypes ==
  /\ \A i \in DOMAIN DeadlineInfos :
       /\ DeadlineInfos[i].start \in Job
       /\ DeadlineInfos[i].ends \in Seq([end : Job, deadline : Nat])
       /\ \A l \in DOMAIN DeadlineInfos[i].ends :
            DeadlineInfos[i].ends[l] \in [end : Job, deadline : Nat]
  /\ \A t \in Job : Component!Monitor!matched(t) \in Seq([end : Job, deadline : Nat])
<1> DEFINE E == [end : Job, deadline : Nat]
<1>1. ASSUME NEW i \in DOMAIN DeadlineInfos
      PROVE  DeadlineInfos[i].start \in Job /\ DeadlineInfos[i].ends \in Seq(E)
  <2>1. DeadlineInfos[i] \in [start : Job, ends : Seq(E)]
    <3>1. DeadlineInfos \in Seq([start : Job, ends : Seq(E)])
      BY RoundRobinAssumption
    <3> DEFINE R == [start : Job, ends : Seq(E)]
    <3>2. DeadlineInfos \in Seq(R)
      BY <3>1
    <3> HIDE DEF R
    <3>3. DeadlineInfos[i] \in R
      BY <3>2
    <3> QED  BY <3>3 DEF R
  <2> HIDE DEF E
  <2> QED  BY <2>1
<1>2. \A i \in DOMAIN DeadlineInfos : \A l \in DOMAIN DeadlineInfos[i].ends :
        DeadlineInfos[i].ends[l] \in E
  <2> HIDE DEF E
  <2> QED  BY <1>1
<1>3. ASSUME NEW t \in Job
      PROVE  Component!Monitor!matched(t) \in Seq(E)
  <2>1. DeadlineInfos # <<>> => Len(DeadlineInfos) \in DOMAIN DeadlineInfos
    <3>1. DeadlineInfos \in Seq([start : Job, ends : Seq(E)])
      BY RoundRobinAssumption
    <3> HIDE DEF E
    <3> QED  BY <3>1
  <2> HIDE DEF E
  <2> QED  BY <1>1, <2>1 DEF Component!Monitor!matched
<1> QED  BY <1>1, <1>2, <1>3

LEMMA CreatedType ==
  ASSUME NEW s \in MonitorState, NEW t \in Job,
         NEW u, u = Component!Monitor!allocate(s, t)
  PROVE  Created(s, t, u)
<1> DEFINE waited == {p \in s.pendingEndActors : p.end = t}
           report == [s.reportGroupReport EXCEPT ![t] =
                        IF waited = {} THEN @ ELSE (CHOOSE p \in waited : TRUE).start]
           pending == (s.pendingEndActors \ waited) \cup Component!Monitor!unresolved(s, t)
           ends == [s.endActors EXCEPT ![t] = Component!Monitor!matched(t)]
           E == [end : Job, deadline : Nat]
<1>1. /\ s = [tasks |-> s.tasks, endActors |-> s.endActors,
              pendingEndActors |-> s.pendingEndActors,
              reportGroupReport |-> s.reportGroupReport,
              activeDeadlines |-> s.activeDeadlines]
      /\ s.tasks \subseteq Job /\ s.endActors \in [Job -> Seq(E)]
      /\ s.pendingEndActors \subseteq [start : Job, end : Job]
      /\ s.reportGroupReport \in [Job -> Job \cup {NoJob}]
      /\ s.activeDeadlines \in [Job -> Seq(Int)]
  BY DEF MonitorState, Component!Monitor!State
<1>2. u = [tasks |-> s.tasks \cup {t}, endActors |-> ends, pendingEndActors |-> pending,
           reportGroupReport |-> report, activeDeadlines |-> s.activeDeadlines]
  <2> HIDE DEF E
  <2>1. PICK a, b, c, d, f : /\ s = [tasks |-> a, endActors |-> b, pendingEndActors |-> c,
                                     reportGroupReport |-> d, activeDeadlines |-> f]
                             /\ a = s.tasks /\ b = s.endActors /\ c = s.pendingEndActors
                             /\ d = s.reportGroupReport /\ f = s.activeDeadlines
    BY <1>1
  <2>2. u = [[[[s EXCEPT !.tasks = a \cup {t}]
                  EXCEPT !.reportGroupReport = report]
                  EXCEPT !.endActors = ends]
                  EXCEPT !.pendingEndActors = pending]
    BY <2>1 DEF Component!Monitor!allocate
  <2> HIDE DEF report, ends, pending
  <2> QED  BY <2>1, <2>2
<1>3. waited = {} \/ \E p \in [start : Job, end : Job] : p = CHOOSE q \in waited : TRUE
  BY <1>1
<1>4. report \in [Job -> Job \cup {NoJob}] /\ (waited # {} => report[t] \in Job)
  BY <1>1, <1>3
<1>5. Component!Monitor!unresolved(s, t) \subseteq [start : Job, end : Job]
  <2> SUFFICES ASSUME NEW p \in Component!Monitor!unresolved(s, t)
               PROVE  p \in [start : Job, end : Job]
    OBVIOUS
  <2>1. PICK e : p = [start |-> t, end |-> e.end]
                 /\ e \in UNION {Component!Monitor!Range(i.ends) :
                                   i \in {i \in Component!Monitor!Range(DeadlineInfos) : i.start = t}}
    BY DEF Component!Monitor!unresolved
  <2>2. PICK i \in DOMAIN DeadlineInfos : e \in Component!Monitor!Range(DeadlineInfos[i].ends)
    BY <2>1 DEF Component!Monitor!Range
  <2>3. PICK l \in DOMAIN DeadlineInfos[i].ends : e = DeadlineInfos[i].ends[l]
    BY <2>2 DEF Component!Monitor!Range
  <2> QED  BY <2>1, <2>3, DeadlineTypes
<1>6. ASSUME NEW i \in DOMAIN DeadlineInfos, NEW l \in DOMAIN DeadlineInfos[i].ends,
             DeadlineInfos[i].start = t, DeadlineInfos[i].ends[l].end \notin s.tasks \cup {t}
      PROVE  [start |-> t, end |-> DeadlineInfos[i].ends[l].end]
               \in Component!Monitor!unresolved(s, t)
  <2>1. PICK x : x = DeadlineInfos[i].ends[l]
    OBVIOUS
  <2>2. PICK j : j = DeadlineInfos[i]
    OBVIOUS
  <2>3. j \in Component!Monitor!Range(DeadlineInfos) /\ j.start = t
    BY <1>6, <2>2 DEF Component!Monitor!Range
  <2>4. x \in Component!Monitor!Range(j.ends)
    BY <2>1, <2>2 DEF Component!Monitor!Range
  <2>5. x.end \notin s.tasks \cup {t}
    BY <1>6, <2>1
  <2>6. [start |-> t, end |-> x.end] \in Component!Monitor!unresolved(s, t)
    BY <2>3, <2>4, <2>5 DEF Component!Monitor!unresolved
  <2> QED  BY <2>1, <2>6
<1>7. ends \in [Job -> Seq(E)]
  <2>1. Component!Monitor!matched(t) \in Seq(E)
    BY DeadlineTypes
  <2> HIDE DEF E
  <2> QED  BY <1>1, <2>1
<1>8. pending \subseteq [start : Job, end : Job]
  BY <1>1, <1>5
<1>9. u \in MonitorState
  <2> HIDE DEF report, ends, pending
  <2>1. s.tasks \cup {t} \subseteq Job /\ s.activeDeadlines \in [Job -> Seq(Int)]
    BY <1>1
  <2>2. MonitorState =
          [tasks : SUBSET Job, endActors : [Job -> Seq(E)],
           pendingEndActors : SUBSET [start : Job, end : Job],
           reportGroupReport : [Job -> Job \cup {NoJob}], activeDeadlines : [Job -> Seq(Int)]]
    BY DEF MonitorState, Component!Monitor!State
  <2> HIDE DEF E
  <2> QED  BY <1>2, <1>4, <1>7, <1>8, <2>1, <2>2
<1>10. \A e \in Job \ {t} : report[e] = s.reportGroupReport[e]
  BY <1>1
<1>11. \A p \in s.pendingEndActors : IF p.end = t THEN report[t] # NoJob ELSE p \in pending
  BY <1>4, RoundRobinAssumption
<1>12. /\ u.tasks = s.tasks \cup {t} /\ u.activeDeadlines = s.activeDeadlines
       /\ u.endActors = ends /\ u.reportGroupReport = report /\ u.pendingEndActors = pending
  <2> HIDE DEF report, ends, pending
  <2> QED  BY <1>2
<1>13. Component!Monitor!unresolved(s, t) \subseteq pending
  OBVIOUS
<1> HIDE DEF report, pending, waited
<1> QED  BY <1>6, <1>9, <1>10, <1>11, <1>12, <1>13 DEF Created

\* The tasks are created one after the other.
LEMMA CreationChain ==
  ASSUME NEW order \in Seq(Job), NEW u, u = Component!Monitor!allocated(order)
  PROVE  \E f : /\ f[0] = Component!Monitor!nothing /\ f[Len(order)] = u
                /\ \A k \in 1..Len(order) :
                     f[k - 1] \in MonitorState => Created(f[k - 1], order[k], f[k])
<1> DEFINE N == Len(order)
           op(x, k) == Component!Monitor!allocate(x, order[k])
           base == Component!Monitor!nothing
           it == CHOOSE g : g = [p \in SUBSET (1..N) |->
                                   IF p = {} THEN base ELSE op(g[p \ {Max(p)}], Max(p))]
           F == [k \in 1..N |-> [x \in MonitorState |-> op(x, k)]]
<1>1. N \in Nat /\ DOMAIN order = 1..N /\ \A k \in 1..N : order[k] \in Job
  OBVIOUS
<1>2. u = it[1..N]
  BY <1>1 DEF Component!Monitor!allocated, Component!Monitor!FoldLeft,
     Component!Monitor!MapThenFoldSet, Component!Monitor!Max, Max
<1> HIDE DEF N
<1>3. F \in [1..N -> [MonitorState -> MonitorState]]
  <2>1. \A k \in 1..N, x \in MonitorState : Created(x, order[k], op(x, k))
    BY <1>1, CreatedType
  <2> HIDE DEF op
  <2> QED  BY <2>1 DEF Created
<1> HIDE DEF F
<1>4. base \in MonitorState
  BY DEF MonitorState, Component!Monitor!State, Component!Monitor!nothing
<1>5. PICK g \in [SUBSET (1..N) -> MonitorState] : Folds(g, N, base, F)
  <2> HIDE DEF base
  <2> QED  BY <1>1, <1>3, <1>4, Recursion
<1>6. g = [p \in SUBSET (1..N) |-> IF p = {} THEN base ELSE op(g[p \ {Max(p)}], Max(p))]
  <2> HIDE DEF base
  <2>1. ASSUME NEW p \in SUBSET (1..N), p # {}
        PROVE  Max(p) \in 1..N /\ p \ {Max(p)} \in SUBSET (1..N)
    BY <1>1, <2>1, LargestIn
  <2>2. ASSUME NEW p \in SUBSET (1..N)
        PROVE  g[p] = IF p = {} THEN base ELSE op(g[p \ {Max(p)}], Max(p))
    <3> HIDE DEF op
    <3> QED  BY <1>5, <2>1, <2>2 DEF F, Folds
  <2> HIDE DEF op
  <2> QED  BY <2>2
<1>7. it = [p \in SUBSET (1..N) |-> IF p = {} THEN base ELSE op(it[p \ {Max(p)}], Max(p))]
  <2> HIDE DEF op, base
  <2> QED BY <1>6
<1> HIDE DEF it, base
<1> DEFINE f == [k \in 0..N |-> it[1..k]]
<1>8. f[0] = base /\ f[N] = u
  <2>1. it[1..0] = base
    BY <1>7, UpToPlace, <1>1
  <2> QED  BY <1>1, <1>2, <2>1
<1>9. ASSUME NEW k \in 1..N, f[k - 1] \in MonitorState
      PROVE  Created(f[k - 1], order[k], f[k])
  <2>1. Max(1..k) = k /\ (1..k) \ {k} = 1..(k - 1) /\ 1..k \in SUBSET (1..N) /\ 1..k # {}
    BY <1>1, UpToPlace
  <2>2. f[k] = op(f[k - 1], k)
    <3> HIDE DEF op
    <3>1. it[1..k] = op(it[(1..k) \ {Max(1..k)}], Max(1..k))
      BY <1>7, <2>1
    <3> QED  BY <1>1, <2>1, <3>1
  <2> HIDE DEF f
  <2> QED  BY <1>1, <1>9, <2>2, CreatedType
<1> HIDE DEF f
<1> QED  BY <1>8, <1>9 DEF N, base

\* When all are created every start actor knows the end actors of the last
\* attribute that names it, no deadline is active, and an end actor created
\* after its start actor has its report group.
LEMMA AllocatedFold ==
  ASSUME NEW order \in Creations, NEW u, u = Component!Monitor!allocated(order)
  PROVE  /\ u \in MonitorState
         /\ \A t \in Job : /\ u.endActors[t] = Component!Monitor!matched(t)
                           /\ u.activeDeadlines[t] = <<>>
         /\ \A p, q \in DOMAIN order, i \in DOMAIN DeadlineInfos :
              \A l \in DOMAIN DeadlineInfos[i].ends :
                /\ p < q /\ order[p] = DeadlineInfos[i].start
                /\ order[q] = DeadlineInfos[i].ends[l].end
                => u.reportGroupReport[order[q]] # NoJob
<1> DEFINE N == Len(order)
<1>1. /\ order \in Seq(Job) /\ N \in Nat /\ DOMAIN order = 1..N
      /\ \A k \in 1..N : order[k] \in Job
      /\ \A p, q \in 1..N : order[p] = order[q] => p = q
      /\ \A t \in Job : \E k \in 1..N : order[k] = t
  <2>1. order \in Seq(Job) /\ Range(order) = Job /\ IsInjective(order)
    BY RoundRobinAssumption
  <2>2. N \in Nat /\ DOMAIN order = 1..N /\ \A k \in 1..N : order[k] \in Job
    BY <2>1
  <2> HIDE DEF N
  <2> QED  BY <2>1, <2>2 DEF Range, IsInjective
<1>2. PICK f : /\ f[0] = Component!Monitor!nothing /\ f[N] = u
               /\ \A k \in 1..N :
                     f[k - 1] \in MonitorState => Created(f[k - 1], order[k], f[k])
  BY <1>1, CreationChain
<1> HIDE DEF N
<1> DEFINE P(k) == /\ f[k] \in MonitorState
                   /\ f[k].tasks = {order[n] : n \in 1..k}
                   /\ \A t \in Job : f[k].activeDeadlines[t] = <<>>
                   /\ \A n \in 1..k : f[k].endActors[order[n]] = Component!Monitor!matched(order[n])
           G == {k \in 0..N : P(k)}
<1>3. 0 \in G
  <2>1. /\ Component!Monitor!nothing \in MonitorState
        /\ Component!Monitor!nothing.tasks = {}
        /\ \A t \in Job : Component!Monitor!nothing.activeDeadlines[t] = <<>>
    BY DEF MonitorState, Component!Monitor!State, Component!Monitor!nothing
  <2>2. 1..0 = {}
    OBVIOUS
  <2>3. P(0)
    BY <1>2, <2>1, <2>2
  <2> QED  BY <1>1, <2>3
<1>4. ASSUME NEW k \in 1..N, k - 1 \in G
      PROVE  k \in G
  <2>1. P(k - 1)
    BY <1>4
  <2>2. Created(f[k - 1], order[k], f[k])
    BY <1>2, <2>1
  <2>3. f[k].tasks = {order[n] : n \in 1..k}
    <3>1. f[k].tasks = {order[n] : n \in 1..(k - 1)} \cup {order[k]}
      BY <2>1, <2>2 DEF Created
    <3>2. 1..k = (1..(k - 1)) \cup {k}
      OBVIOUS
    <3> QED  BY <3>1, <3>2
  <2>4. f[k] \in MonitorState /\ \A t \in Job : f[k].activeDeadlines[t] = <<>>
    BY <2>1, <2>2 DEF Created
  <2>5. ASSUME NEW n \in 1..k
        PROVE  f[k].endActors[order[n]] = Component!Monitor!matched(order[n])
    <3>1. f[k - 1].endActors \in [Job -> Seq([end : Job, deadline : Nat])]
      BY <2>1 DEF MonitorState, Component!Monitor!State
    <3>2. f[k].endActors = [f[k - 1].endActors EXCEPT ![order[k]] = Component!Monitor!matched(order[k])]
      BY <2>2 DEF Created
    <3>3. n \in 1..N /\ order[n] \in Job /\ order[k] \in Job
      BY <1>1
    <3>4. CASE n = k
      BY <3>1, <3>2, <3>3, <3>4
    <3>5. CASE n # k
      <4>1. n \in 1..(k - 1) /\ order[n] # order[k]
        BY <1>1, <3>3, <3>5
      <4> QED  BY <2>1, <3>1, <3>2, <3>3, <4>1
    <3> QED  BY <3>4, <3>5
  <2>6. P(k)
    BY <2>3, <2>4, <2>5
  <2> HIDE DEF P
  <2> QED  BY <2>6
<1>5. \A k \in 0..N : P(k)
  <2>1. \A k \in 0..N : k \in G
    <3>1. \A k \in 1..N : k - 1 \in G => k \in G
      BY <1>4
    <3> HIDE DEF G
    <3> QED  BY <1>1, <1>3, <3>1, Reached
  <2> QED  BY <2>1
<1> HIDE DEF P
<1>6. \A k \in 1..N : Created(f[k - 1], order[k], f[k])
  <2> SUFFICES ASSUME NEW k \in 1..N  PROVE Created(f[k - 1], order[k], f[k])
    OBVIOUS
  <2>1. P(k - 1)
    BY <1>1, <1>5
  <2> QED  BY <1>2, <2>1 DEF P
<1>7. ASSUME NEW p \in 1..N, NEW q \in 1..N, NEW i \in DOMAIN DeadlineInfos,
             NEW l \in DOMAIN DeadlineInfos[i].ends,
             p < q, order[p] = DeadlineInfos[i].start, order[q] = DeadlineInfos[i].ends[l].end
      PROVE  u.reportGroupReport[order[q]] # NoJob
  <2> DEFINE a == [start |-> order[p], end |-> order[q]]
             Q(k) == /\ k >= p /\ k < q => a \in f[k].pendingEndActors
                     /\ k >= q => f[k].reportGroupReport[order[q]] # NoJob
             H == {k \in 0..N : Q(k)}
  <2>1. 0 \in H
    BY <1>1
  <2>2. ASSUME NEW k \in 1..N, k - 1 \in H
        PROVE  k \in H
    <3>1. Created(f[k - 1], order[k], f[k]) /\ Q(k - 1) /\ P(k - 1)
      BY <1>1, <1>5, <1>6, <2>2
    <3> HIDE DEF a
    <3>2. CASE k < p
      BY <1>1, <1>7, <3>2
    <3>3. CASE k = p
      <4>1. order[q] \notin f[k - 1].tasks \cup {order[k]}
        <5>1. f[k - 1].tasks = {order[n] : n \in 1..(k - 1)}
          BY <3>1 DEF P
        <5>2. \A n \in 1..k : order[n] # order[q]
          BY <1>1, <1>7, <3>3
        <5> QED  BY <5>1, <5>2
      <4>2. a \in f[k].pendingEndActors
        <5>1. PICK x : x = DeadlineInfos[i].ends[l].end
          OBVIOUS
        <5>2. [start |-> order[k], end |-> x] \in f[k].pendingEndActors
          BY <1>7, <3>1, <3>3, <4>1, <5>1 DEF Created
        <5> QED  BY <1>7, <3>3, <5>1, <5>2 DEF a
      <4> QED  BY <1>7, <3>3, <4>2
    <3>4. CASE p < k /\ k < q
      <4>1. a \in f[k - 1].pendingEndActors /\ a.end # order[k]
        BY <1>1, <1>7, <3>1, <3>4 DEF a
      <4>2. a \in f[k].pendingEndActors
        BY <3>1, <4>1 DEF Created
      <4> QED  BY <3>4, <4>2
    <3>5. CASE k = q
      <4>1. a \in f[k - 1].pendingEndActors /\ a.end = order[k]
        BY <1>7, <3>1, <3>5 DEF a
      <4>2. f[k].reportGroupReport[order[k]] # NoJob
        BY <3>1, <4>1 DEF Created
      <4> QED  BY <3>5, <4>2
    <3>6. CASE k > q
      <4>1. order[q] \in Job \ {order[k]}
        BY <1>1, <3>6
      <4>2. f[k - 1].reportGroupReport[order[q]] # NoJob
        BY <3>1, <3>6
      <4>3. f[k].reportGroupReport[order[q]] # NoJob
        BY <3>1, <4>1, <4>2 DEF Created
      <4> QED  BY <1>7, <3>6, <4>3
    <3> QED  BY <3>2, <3>3, <3>4, <3>5, <3>6
  <2>3. N \in H
    <3>1. \A k \in 1..N : k - 1 \in H => k \in H
      BY <2>2
    <3> HIDE DEF H
    <3>2. N \in 0..N
      BY <1>1
    <3> QED  BY <1>1, <2>1, <3>1, <3>2, Reached
  <2> QED  BY <1>1, <1>2, <2>3
<1>8. N \in 0..N /\ u = f[N]
  BY <1>1, <1>2
<1>9. \A t \in Job : u.endActors[t] = Component!Monitor!matched(t)
  BY <1>1, <1>5, <1>8 DEF P
<1> QED  BY <1>1, <1>5, <1>7, <1>8, <1>9 DEF P

-----------------------------------------------------------------------------
(* How many elements of a queue are in a set.                               *)

Hits(q, S) == {i \in DOMAIN q : q[i] \in S}
count(q, S) == Cardinality(Hits(q, S))

one(x) == IF x THEN 1 ELSE 0

LEMMA HitsFinite ==
  ASSUME NEW q, NEW n \in Nat, DOMAIN q = 1..n, NEW S
  PROVE  IsFiniteSet(Hits(q, S)) /\ count(q, S) \in Nat
<1>1. IsFiniteSet(1..n)
  BY FS_Interval
<1>2. Hits(q, S) \in SUBSET (1..n)
  BY DEF Hits
<1>3. IsFiniteSet(Hits(q, S))
  BY <1>1, <1>2, FS_Subset
<1> QED  BY <1>3, FS_CardinalityType DEF count

\* An element is appended.
LEMMA HitsAppended ==
  ASSUME NEW T, NEW q \in Seq(T), NEW x, NEW S
  PROVE  count(Append(q, x), S) = count(q, S) + one(x \in S)
<1> DEFINE n == Len(q)
<1>1. /\ n \in Nat /\ DOMAIN q = 1..n /\ DOMAIN Append(q, x) = 1..(n + 1)
      /\ Append(q, x)[n + 1] = x /\ \A i \in 1..n : Append(q, x)[i] = q[i]
  OBVIOUS
<1> HIDE DEF n
<1>2. /\ IsFiniteSet(Hits(q, S)) /\ n + 1 \notin Hits(q, S) /\ count(q, S) \in Nat
  <2>1. n + 1 \notin Hits(q, S)
    BY <1>1 DEF Hits
  <2> QED  BY <1>1, <2>1, HitsFinite
<1>3. Hits(Append(q, x), S) = IF x \in S THEN Hits(q, S) \cup {n + 1} ELSE Hits(q, S)
  BY <1>1 DEF Hits
<1>4. Cardinality(Hits(q, S) \cup {n + 1}) = Cardinality(Hits(q, S)) + 1
  BY <1>2, FS_AddElement
<1> QED  BY <1>2, <1>3, <1>4 DEF one, count

\* The element at i of n is taken away, and those behind it move up.
Removed(q, n, i, r) ==
  /\ DOMAIN q = 1..n /\ DOMAIN r = 1..(n - 1)
  /\ \A k \in 1..(n - 1) : r[k] = q[IF k < i THEN k ELSE k + 1]

LEMMA HitsRemoved ==
  ASSUME NEW n \in Nat, NEW i \in 1..n, NEW q, NEW r, Removed(q, n, i, r), NEW S
  PROVE  count(r, S) + one(q[i] \in S) = count(q, S)
<1> DEFINE H == Hits(q, S) \ {i}
           f == [k \in Hits(r, S) |-> IF k < i THEN k ELSE k + 1]
<1> USE DEF Removed
<1>1. n - 1 \in Nat
  OBVIOUS
<1>2. IsFiniteSet(Hits(q, S)) /\ IsFiniteSet(Hits(r, S)) /\ count(r, S) \in Nat /\ count(q, S) \in Nat
  BY <1>1, HitsFinite
<1>3. IsFiniteSet(H) /\ Cardinality(H) = IF i \in Hits(q, S) THEN count(q, S) - 1 ELSE count(q, S)
  BY <1>2, FS_RemoveElement DEF count
<1>4. f \in Bijection(Hits(r, S), H)
  <2>1. f \in [Hits(r, S) -> H]
    BY DEF Hits
  <2>2. \A a, b \in Hits(r, S) : f[a] = f[b] => a = b
    BY DEF Hits
  <2>3. ASSUME NEW h \in H
        PROVE  \E k \in Hits(r, S) : f[k] = h
    <3>1. h \in 1..n /\ h # i /\ q[h] \in S
      BY DEF Hits
    <3>2. CASE h < i
      <4>1. h \in Hits(r, S) /\ f[h] = h
        BY <3>1, <3>2 DEF Hits
      <4> QED  BY <4>1
    <3>3. CASE h > i
      <4>1. h - 1 \in Hits(r, S) /\ f[h - 1] = h
        <5>1. h - 1 \in 1..(n - 1) /\ ~(h - 1 < i) /\ h - 1 + 1 = h
          BY <3>1, <3>3
        <5>2. h - 1 \in Hits(r, S)
          BY <3>1, <5>1 DEF Hits
        <5> QED  BY <5>1, <5>2
      <4> QED  BY <4>1
    <3> QED  BY <3>1, <3>2, <3>3
  <2> HIDE DEF f, H
  <2> QED  BY <2>1, <2>2, <2>3 DEF Bijection, Injection, Surjection, IsInjective
<1>5. Cardinality(H) = count(r, S)
  <2>1. ExistsBijection(Hits(r, S), H)
    <3> HIDE DEF f, H
    <3> QED  BY <1>4 DEF ExistsBijection
  <2> HIDE DEF H
  <2> QED  BY <1>2, <2>1, FS_Bijection DEF count
<1>6. i \in Hits(q, S) <=> q[i] \in S
  BY DEF Hits
<1> QED  BY <1>2, <1>3, <1>5, <1>6 DEF one

\* The elements of two sets that have none in common.
LEMMA HitsUnion ==
  ASSUME NEW q, NEW n \in Nat, DOMAIN q = 1..n, NEW S, NEW R, S \cap R = {}
  PROVE  count(q, S \cup R) = count(q, S) + count(q, R)
<1>1. IsFiniteSet(Hits(q, S)) /\ IsFiniteSet(Hits(q, R)) /\ count(q, S) \in Nat /\ count(q, R) \in Nat
  BY HitsFinite
<1>2. Hits(q, S \cup R) = Hits(q, S) \cup Hits(q, R) /\ Hits(q, S) \cap Hits(q, R) = {}
  BY DEF Hits
<1>3. Cardinality({}) = 0
  BY FS_EmptySet
<1>4. Cardinality(Hits(q, S) \cup Hits(q, R)) = Cardinality(Hits(q, S)) + Cardinality(Hits(q, R)) - 0
  BY <1>1, <1>2, <1>3, FS_Union
<1>5. count(q, S \cup R) = Cardinality(Hits(q, S) \cup Hits(q, R))
  BY <1>2, Zenon DEF count
<1> QED  BY <1>1, <1>4, <1>5 DEF count

\* The jobs whose latency is not over, in the order in which they were added.
jobs(q) == [i \in DOMAIN q |-> q[i].job]

LEMMA JobsListed ==
  ASSUME NEW T, NEW q \in Seq([job : Job, time : T])
  PROVE  jobs(q) \in Seq(Job) /\ Len(jobs(q)) = Len(q) /\ DOMAIN jobs(q) = DOMAIN q
<1> DEFINE R == [job : Job, time : T]
<1>1. \A i \in DOMAIN q : q[i] \in R
  <2> HIDE DEF R
  <2>1. q \in Seq(R)
    BY DEF R
  <2> QED  BY <2>1, SequenceElements
<1>2. \A i \in DOMAIN q : jobs(q)[i] \in Job
  BY <1>1 DEF jobs
<1>3. jobs(q) = [i \in DOMAIN q |-> jobs(q)[i]]
  BY DEF jobs
<1> HIDE DEF R
<1>4. q \in Seq(R)
  BY DEF R
<1>5. jobs(q) \in Seq(Job) /\ Len(jobs(q)) = Len(q)
  BY <1>2, <1>3, <1>4, MappedSequence
<1> QED  BY <1>3, <1>5

LEMMA JobsAppended ==
  ASSUME NEW R, NEW q \in Seq(R), NEW x
  PROVE  jobs(Append(q, x)) = Append(jobs(q), x.job)
<1>1. /\ DOMAIN q = 1..Len(q) /\ Len(q) \in Nat /\ DOMAIN Append(q, x) = 1..(Len(q) + 1)
      /\ Append(q, x)[Len(q) + 1] = x /\ \A i \in 1..Len(q) : Append(q, x)[i] = q[i]
  OBVIOUS
<1>2. DOMAIN jobs(q) = 1..Len(q) /\ jobs(q) \in Seq({q[i].job : i \in 1..Len(q)}) /\ Len(jobs(q)) = Len(q)
  <2>1. \A i \in DOMAIN q : jobs(q)[i] \in {q[k].job : k \in 1..Len(q)}
    BY <1>1 DEF jobs
  <2>2. jobs(q) = [i \in DOMAIN q |-> jobs(q)[i]]
    BY DEF jobs
  <2> QED  BY <1>1, <2>1, <2>2, MappedSequence
<1>3. /\ DOMAIN Append(jobs(q), x.job) = 1..(Len(q) + 1)
      /\ Append(jobs(q), x.job)[Len(q) + 1] = x.job
      /\ \A i \in 1..Len(q) : Append(jobs(q), x.job)[i] = jobs(q)[i]
      /\ Append(jobs(q), x.job) = [i \in 1..(Len(q) + 1) |-> Append(jobs(q), x.job)[i]]
  BY <1>2
<1>4. \A i \in 1..(Len(q) + 1) : jobs(Append(q, x))[i] = Append(jobs(q), x.job)[i]
  BY <1>1, <1>3 DEF jobs
<1> QED  BY <1>1, <1>3, <1>4 DEF jobs

\* The elements that are left when one is removed.
LEMMA RemovedElements ==
  ASSUME NEW R, NEW q \in Seq(R), NEW i \in DOMAIN q, NEW r, r = RemoveAt(q, i)
  PROVE  r \in Seq(R) /\ Removed(q, Len(q), i, r)
<1> DEFINE a == SubSeq(q, 1, i - 1)
           b == SubSeq(q, i + 1, Len(q))
<1>1. i \in 1..Len(q) /\ Len(q) \in Nat /\ DOMAIN q = 1..Len(q)
  OBVIOUS
<1>2. a \in Seq(R) /\ Len(a) = i - 1 /\ \A k \in 1..(i - 1) : a[k] = q[k]
  BY <1>1
<1>3. b \in Seq(R) /\ Len(b) = Len(q) - i /\ \A k \in 1..(Len(q) - i) : b[k] = q[k + i]
  BY <1>1, SMTT(30)
<1>4. r = a \o b
  BY DEF RemoveAt
<1> HIDE DEF a, b
<1>5. /\ r \in Seq(R) /\ Len(r) = Len(q) - 1
      /\ \A k \in 1..(Len(q) - 1) : r[k] = IF k <= i - 1 THEN a[k] ELSE b[k - (i - 1)]
  <2>1. /\ a \o b \in Seq(R) /\ Len(a \o b) = Len(a) + Len(b)
        /\ \A k \in 1..(Len(a) + Len(b)) :
             (a \o b)[k] = IF k <= Len(a) THEN a[k] ELSE b[k - Len(a)]
    BY <1>2, <1>3, ConcatProperties
  <2>2. Len(a) = i - 1 /\ Len(a) + Len(b) = Len(q) - 1
    BY <1>1, <1>2, <1>3
  <2> QED  BY <1>4, <2>1, <2>2
<1>6. ASSUME NEW k \in 1..(Len(q) - 1)
      PROVE  r[k] = q[IF k < i THEN k ELSE k + 1]
  <2>1. CASE k < i
    <3>1. k \in 1..(i - 1) /\ k <= i - 1
      BY <1>1, <2>1
    <3> QED  BY <1>2, <1>5, <2>1, <3>1
  <2>2. CASE k >= i
    <3>1. /\ k - (i - 1) \in 1..(Len(q) - i) /\ k - (i - 1) + i = k + 1
          /\ ~(k <= i - 1) /\ ~(k < i)
      BY <1>1, <2>2
    <3> QED  BY <1>3, <1>5, <3>1
  <2> QED  BY <1>1, <2>1, <2>2
<1>7. DOMAIN r = 1..(Len(q) - 1)
  BY <1>1, <1>5
<1> QED  BY <1>1, <1>5, <1>6, <1>7 DEF Removed

\* A latency is over.
LEMMA JobRemoved ==
  ASSUME NEW T, NEW q \in Seq([job : Job, time : T]), NEW i \in DOMAIN q, NEW S
  PROVE  count(jobs(RemoveAt(q, i)), S) + one(q[i].job \in S) = count(jobs(q), S)
<1> DEFINE r == RemoveAt(q, i)
           R == [job : Job, time : T]
<1>1. q \in Seq(R) /\ Len(q) \in Nat /\ i \in 1..Len(q)
  OBVIOUS
<1> HIDE DEF R
<1>2. Removed(q, Len(q), i, r)
  BY <1>1, RemovedElements
<1> HIDE DEF r
<1>3. Removed(jobs(q), Len(q), i, jobs(r)) /\ jobs(q)[i] = q[i].job
  BY <1>1, <1>2 DEF jobs, Removed
<1>4. count(jobs(r), S) + one(jobs(q)[i] \in S) = count(jobs(q), S)
  BY <1>1, <1>3, HitsRemoved
<1> QED  BY <1>3, <1>4 DEF r

\* The head of a queue is taken.
LEMMA HeadRemoved ==
  ASSUME NEW T, NEW q \in Seq(T), q # <<>>, NEW S
  PROVE  count(Tail(q), S) + one(Head(q) \in S) = count(q, S)
<1>1. Len(q) \in Nat /\ 1 \in 1..Len(q) /\ Head(q) = q[1] /\ Removed(q, Len(q), 1, Tail(q))
  BY DEF Removed
<1> QED  BY <1>1, HitsRemoved

-----------------------------------------------------------------------------
(* The types of what the observers keep.                                    *)

Operations == {"ALLOCATE", "RELEASE", "ASSIGN", "FINISHDII", "FINISHLAT"}

\* The deadlines of end actor e that are active.
active(s, e) == Len(s.activeDeadlines[e])

\* What the monitor does when it is told of an operation.
Advanced(s, op, j, u) ==
  /\ u \in MonitorState
  /\ u.endActors = s.endActors /\ u.reportGroupReport = s.reportGroupReport
  /\ \A e \in Job :
       active(u, e) =
         CASE op = "RELEASE"   -> active(s, e) + Cardinality({k \in DOMAIN s.endActors[j] :
                                                               s.endActors[j][k].end = e})
           [] op = "FINISHLAT" -> IF e = j /\ active(s, e) > 0 THEN active(s, e) - 1
                                  ELSE active(s, e)
           [] OTHER            -> active(s, e)

LEMMA MonitorTold ==
  ASSUME NEW s \in MonitorState, NEW op \in Operations, NEW j \in Job,
         NEW u, u = Component!Monitor!taskInstanceOperation(s, op, j)
  PROVE  Advanced(s, op, j, u)
<1>1. /\ s.activeDeadlines \in [Job -> Seq(Int)]
      /\ s = [tasks |-> s.tasks, endActors |-> s.endActors,
              pendingEndActors |-> s.pendingEndActors,
              reportGroupReport |-> s.reportGroupReport,
              activeDeadlines |-> s.activeDeadlines]
  BY DEF MonitorState, Component!Monitor!State
<1>2. CASE op = "RELEASE"
  <2>1. u = Component!Monitor!taskInstanceOperation(s, "RELEASE", j)
    BY <1>2
  <2>2. /\ u \in MonitorState
        /\ u = [s EXCEPT !.activeDeadlines = u.activeDeadlines]
        /\ \A e \in Job : Len(u.activeDeadlines[e]) = Len(s.activeDeadlines[e])
              + Cardinality({k \in DOMAIN s.endActors[j] : s.endActors[j][k].end = e})
    BY <2>1, StartedFold
  <2>3. u.endActors = s.endActors /\ u.reportGroupReport = s.reportGroupReport
    BY <1>1, <2>2
  <2> QED  BY <1>2, <2>2, <2>3 DEF Advanced, active
<1>3. CASE op = "FINISHLAT" /\ s.activeDeadlines[j] # <<>>
  <2> DEFINE a == [s.activeDeadlines EXCEPT ![j] = Tail(@)]
  <2>1. a \in [Job -> Seq(Int)]
    BY <1>1, <1>3
  <2>2. \A e \in Job : Len(a[e]) = IF e = j /\ Len(s.activeDeadlines[e]) > 0
                                   THEN Len(s.activeDeadlines[e]) - 1
                                   ELSE Len(s.activeDeadlines[e])
    BY <1>1, <1>3
  <2>3. u = [s EXCEPT !.activeDeadlines = a]
    BY <1>1, <1>3 DEF Component!Monitor!taskInstanceOperation
  <2> HIDE DEF a
  <2>4. /\ u.activeDeadlines = a
        /\ u.endActors = s.endActors /\ u.reportGroupReport = s.reportGroupReport
    BY <1>1, <2>3
  <2>5. u \in MonitorState
    BY <2>1, <2>3 DEF MonitorState, Component!Monitor!State
  <2> QED  BY <1>3, <2>2, <2>4, <2>5 DEF Advanced, active
<1>4. CASE op = "FINISHLAT" /\ s.activeDeadlines[j] = <<>>
  <2>1. u = s
    BY <1>4 DEF Component!Monitor!taskInstanceOperation
  <2>2. Len(s.activeDeadlines[j]) = 0
    BY <1>4
  <2> QED  BY <1>4, <2>1, <2>2 DEF Advanced, active
<1>5. CASE op \in {"ALLOCATE", "ASSIGN", "FINISHDII"}
  <2>1. u = s
    BY <1>5 DEF Component!Monitor!taskInstanceOperation
  <2> QED  BY <1>5, <2>1 DEF Advanced
<1> QED  BY <1>2, <1>3, <1>4, <1>5 DEF Operations

Watched == Component!Observers(Nat)

\* The parts that are watched.
LEMMA WatchedParts ==
  /\ \A o \in Watched :
       /\ o = [energy |-> o.energy, signal |-> o.signal, paje |-> o.paje, monitor |-> o.monitor]
       /\ o.energy \in [powerValue : Nat] /\ o.signal \in [Job -> Component!Tracers!VcdTask]
       /\ o.paje \in Component!Tracers!PajeComponent(Nat) /\ o.monitor \in MonitorState
  /\ \A e \in [powerValue : Nat], s \in [Job -> Component!Tracers!VcdTask],
        p \in Component!Tracers!PajeComponent(Nat), m \in MonitorState :
       [energy |-> e, signal |-> s, paje |-> p, monitor |-> m] \in Watched
BY DEF Watched, Component!Observers, Component!PSComponent, MonitorState

LEMMA SignalTyped ==
  ASSUME NEW s \in Component!Tracers!VcdTask, NEW op \in Operations,
         NEW u, u = Component!Tracers!vcdTaskInstanceOperation(s, op)
  PROVE  u \in Component!Tracers!VcdTask
<1> DEFINE V == Component!Tracers!Value
<1>1. /\ s.lastValue \in V /\ s.currentValue \in V /\ s.changedNow \in BOOLEAN /\ s.sampled \in V
      /\ s = [lastValue |-> s.lastValue, currentValue |-> s.currentValue,
              changedNow |-> s.changedNow, sampled |-> s.sampled]
  BY DEF Component!Tracers!VcdTask
<1>2. Component!Tracers!getLastValue(s) \in V
  BY <1>1 DEF Component!Tracers!getLastValue
<1>3. ASSUME NEW v \in V
      PROVE  Component!Tracers!writeValue(s, v) \in Component!Tracers!VcdTask
  <2>1. PICK g \in V : g = Component!Tracers!getLastValue(s)
    BY <1>2
  <2> HIDE DEF V
  <2>2. PICK a, b, c, d : s = [lastValue |-> a, currentValue |-> b, changedNow |-> c, sampled |-> d]
                          /\ d = s.sampled
    BY <1>1
  <2>3. Component!Tracers!writeValue(s, v) =
          [[[s EXCEPT !.lastValue = g] EXCEPT !.currentValue = v] EXCEPT !.changedNow = TRUE]
    BY <2>1 DEF Component!Tracers!writeValue
  <2>4. Component!Tracers!writeValue(s, v) =
          [lastValue |-> g, currentValue |-> v, changedNow |-> TRUE, sampled |-> d]
    BY <2>2, <2>3
  <2>5. d \in V
    BY <1>1, <2>2
  <2>6. Component!Tracers!VcdTask =
          [lastValue : V, currentValue : V, changedNow : BOOLEAN, sampled : V]
    BY DEF Component!Tracers!VcdTask, V
  <2> QED  BY <2>4, <2>5, <2>6
<1>4. \A l \in Component!Tracers!Letter :
        /\ Component!Tracers!plain(l) \in V
        /\ [letter |-> l, flipped |-> TRUE] \in V
  BY DEF Component!Tracers!Value, Component!Tracers!plain
<1> HIDE DEF V
<1>5. \A l \in Component!Tracers!Letter :
        Component!Tracers!setValueWithCaseCorrection(s, l) \in Component!Tracers!VcdTask
  BY <1>3, <1>4 DEF Component!Tracers!setValueWithCaseCorrection
<1>6. {"w", "R", "b", " "} \subseteq Component!Tracers!Letter
  BY DEF Component!Tracers!Letter
<1>7. /\ Component!Tracers!traceReady(s) \in Component!Tracers!VcdTask
      /\ Component!Tracers!traceRunning(s) \in Component!Tracers!VcdTask
      /\ Component!Tracers!traceSleeping(s) \in Component!Tracers!VcdTask
  BY <1>3, <1>4, <1>5, <1>6 DEF Component!Tracers!traceReady, Component!Tracers!traceRunning,
     Component!Tracers!traceSleeping
<1> QED  BY <1>7 DEF Operations, Component!Tracers!vcdTaskInstanceOperation

LEMMA GaugeTyped ==
  ASSUME NEW p \in Component!Tracers!PajeComponent(Nat), NEW pw \in Nat
  PROVE  /\ Component!Tracers!pajeComponentOperation(p, pw) \in Component!Tracers!PajeComponent(Nat)
         /\ \A op \in Operations :
              Component!Tracers!pajeTaskInstanceOperation(p, op, pw)
                \in Component!Tracers!PajeComponent(Nat)
         /\ Component!Tracers!pajeElapsed(p) \in Component!Tracers!PajeComponent(Nat)
<1> USE DEF Component!Tracers!PajeComponent, Component!Tracers!NoTime
<1>1. /\ p.startTime \in Nat \cup {-1} /\ p.powerTimePast \in BOOLEAN
      /\ p.powerValue \in Nat /\ p.powerValueOld \in Nat \cup {-1}
  OBVIOUS
<1>2. PICK t : t = Component!Tracers!pajeComponentOperation(p, pw)
  OBVIOUS
<1>3. t \in Component!Tracers!PajeComponent(Nat)
  BY <1>1, <1>2 DEF Component!Tracers!pajeComponentOperation
<1>4. ASSUME NEW op \in Operations
      PROVE  Component!Tracers!pajeTaskInstanceOperation(p, op, pw)
               \in Component!Tracers!PajeComponent(Nat)
  <2>1. /\ [t EXCEPT !.startTime = 0] \in Component!Tracers!PajeComponent(Nat)
        /\ [t EXCEPT !.startTime = -1] \in Component!Tracers!PajeComponent(Nat)
    BY <1>3
  <2> QED  BY <1>2, <1>3, <2>1 DEF Component!Tracers!pajeTaskInstanceOperation
<1>5. Component!Tracers!pajeElapsed(p) \in Component!Tracers!PajeComponent(Nat)
  <2>1. PICK x \in Nat \cup {-1} : x = IF p.startTime = -1 THEN -1 ELSE p.startTime + 1
    BY <1>1
  <2>2. PICK a, b, c, d : /\ p = [startTime |-> a, powerTimePast |-> b, powerValue |-> c,
                                  powerValueOld |-> d]
                          /\ a = p.startTime /\ c = p.powerValue /\ d = p.powerValueOld
    BY DEF Component!Tracers!PajeComponent
  <2>3. Component!Tracers!pajeElapsed(p)
          = [[p EXCEPT !.powerTimePast = TRUE] EXCEPT !.startTime = x]
    BY <2>1, <2>2 DEF Component!Tracers!pajeElapsed
  <2>4. Component!Tracers!pajeElapsed(p) =
          [startTime |-> x, powerTimePast |-> TRUE, powerValue |-> c, powerValueOld |-> d]
    BY <2>2, <2>3
  <2>5. c \in Nat /\ d \in Nat \cup {-1}
    BY <1>1, <2>2
  <2>6. [startTime |-> x, powerTimePast |-> TRUE, powerValue |-> c, powerValueOld |-> d]
          \in Component!Tracers!PajeComponent(Nat)
    BY <2>1, <2>5
  <2> QED  BY <2>4, <2>6
<1> QED  BY <1>2, <1>3, <1>4, <1>5

\* The observers are told of an operation on an instance.
LEMMA ToldTyped ==
  ASSUME NEW o \in Watched, NEW op \in Operations, NEW j \in Job, NEW pw \in Nat,
         NEW u, u = told(o, op, j, pw)
  PROVE  u \in Watched /\ Advanced(o.monitor, op, j, u.monitor)
<1>1. PICK e, s, p, m : /\ o = [energy |-> e, signal |-> s, paje |-> p, monitor |-> m]
                        /\ o.energy = e /\ o.signal = s /\ o.paje = p /\ o.monitor = m
                        /\ s \in [Job -> Component!Tracers!VcdTask]
                        /\ p \in Component!Tracers!PajeComponent(Nat) /\ m \in MonitorState
  BY WatchedParts
<1>2. PICK v : v = Component!Tracers!vcdTaskInstanceOperation(s[j], op)
  OBVIOUS
<1>3. PICK t : t = [s EXCEPT ![j] = v]
  OBVIOUS
<1>4. v \in Component!Tracers!VcdTask /\ t \in [Job -> Component!Tracers!VcdTask]
  BY <1>1, <1>2, <1>3, SignalTyped
<1>5. PICK q : q = Component!Tracers!pajeTaskInstanceOperation(p, op, pw)
  OBVIOUS
<1>6. q \in Component!Tracers!PajeComponent(Nat)
  BY <1>1, <1>5, GaugeTyped
<1>7. PICK n : n = Component!Monitor!taskInstanceOperation(m, op, j)
  OBVIOUS
<1>8. Advanced(m, op, j, n)
  BY <1>1, <1>7, MonitorTold
<1>9. u = [energy |-> [powerValue |-> pw], signal |-> t, paje |-> q, monitor |-> n]
  <2>1. u = [[[[o EXCEPT !.energy = [powerValue |-> pw]]
                  EXCEPT !.signal = t]
                  EXCEPT !.paje = q]
                  EXCEPT !.monitor = n]
    BY <1>1, <1>2, <1>3, <1>5, <1>7
       DEF told, Component!taskInstanceOperation, Component!calculateNewEnergySum
  <2> QED  BY <1>1, <2>1
<1>10. [powerValue |-> pw] \in [powerValue : Nat]
  OBVIOUS
<1>11. n \in MonitorState
  BY <1>8 DEF Advanced
<1>12. u \in Watched /\ u.monitor = n
  BY <1>11, <1>4, <1>6, <1>9, <1>10, WatchedParts
<1> QED  BY <1>1, <1>8, <1>12

\* The power mode changes.
LEMMA PowerTyped ==
  ASSUME NEW o \in Watched, NEW pw \in Nat, NEW u, u = Component!componentOperation(o, pw)
  PROVE  u \in Watched /\ u.monitor = o.monitor
<1>1. PICK e, s, p, m : /\ o = [energy |-> e, signal |-> s, paje |-> p, monitor |-> m]
                        /\ o.energy = e /\ o.signal = s /\ o.paje = p /\ o.monitor = m
                        /\ s \in [Job -> Component!Tracers!VcdTask]
                        /\ p \in Component!Tracers!PajeComponent(Nat) /\ m \in MonitorState
  BY WatchedParts
<1>2. PICK q : q = Component!Tracers!pajeComponentOperation(p, pw)
  OBVIOUS
<1>3. q \in Component!Tracers!PajeComponent(Nat)
  BY <1>1, <1>2, GaugeTyped
<1>4. u = [energy |-> [powerValue |-> pw], signal |-> s, paje |-> q, monitor |-> m]
  BY <1>1, <1>2 DEF Component!componentOperation, Component!calculateNewEnergySum
<1>5. [powerValue |-> pw] \in [powerValue : Nat]
  OBVIOUS
<1> QED  BY <1>1, <1>3, <1>4, <1>5, WatchedParts

\* Time goes on.
LEMMA ElapsedTyped ==
  ASSUME NEW o \in Watched, NEW u, u = Component!elapsed(o)
  PROVE  /\ u \in Watched
         /\ u.monitor.endActors = o.monitor.endActors
         /\ u.monitor.reportGroupReport = o.monitor.reportGroupReport
         /\ \A e \in Job : active(u.monitor, e) = active(o.monitor, e)
<1>1. PICK e, s, p, m : /\ o = [energy |-> e, signal |-> s, paje |-> p, monitor |-> m]
                        /\ o.energy = e /\ o.signal = s /\ o.paje = p /\ o.monitor = m
                        /\ e \in [powerValue : Nat] /\ s \in [Job -> Component!Tracers!VcdTask]
                        /\ p \in Component!Tracers!PajeComponent(Nat) /\ m \in MonitorState
  BY WatchedParts
<1>2. PICK q : q = Component!Tracers!pajeElapsed(p)
  OBVIOUS
<1>3. q \in Component!Tracers!PajeComponent(Nat)
  <2>1. 0 \in Nat
    OBVIOUS
  <2> QED  BY <1>1, <1>2, <2>1, GaugeTyped
<1>4. PICK t : t = [j \in Job |-> Component!Tracers!vcdElapsed(s[j])]
  OBVIOUS
<1>5. t \in [Job -> Component!Tracers!VcdTask]
  <2>1. ASSUME NEW v \in Component!Tracers!VcdTask
        PROVE  Component!Tracers!vcdElapsed(v) \in Component!Tracers!VcdTask
    BY DEF Component!Tracers!VcdTask, Component!Tracers!vcdElapsed
  <2> QED  BY <1>1, <1>4, <2>1
<1>6. PICK n : n = Component!Monitor!elapsed(m)
  OBVIOUS
<1>7. /\ n \in MonitorState
      /\ n.endActors = m.endActors /\ n.reportGroupReport = m.reportGroupReport
      /\ \A x \in Job : active(n, x) = active(m, x)
  <2> DEFINE b(x) == [i \in DOMAIN m.activeDeadlines[x] |->
                        IF m.activeDeadlines[x][i] < 0 THEN -1 ELSE m.activeDeadlines[x][i] - 1]
             a == [x \in Job |-> b(x)]
  <2>1. /\ m.activeDeadlines \in [Job -> Seq(Int)]
        /\ m = [tasks |-> m.tasks, endActors |-> m.endActors,
                pendingEndActors |-> m.pendingEndActors,
                reportGroupReport |-> m.reportGroupReport,
                activeDeadlines |-> m.activeDeadlines]
    BY <1>1 DEF MonitorState, Component!Monitor!State
  <2>2. ASSUME NEW x \in Job
        PROVE  b(x) \in Seq(Int) /\ Len(b(x)) = Len(m.activeDeadlines[x])
    <3>1. PICK l \in Seq(Int) : l = m.activeDeadlines[x]
      BY <2>1
    <3>2. PICK f : f = b(x)
      OBVIOUS
    <3>3. f = [i \in DOMAIN l |-> f[i]] /\ \A i \in DOMAIN l : f[i] \in Int
      BY <3>1, <3>2
    <3>4. f \in Seq(Int) /\ Len(f) = Len(l)
      BY <3>3, MappedSequence
    <3> QED  BY <3>1, <3>2, <3>4
  <2>3. n = [m EXCEPT !.activeDeadlines = a]
    BY <1>6 DEF Component!Monitor!elapsed
  <2> HIDE DEF b
  <2>4. a \in [Job -> Seq(Int)] /\ \A x \in Job : Len(a[x]) = Len(m.activeDeadlines[x])
    BY <2>2
  <2> HIDE DEF a
  <2>5. n.activeDeadlines = a /\ n.endActors = m.endActors /\ n.reportGroupReport = m.reportGroupReport
    BY <2>1, <2>3
  <2>6. n \in MonitorState
    BY <1>1, <2>3, <2>4 DEF MonitorState, Component!Monitor!State
  <2> QED  BY <2>4, <2>5, <2>6 DEF active
<1>8. u = [energy |-> e, signal |-> t, paje |-> q, monitor |-> n]
  BY <1>1, <1>2, <1>4, <1>6 DEF Component!elapsed
<1>9. u \in Watched /\ u.monitor = n
  BY <1>1, <1>3, <1>5, <1>7, <1>8, WatchedParts
<1> QED  BY <1>1, <1>7, <1>9

\* Nothing has been observed.
LEMMA CreatedTyped ==
  ASSUME NEW order \in Creations, NEW o, o = Component!created(order)
  PROVE  o \in Watched /\ o.monitor = Component!Monitor!allocated(order)
<1>1. Component!Monitor!allocated(order) \in MonitorState
  BY AllocatedFold
<1>2. Component!Tracers!newVcdTask \in Component!Tracers!VcdTask
  BY DEF Component!Tracers!newVcdTask, Component!Tracers!VcdTask, Component!Tracers!plain,
         Component!Tracers!Value, Component!Tracers!Letter
<1>3. Component!Tracers!newPajeComponent \in Component!Tracers!PajeComponent(Nat)
  BY DEF Component!Tracers!newPajeComponent, Component!Tracers!PajeComponent,
         Component!Tracers!NoTime
<1>4. [j \in Job |-> Component!Tracers!newVcdTask] \in [Job -> Component!Tracers!VcdTask]
  BY <1>2
<1>5. Component!newPSComponent \in [powerValue : Nat]
  BY DEF Component!newPSComponent
<1>6. o = [energy |-> Component!newPSComponent,
           signal |-> [j \in Job |-> Component!Tracers!newVcdTask],
           paje |-> Component!Tracers!newPajeComponent,
           monitor |-> Component!Monitor!allocated(order)]
  BY DEF Component!created
<1> QED  BY <1>1, <1>3, <1>4, <1>5, <1>6, WatchedParts

-----------------------------------------------------------------------------
(* The type invariant.  That no channel holds more than it has places, and  *)
(* that none is freed twice, are facts about where its tokens are: each     *)
(* place that is taken is that of a token to be read, of one that a firing  *)
(* reads now, or of one that is on its way.                                 *)

\* An instance as the execution model makes it.
Known(inst) ==
  /\ inst \in Instance /\ inst.delay <= inst.latency
  /\ inst.type = "GUARD" => inst.latency = inst.delay
  /\ inst.type = "MESSAGE" <=> inst.job \in Msg

Computing ==
  /\ fireActorInLoop \in BOOLEAN /\ progress \in BOOLEAN
  /\ at \in {"top", "poll", "guarded", "compute", "fired", "asleep"}
  /\ next \in 1..(Len(TaskOrder) + 1)
  /\ at \in {"guarded", "compute", "fired"} => next \in DOMAIN TaskOrder
  /\ wake \in Nat /\ powerConsumption \in Nat
  /\ thread = "delay" => Known(running)
  /\ IF at = "compute" THEN Known(actualTask) /\ actualTask.type = "ACTION" ELSE actualTask = None
  /\ latencyQueue \in Seq([job : Job, time : Nat])
  /\ observers \in Watched

\* The jobs whose end gives actor t a token, in the end.
Feeders(t) == {j \in Job : Dest(j) = t}

\* The places of the channel to t that are taken for what is on its way.
coming(t) ==
  count(jobs(latencyQueue), Feeders(t)) + count(readyMsgTasks, Feeders(t))
  + one(actualTask.job \in Feeders(t)) + one(running.job \in Feeders(t) /\ running.type # "GUARD")

\* The place of a token that a firing reads.
reading(t) == one(actualTask.job = t) + one(running.job = t /\ running.type = "ACTION")

Channels ==
  /\ tokens \in [Task -> Nat] /\ used \in [Task -> 0..Capacity]
  /\ \A t \in Task : used[t] = tokens[t] + reading(t) + coming(t)

\* While a guard is evaluated the actor can still fire.
Guarding == at = "guarded" => enabled(TaskOrder[next], tokens, used)

Flow == Computing /\ Channels /\ Guarding

LEMMA Writers ==
  \A t \in Task :
    /\ Succ[t] # NoJob => /\ Succ[t] \in Task /\ Succ[t] \notin Sources
                          /\ \A u \in Task : Succ[u] = Succ[t] => u = t
    /\ Hop[t] # NoJob => /\ Hop[t] \in Msg /\ Hop[t] \notin Sources
                         /\ \A u \in Task : Hop[u] = Hop[t] => u = t
BY RoundRobinAssumption

\* Where the output of an actor, and of the hop that it takes, arrives.
LEMMA Destinations ==
  /\ \A t \in Task : Dest(t) = Succ[t] /\ t # NoJob
  /\ \A t \in Task : Hop[t] # NoJob => Dest(Hop[t]) = Succ[t]
  /\ \A m \in Msg \cap Sources : Dest(m) = NoJob
  /\ \A m \in Msg, e \in Task : Dest(m) = e => \E t \in Task : Hop[t] = m /\ Succ[t] = e
<1>1. \A t \in Task : Dest(t) = Succ[t] /\ t # NoJob
  BY RoundRobinAssumption DEF Dest, Job
<1>2. ASSUME NEW t \in Task, Hop[t] # NoJob
      PROVE  Dest(Hop[t]) = Succ[t]
  <2>1. Hop[t] \notin Task /\ t = CHOOSE u \in Task : Hop[u] = Hop[t]
    BY <1>2, Writers, RoundRobinAssumption
  <2> QED  BY <2>1 DEF Dest
<1>3. ASSUME NEW m \in Msg, ~\E t \in Task : Hop[t] = m
      PROVE  Dest(m) = NoJob
  BY <1>3, RoundRobinAssumption DEF Dest
<1>4. \A m \in Msg \cap Sources, t \in Task : Hop[t] # m
  BY Writers, RoundRobinAssumption DEF Job
<1>5. \A m \in Msg, e \in Task : Dest(m) = e => \E t \in Task : Hop[t] = m /\ Succ[t] = e
  <2> SUFFICES ASSUME NEW m \in Msg, NEW e \in Task, Dest(m) = e
               PROVE  \E t \in Task : Hop[t] = m /\ Succ[t] = e
    OBVIOUS
  <2>1. PICK t \in Task : Hop[t] = m
    BY <1>1, <1>3
  <2>2. Hop[t] # NoJob
    BY <2>1, RoundRobinAssumption DEF Job
  <2> QED  BY <1>2, <2>1, <2>2
<1> QED  BY <1>1, <1>2, <1>3, <1>4, <1>5

\* What the execution model makes.
LEMMA InstancesKnown ==
  ASSUME powerMode \in PowerModes
  PROVE  /\ \A t \in Task :
              /\ Known(checkFiringRule(t)) /\ Known(executeFiringRule(t))
              /\ checkFiringRule(t).job = t /\ checkFiringRule(t).type = "GUARD"
              /\ executeFiringRule(t).job = t /\ executeFiringRule(t).type = "ACTION"
         /\ \A m \in Msg : /\ Known(message(m))
                           /\ message(m).job = m /\ message(m).type = "MESSAGE"
<1>1. ASSUME NEW t \in Task, NEW type \in {"ACTION", "GUARD"}
      PROVE  Known(instance(t, type)) /\ instance(t, type).job = t /\ instance(t, type).type = type
  <2>1. PICK r \in [guardDelay : Nat, dii : Nat, latency : Nat, pwrRunning : Nat] :
           r = registerAction(t)[powerMode]
    BY RegisteredTimes
  <2>2. r.latency >= r.dii
    <3>1. registerAction(t)[powerMode].latency >= registerAction(t)[powerMode].dii
      BY TimingsAssumption DEF registerAction
    <3> QED  BY <2>1, <3>1
  <2>3. instance(t, type) =
          IF type = "GUARD"
          THEN [job |-> t, type |-> type, delay |-> r.guardDelay, latency |-> r.guardDelay,
                power |-> r.pwrRunning]
          ELSE [job |-> t, type |-> type, delay |-> r.dii, latency |-> r.latency,
                power |-> r.pwrRunning]
    BY <2>1 DEF instance, initTaskInstance
  <2>4. t \in Job /\ t \notin Msg
    BY RoundRobinAssumption DEF Job
  <2> QED  BY <2>2, <2>3, <2>4 DEF Known, Instance
<1>2. ASSUME NEW m \in Msg
      PROVE  Known(message(m)) /\ message(m).job = m /\ message(m).type = "MESSAGE"
  <2>1. /\ MessageTiming[m].dii \in Nat /\ MessageTiming[m].latency \in Nat
        /\ MessageTiming[m].dii <= MessageTiming[m].latency
    BY RoundRobinAssumption
  <2> QED  BY <2>1 DEF Known, Instance, message, Job
<1> QED  BY <1>1, <1>2 DEF checkFiringRule, executeFiringRule

\* The end of a job passes its output on: to the channel, or to the next hop.
LEMMA PassedOn ==
  ASSUME tokens \in [Task -> Nat], readyMsgTasks \in Seq(Msg), NEW j \in Job
  PROVE  /\ arrived(tokens, j) \in [Task -> Nat] /\ forwarded(j) \in Seq(Msg)
         /\ \A t \in Task : arrived(tokens, j)[t] >= tokens[t]
         /\ \A t \in Task :
              arrived(tokens, j)[t] + count(forwarded(j), Feeders(t))
                = tokens[t] + count(readyMsgTasks, Feeders(t)) + one(j \in Feeders(t))
<1>1. arrived(tokens, j) \in [Task -> Nat] /\ \A t \in Task : arrived(tokens, j)[t] >= tokens[t]
  BY DEF arrived
<1>2. forwarded(j) \in Seq(Msg)
  <2>1. hops(j) => Hop[j] \in Msg
    BY Writers DEF hops
  <2> QED  BY <2>1, AppendedElement DEF forwarded
<1>3. ASSUME NEW t \in Task
      PROVE  arrived(tokens, j)[t] + count(forwarded(j), Feeders(t))
               = tokens[t] + count(readyMsgTasks, Feeders(t)) + one(j \in Feeders(t))
  <2>1. count(readyMsgTasks, Feeders(t)) \in Nat /\ tokens[t] \in Nat /\ t # NoJob
    <3>1. DOMAIN readyMsgTasks = 1..Len(readyMsgTasks) /\ Len(readyMsgTasks) \in Nat
      OBVIOUS
    <3> QED  BY <3>1, HitsFinite, Destinations
  <2>2. CASE hops(j)
    <3>1. arrived(tokens, j)[t] = tokens[t]
      BY <2>1, <2>2 DEF arrived, delivered
    <3>2. j \in Task /\ Hop[j] # NoJob /\ Hop[j] \in Job
      BY <2>2, Writers DEF hops, Job
    <3>3. Hop[j] \in Feeders(t) <=> j \in Feeders(t)
      BY <3>2, Destinations DEF Feeders
    <3>4. count(forwarded(j), Feeders(t))
            = count(readyMsgTasks, Feeders(t)) + one(Hop[j] \in Feeders(t))
      BY <2>2, HitsAppended DEF forwarded
    <3> QED  BY <2>1, <3>1, <3>3, <3>4 DEF one
  <2>3. CASE ~hops(j)
    <3>1. forwarded(j) = readyMsgTasks /\ delivered(j) = Dest(j)
      BY <2>3 DEF forwarded, delivered
    <3>2. arrived(tokens, j)[t] = IF t = Dest(j) THEN tokens[t] + 1 ELSE tokens[t]
      BY <3>1 DEF arrived
    <3>3. j \in Feeders(t) <=> Dest(j) = t
      BY DEF Feeders
    <3> QED  BY <2>1, <3>1, <3>2, <3>3 DEF one
  <2> QED  BY <2>2, <2>3
<1> QED  BY <1>1, <1>2, <1>3

\* The numbers that Channels adds up.
LEMMA Numbers ==
  ASSUME readyMsgTasks \in Seq(Msg), latencyQueue \in Seq([job : Job, time : Int]), NEW S
  PROVE  count(readyMsgTasks, S) \in Nat /\ count(jobs(latencyQueue), S) \in Nat
<1>1. DOMAIN readyMsgTasks = 1..Len(readyMsgTasks) /\ Len(readyMsgTasks) \in Nat
  OBVIOUS
<1>2. DOMAIN jobs(latencyQueue) = 1..Len(latencyQueue) /\ Len(latencyQueue) \in Nat
  <2>1. DOMAIN latencyQueue = 1..Len(latencyQueue) /\ Len(latencyQueue) \in Nat
    OBVIOUS
  <2> QED  BY <2>1 DEF jobs
<1> QED  BY <1>1, <1>2, HitsFinite

LEMMA FlowInitially == Init => Flow
<1> SUFFICES ASSUME Init  PROVE Flow
  OBVIOUS
<1>1. Computing
  <2>1. PICK order \in Creations : observers = Component!created(order)
    BY DEF Init
  <2>2. observers \in Watched
    BY <2>1, CreatedTyped
  <2>3. PwrIdle[StartPowerMode] \in Nat /\ Len(TaskOrder) \in Nat
    BY RoundRobinAssumption, DurationsAssumption
  <2>4. /\ fireActorInLoop \in BOOLEAN /\ progress = FALSE /\ at = "top" /\ next = 1 /\ wake = 0
        /\ powerConsumption = PwrIdle[StartPowerMode] /\ thread = "runnable"
        /\ actualTask = None
    BY DEF Init, powerIdle
  <2>5. latencyQueue \in Seq([job : Job, time : Nat])
    BY DEF Init
  <2>6. next \in 1..(Len(TaskOrder) + 1)
    BY <2>3, <2>4
  <2>7. powerConsumption \in Nat /\ wake \in Nat
    BY <2>3, <2>4
  <2>8. IF at = "compute" THEN Known(actualTask) /\ actualTask.type = "ACTION" ELSE actualTask = None
    BY <2>4
  <2>9. fireActorInLoop \in BOOLEAN /\ progress \in BOOLEAN
    BY <2>4
  <2> QED  BY <2>2, <2>4, <2>5, <2>6, <2>7, <2>8, <2>9 DEF Computing
<1>2. Channels
  <2>1. /\ tokens = [t \in Task |-> 0] /\ used = [t \in Task |-> 0]
        /\ readyMsgTasks = <<>> /\ latencyQueue = <<>> /\ running = None /\ actualTask = None
    BY DEF Init
  <2>2. ASSUME NEW t \in Task
        PROVE  reading(t) = 0 /\ coming(t) = 0
    <3>1. NoJob \notin Feeders(t) /\ NoJob # t
      BY RoundRobinAssumption DEF Feeders, Job
    <3>2. Hits(readyMsgTasks, Feeders(t)) = {} /\ Hits(jobs(latencyQueue), Feeders(t)) = {}
      BY <2>1 DEF Hits, jobs
    <3>3. count(readyMsgTasks, Feeders(t)) = 0 /\ count(jobs(latencyQueue), Feeders(t)) = 0
      BY <3>2, FS_EmptySet, Zenon DEF count
    <3>4. running.job = NoJob /\ actualTask.job = NoJob
      BY <2>1 DEF None
    <3> QED  BY <3>1, <3>3, <3>4 DEF reading, coming, one
  <2>3. tokens \in [Task -> Nat] /\ used \in [Task -> 0..Capacity]
    BY <2>1, RoundRobinAssumption
  <2> QED  BY <2>1, <2>2, <2>3 DEF Channels
<1>3. Guarding
  BY DEF Init, Guarding
<1> QED  BY <1>1, <1>2, <1>3 DEF Flow

\* An instance that starts: what the observers have seen of it.
LEMMA Started ==
  ASSUME Computing, NEW inst, Known(inst), Execute(inst)
  PROVE  /\ running' = inst /\ thread' = "delay" /\ wake' \in Nat /\ powerConsumption' \in Nat
         /\ observers' \in Watched /\ Advanced(observers.monitor, "RELEASE", inst.job, observers'.monitor)
<1>1. /\ inst.job \in Job /\ inst.delay \in Nat /\ inst.power \in Nat
      /\ powerConsumption \in Nat /\ observers \in Watched
  BY DEF Known, Instance, Computing
<1>2. PICK r : r = told(observers, "RELEASE", inst.job, powerConsumption)
  OBVIOUS
<1>3. {"RELEASE", "ASSIGN"} \subseteq Operations
  BY DEF Operations
<1>4. r \in Watched /\ Advanced(observers.monitor, "RELEASE", inst.job, r.monitor)
  BY <1>1, <1>2, <1>3, ToldTyped
<1>5. observers' = told(r, "ASSIGN", inst.job, inst.power)
  BY <1>2 DEF Execute
<1>6. observers' \in Watched /\ Advanced(r.monitor, "ASSIGN", inst.job, observers'.monitor)
  BY <1>1, <1>3, <1>4, <1>5, ToldTyped
<1>7. Advanced(observers.monitor, "RELEASE", inst.job, observers'.monitor)
  BY <1>4, <1>6 DEF Advanced
<1> QED  BY <1>1, <1>6, <1>7 DEF Execute

\* An instance that is allocated, or whose latency ends: what it changes.
LEMMA Noticed ==
  ASSUME Computing, NEW op \in {"ALLOCATE", "FINISHLAT"}, NEW j \in Job,
         observers' = told(observers, op, j, powerConsumption)
  PROVE  observers' \in Watched /\ Advanced(observers.monitor, op, j, observers'.monitor)
BY ToldTyped DEF Computing, Operations

\* In the thread's own steps no instance runs before; what it computes next is
\* told from what is on its way.
LEMMA NoneRuns ==
  /\ None.job = NoJob /\ NoJob \notin Job /\ NoJob \notin Task
  /\ \A t : NoJob \notin Feeders(t)
BY RoundRobinAssumption DEF None, Feeders, Job

LEMMA FlowOfSurroundings ==
  ASSUME ObserverInv, Flow,
         \/ \E t \in Task : Arrival(t)
         \/ \E m \in Msg : MessageArrival(m)
         \/ \E mode \in PowerModes : ChangePowerMode(mode)
         \/ LatencyExpires
         \/ AdvanceTime
  PROVE  Flow'
<1> USE DEF channels, place, power, Evaluating
<1>0. /\ thread \in {"runnable", "running", "delay", "event"}
      /\ notified(thread) = "delay" <=> thread = "delay"
      /\ readyMsgTasks \in Seq(Msg) /\ latencyQueue \in Seq([job : Job, time : Int])
      /\ Computing /\ Channels /\ Guarding
  BY DEF ObserverInv, Assigned, notified, Flow
<1>1. ASSUME NEW a \in Task, Arrival(a)  PROVE Flow'
  <2>1. /\ a \in Sources /\ used[a] < Capacity
        /\ tokens' = [tokens EXCEPT ![a] = @ + 1] /\ used' = [used EXCEPT ![a] = @ + 1]
        /\ thread' \in {thread, notified(thread)}
        /\ UNCHANGED <<fireActorInLoop, readyMsgTasks, latencyQueue, running, actualTask,
                       at, next, progress, wake, powerConsumption, observers>>
    BY <1>1 DEF Arrival, announce
  <2>2. Computing'
    BY <1>0, <2>1 DEF Computing
  <2>3. Channels'
    <3>1. tokens' \in [Task -> Nat] /\ used' \in [Task -> 0..Capacity]
      BY <1>0, <2>1, RoundRobinAssumption, SMTT(30) DEF Channels
    <3>2. ASSUME NEW t \in Task
          PROVE  (used[t] = tokens[t] + reading(t) + coming(t))'
      <4>1. /\ used[t] = tokens[t] + reading(t) + coming(t)
            /\ reading(t)' = reading(t) /\ coming(t)' = coming(t)
        BY <1>0, <2>1 DEF Channels, reading, coming
      <4>2. reading(t) \in Nat /\ coming(t) \in Nat
        BY <1>0, Numbers DEF reading, coming, one
      <4> QED  BY <1>0, <2>1, <4>1, <4>2 DEF Channels
    <3> QED  BY <3>1, <3>2 DEF Channels
  <2>4. Guarding'
    <3>1. CASE at = "guarded"
      <4> DEFINE t == TaskOrder[next]
      <4>1. t \in Task
        BY <1>0, <3>1, SequenceElements, RoundRobinAssumption DEF Computing
      <4>2. enabled(t, tokens, used)
        BY <1>0, <3>1 DEF Guarding
      <4> HIDE DEF t
      <4>3. Succ[t] # NoJob => Succ[t] \in Task /\ Succ[t] # a
        BY <2>1, <4>1, Writers
      <4>4. tokens'[t] >= tokens[t] /\ tokens[t] \in Nat /\ tokens'[t] \in Nat
        BY <1>0, <2>1, <4>1 DEF Channels
      <4>5. Succ[t] # NoJob => used'[Succ[t]] = used[Succ[t]]
        BY <1>0, <2>1, <4>3 DEF Channels
      <4>6. enabled(t, tokens', used')
        BY <4>2, <4>4, <4>5 DEF enabled
      <4> QED  BY <2>1, <4>6 DEF Guarding, t
    <3> QED  BY <2>1, <3>1 DEF Guarding
  <2> QED  BY <2>2, <2>3, <2>4 DEF Flow
<1>2. ASSUME NEW m \in Msg, MessageArrival(m)  PROVE Flow'
  <2>1. /\ m \in Sources /\ readyMsgTasks' = Append(readyMsgTasks, m)
        /\ thread' = notified(thread)
        /\ observers' = told(observers, "ALLOCATE", m, powerConsumption)
        /\ UNCHANGED <<tokens, used, fireActorInLoop, latencyQueue, running, actualTask,
                       at, next, progress, wake, powerConsumption>>
    BY <1>2 DEF MessageArrival, allocated
  <2>2. observers' \in Watched
    BY <1>0, <2>1, Noticed DEF Job
  <2>3. Computing'
    BY <1>0, <2>1, <2>2 DEF Computing
  <2>4. Channels'
    <3>1. ASSUME NEW t \in Task
          PROVE  coming(t)' = coming(t)
      <4>1. m \notin Feeders(t)
        BY <2>1, Destinations DEF Feeders
      <4>2. count(readyMsgTasks', Feeders(t)) = count(readyMsgTasks, Feeders(t)) + one(m \in Feeders(t))
        BY <1>0, <2>1, HitsAppended
      <4>3. count(readyMsgTasks, Feeders(t)) \in Nat
        BY <1>0, Numbers
      <4> QED  BY <2>1, <4>1, <4>2, <4>3 DEF coming, one
    <3> QED  BY <1>0, <2>1, <3>1 DEF Channels, reading
  <2>5. Guarding'
    BY <1>0, <2>1 DEF Guarding
  <2> QED  BY <2>3, <2>4, <2>5 DEF Flow
<1>3. ASSUME NEW mode \in PowerModes, ChangePowerMode(mode)  PROVE Flow'
  <2>1. /\ observers' = Component!componentOperation(observers, powerConsumption)
        /\ UNCHANGED <<tokens, used, fireActorInLoop, latencyQueue, running, actualTask,
                       at, next, progress, wake, powerConsumption, readyMsgTasks, thread>>
    BY <1>3 DEF ChangePowerMode
  <2>2. observers' \in Watched
    BY <1>0, <2>1, PowerTyped DEF Computing
  <2>3. Computing'
    BY <1>0, <2>1, <2>2 DEF Computing
  <2>4. Channels' /\ Guarding'
    BY <1>0, <2>1 DEF Channels, reading, coming, Guarding
  <2> QED  BY <2>3, <2>4 DEF Flow
<1>4. ASSUME LatencyExpires  PROVE Flow'
  <2>1. PICK i \in DOMAIN latencyQueue :
          /\ latencyQueue' = RemoveAt(latencyQueue, i)
          /\ tokens' = arrived(tokens, latencyQueue[i].job)
          /\ readyMsgTasks' = forwarded(latencyQueue[i].job)
          /\ observers' = told(observers, "FINISHLAT", latencyQueue[i].job, powerConsumption)
    BY <1>4 DEF LatencyExpires
  <2>2. /\ thread' \in {thread, notified(thread)}
        /\ UNCHANGED <<used, fireActorInLoop, running, actualTask, at, next, progress, wake,
                       powerConsumption>>
    BY <1>4 DEF LatencyExpires, announce
  <2>3. PICK j \in Job : j = latencyQueue[i].job
    <3> DEFINE R == [job : Job, time : Int]
    <3>1. latencyQueue \in Seq(R)
      BY <1>0
    <3> HIDE DEF R
    <3>2. latencyQueue[i] \in R
      BY <3>1, SequenceElements
    <3> QED  BY <3>2 DEF R
  <2>4. latencyQueue' \in Seq([job : Job, time : Nat])
    <3> DEFINE R == [job : Job, time : Nat]
    <3>1. latencyQueue \in Seq(R)
      BY <1>0 DEF Computing
    <3> HIDE DEF R
    <3>2. latencyQueue' \in Seq(R)
      BY <2>1, <3>1, RemovedElements
    <3> QED  BY <3>2 DEF R
  <2>5. observers' \in Watched
    BY <1>0, <2>1, <2>3, Noticed
  <2>6. Computing'
    BY <1>0, <2>2, <2>4, <2>5 DEF Computing
  <2>7. /\ tokens' \in [Task -> Nat] /\ \A t \in Task : tokens'[t] >= tokens[t]
        /\ readyMsgTasks' \in Seq(Msg)
        /\ \A t \in Task :
             tokens'[t] + count(readyMsgTasks', Feeders(t))
               = tokens[t] + count(readyMsgTasks, Feeders(t)) + one(j \in Feeders(t))
    BY <1>0, <2>1, <2>3, PassedOn DEF Channels
  <2>8. Channels'
    <3>1. ASSUME NEW t \in Task
          PROVE  (used[t] = tokens[t] + reading(t) + coming(t))'
      <4>1. count(jobs(latencyQueue'), Feeders(t)) + one(j \in Feeders(t))
              = count(jobs(latencyQueue), Feeders(t))
        BY <1>0, <2>1, <2>3, JobRemoved
      <4>2. /\ count(jobs(latencyQueue'), Feeders(t)) \in Nat
            /\ count(jobs(latencyQueue), Feeders(t)) \in Nat
            /\ count(readyMsgTasks', Feeders(t)) \in Nat /\ count(readyMsgTasks, Feeders(t)) \in Nat
        <5>1. latencyQueue' \in Seq([job : Job, time : Nat])
          BY <2>4
        <5>2. /\ DOMAIN latencyQueue' = 1..Len(latencyQueue') /\ Len(latencyQueue') \in Nat
              /\ DOMAIN readyMsgTasks' = 1..Len(readyMsgTasks') /\ Len(readyMsgTasks') \in Nat
          BY <2>4, <2>7
        <5>3. DOMAIN jobs(latencyQueue') = DOMAIN latencyQueue'
          BY DEF jobs
        <5> QED  BY <1>0, <5>2, <5>3, Numbers, HitsFinite
      <4>3. used[t] = tokens[t] + reading(t) + coming(t) /\ tokens[t] \in Nat /\ tokens'[t] \in Nat
        BY <1>0, <2>7 DEF Channels
      <4>4. tokens'[t] + count(readyMsgTasks', Feeders(t))
               = tokens[t] + count(readyMsgTasks, Feeders(t)) + one(j \in Feeders(t))
        BY <2>7
      <4> QED
        BY <2>2, <4>1, <4>2, <4>3, <4>4 DEF reading, coming, one
    <3> QED  BY <1>0, <2>2, <2>7, <3>1 DEF Channels
  <2>9. Guarding'
    <3>1. CASE at = "guarded"
      <4> DEFINE t == TaskOrder[next]
      <4>1. t \in Task
        BY <1>0, <3>1, SequenceElements, RoundRobinAssumption DEF Computing
      <4>2. enabled(t, tokens, used)
        BY <1>0, <3>1 DEF Guarding
      <4> HIDE DEF t
      <4>3. tokens'[t] >= tokens[t] /\ tokens[t] \in Nat /\ tokens'[t] \in Nat
        BY <1>0, <2>7, <4>1 DEF Channels
      <4>4. enabled(t, tokens', used')
        BY <2>2, <4>2, <4>3 DEF enabled
      <4> QED  BY <2>2, <4>4 DEF Guarding, t
    <3> QED  BY <2>2, <3>1 DEF Guarding
  <2> QED  BY <2>6, <2>8, <2>9 DEF Flow
<1>5. ASSUME AdvanceTime  PROVE Flow'
  <2>1. /\ UNCHANGED <<tokens, used, fireActorInLoop, running, actualTask,
                       at, next, progress, powerConsumption, readyMsgTasks, thread>>
        /\ \/ thread = "event"
           \/ thread = "delay" /\ wake > 0
        /\ wake' = IF thread = "delay" THEN wake - 1 ELSE wake
        /\ \A i \in DOMAIN latencyQueue : latencyQueue[i].time > 0
        /\ latencyQueue' =
             [i \in DOMAIN latencyQueue |-> [latencyQueue[i] EXCEPT !.time = @ - 1]]
        /\ observers' = Component!elapsed(observers)
    BY <1>5 DEF AdvanceTime, Quiet
  <2>2. latencyQueue' \in Seq([job : Job, time : Nat]) /\ jobs(latencyQueue') = jobs(latencyQueue)
    <3> DEFINE R == [job : Job, time : Nat]
    <3>1. latencyQueue \in Seq(R)
      BY <1>0 DEF Computing
    <3>2. ASSUME NEW i \in DOMAIN latencyQueue
          PROVE  latencyQueue'[i] \in R /\ latencyQueue'[i].job = latencyQueue[i].job
      <4>1. latencyQueue[i] \in R
        <5> HIDE DEF R
        <5> QED  BY <3>1, SequenceElements
      <4>2. latencyQueue'[i] = [latencyQueue[i] EXCEPT !.time = @ - 1] /\ latencyQueue[i].time > 0
        BY <2>1
      <4> QED  BY <4>1, <4>2
    <3>3. DOMAIN latencyQueue' = DOMAIN latencyQueue
          /\ latencyQueue' = [i \in DOMAIN latencyQueue |-> latencyQueue'[i]]
      BY <2>1
    <3> HIDE DEF R
    <3>4. latencyQueue' \in Seq(R)
      BY <3>1, <3>2, <3>3, MappedSequence
    <3> QED  BY <3>2, <3>3, <3>4 DEF R, jobs
  <2>3. observers' \in Watched
    BY <1>0, <2>1, ElapsedTyped DEF Computing
  <2>4. wake' \in Nat
    BY <1>0, <2>1 DEF Computing
  <2>5. Computing'
    BY <1>0, <2>1, <2>2, <2>3, <2>4 DEF Computing
  <2>6. Channels' /\ Guarding'
    BY <1>0, <2>1, <2>2, ZenonT(60) DEF Channels, reading, coming, Guarding
  <2> QED  BY <2>5, <2>6 DEF Flow
<1> QED  BY <1>1, <1>2, <1>3, <1>4, <1>5

\* The end of wait(getDelay()): what it does to the channels.
LEMMA Finished ==
  ASSUME ObserverInv, Flow, thread = "delay", finishDii(running), thread' = "running",
         UNCHANGED <<fireActorInLoop, actualTask, at, next, progress, wake, powerMode>>
  PROVE  Flow'
<1> DEFINE j == running.job
<1>0. /\ readyMsgTasks \in Seq(Msg) /\ latencyQueue \in Seq([job : Job, time : Int])
      /\ powerMode \in PowerModes
      /\ Computing /\ Channels /\ Guarding /\ Known(running)
      /\ j \in Job /\ running.delay \in Nat /\ running.latency \in Nat
      /\ running.delay <= running.latency
      /\ running.type = "GUARD" => running.latency = running.delay
      /\ running.type = "MESSAGE" <=> j \in Msg
      /\ running.type \in {"ACTION", "GUARD", "MESSAGE"}
  BY DEF ObserverInv, Assigned, Flow, Computing, Known, Instance
<1>1. /\ used' = freed(used, running) /\ running' = None
      /\ powerConsumption' = PwrIdle[powerMode]
  BY DEF finishDii, powerIdle
<1>2. powerConsumption \in Nat /\ powerConsumption' \in Nat /\ observers \in Watched
  BY <1>0, <1>1, DurationsAssumption DEF Computing
<1>3. PICK d : d = told(observers, "FINISHDII", j, powerConsumption)
  OBVIOUS
<1>4. d \in Watched
  BY <1>0, <1>2, <1>3, ToldTyped DEF Operations
<1>5. told(d, "FINISHLAT", j, powerConsumption') \in Watched
  BY <1>0, <1>2, <1>4, ToldTyped DEF Operations
<1>6. observers' \in {d, told(d, "FINISHLAT", j, powerConsumption')}
  BY <1>3 DEF finishDii
<1>7. latencyQueue' \in Seq([job : Job, time : Nat])
  <2> DEFINE R == [job : Job, time : Nat]
             x == [job |-> j, time |-> running.latency - running.delay]
  <2>1. latencyQueue \in Seq(R) /\ x \in R
    BY <1>0 DEF Computing
  <2>2. latencyQueue' \in {latencyQueue, Append(latencyQueue, x)}
    BY DEF finishDii
  <2> HIDE DEF R, x
  <2>3. latencyQueue' \in Seq(R)
    BY <2>1, <2>2, AppendedElement
  <2> QED  BY <2>3 DEF R
<1>8. Computing'
  BY <1>0, <1>1, <1>2, <1>4, <1>5, <1>6, <1>7 DEF Computing
<1>9. CASE running.type = "GUARD"
  <2>1. /\ UNCHANGED <<tokens, used, readyMsgTasks, latencyQueue>>
    BY <1>0, <1>1, <1>9 DEF finishDii, freed
  <2>2. ASSUME NEW t \in Task
        PROVE  reading(t)' = reading(t) /\ coming(t)' = coming(t)
    BY <1>1, <1>9, <2>1, NoneRuns DEF reading, coming, one
  <2>3. Channels' /\ Guarding'
    BY <1>0, <2>1, <2>2 DEF Channels, Guarding
  <2> QED  BY <1>8, <2>3 DEF Flow
<1>10. CASE running.type # "GUARD"
  <2>1. j \in Task <=> running.type = "ACTION"
    BY <1>0, <1>10, RoundRobinAssumption DEF Job
  <2>2. /\ used' \in [Task -> Int]
        /\ \A t \in Task : used'[t] = used[t] - one(j = t /\ running.type = "ACTION")
    <3>1. CASE running.type = "ACTION"
      BY <1>0, <1>1, <2>1, <3>1, RoundRobinAssumption DEF freed, one, Channels
    <3>2. CASE running.type # "ACTION"
      BY <1>0, <1>1, <3>2, RoundRobinAssumption DEF freed, one, Channels
    <3> QED  BY <3>1, <3>2
  <2>3. /\ tokens' \in [Task -> Nat] /\ \A t \in Task : tokens'[t] >= tokens[t]
        /\ readyMsgTasks' \in Seq(Msg)
        /\ \A t \in Task :
             tokens'[t] + count(readyMsgTasks', Feeders(t)) + count(jobs(latencyQueue'), Feeders(t))
               = tokens[t] + count(readyMsgTasks, Feeders(t)) + count(jobs(latencyQueue), Feeders(t))
                 + one(j \in Feeders(t))
    <3>1. CASE running.latency = running.delay
      <4>1. tokens' = arrived(tokens, j) /\ readyMsgTasks' = forwarded(j) /\ latencyQueue' = latencyQueue
        BY <1>10, <3>1 DEF finishDii
      <4>2. /\ tokens' \in [Task -> Nat] /\ \A t \in Task : tokens'[t] >= tokens[t]
            /\ readyMsgTasks' \in Seq(Msg)
            /\ \A t \in Task :
                 tokens'[t] + count(readyMsgTasks', Feeders(t))
                   = tokens[t] + count(readyMsgTasks, Feeders(t)) + one(j \in Feeders(t))
        BY <1>0, <4>1, PassedOn DEF Channels
      <4>3. ASSUME NEW t \in Task
            PROVE  tokens'[t] + count(readyMsgTasks', Feeders(t)) + count(jobs(latencyQueue'), Feeders(t))
               = tokens[t] + count(readyMsgTasks, Feeders(t)) + count(jobs(latencyQueue), Feeders(t))
                 + one(j \in Feeders(t))
        <5>1. /\ count(jobs(latencyQueue), Feeders(t)) \in Nat
              /\ count(readyMsgTasks, Feeders(t)) \in Nat /\ tokens[t] \in Nat
              /\ one(j \in Feeders(t)) \in Nat
          BY <1>0, Numbers DEF one, Channels
        <5>2. count(jobs(latencyQueue'), Feeders(t)) = count(jobs(latencyQueue), Feeders(t))
          BY <4>1
        <5>3. count(readyMsgTasks', Feeders(t)) \in Nat /\ tokens'[t] \in Nat
          <6>1. DOMAIN readyMsgTasks' = 1..Len(readyMsgTasks') /\ Len(readyMsgTasks') \in Nat
            BY <4>2
          <6> QED  BY <4>2, <6>1, HitsFinite
        <5> QED  BY <4>2, <5>1, <5>2, <5>3
      <4> QED  BY <4>2, <4>3
    <3>2. CASE running.latency # running.delay
      <4>1. /\ UNCHANGED <<tokens, readyMsgTasks>>
            /\ latencyQueue' = Append(latencyQueue, [job |-> j, time |-> running.latency - running.delay])
        BY <3>2 DEF finishDii
      <4>2. jobs(latencyQueue') = Append(jobs(latencyQueue), j) /\ jobs(latencyQueue) \in Seq(Job)
        <5> DEFINE R == [job : Job, time : Int]
                   x == [job |-> j, time |-> running.latency - running.delay]
        <5>1. jobs(latencyQueue) \in Seq(Job) /\ x.job = j
          BY <1>0, JobsListed
        <5>2. latencyQueue \in Seq(R) /\ latencyQueue' = Append(latencyQueue, x)
          BY <1>0, <4>1
        <5> HIDE DEF R, x
        <5> QED  BY <5>1, <5>2, JobsAppended
      <4>3. ASSUME NEW t \in Task
            PROVE  tokens'[t] + count(readyMsgTasks', Feeders(t)) + count(jobs(latencyQueue'), Feeders(t))
               = tokens[t] + count(readyMsgTasks, Feeders(t)) + count(jobs(latencyQueue), Feeders(t))
                 + one(j \in Feeders(t))
        <5>1. count(jobs(latencyQueue'), Feeders(t))
                = count(jobs(latencyQueue), Feeders(t)) + one(j \in Feeders(t))
          BY <4>2, HitsAppended
        <5>2. /\ count(jobs(latencyQueue), Feeders(t)) \in Nat
              /\ count(readyMsgTasks, Feeders(t)) \in Nat /\ tokens[t] \in Nat
              /\ one(j \in Feeders(t)) \in Nat
          BY <1>0, Numbers DEF one, Channels
        <5> QED  BY <4>1, <5>1, <5>2
      <4>4. \A t \in Task : tokens'[t] >= tokens[t]
        BY <1>0, <4>1 DEF Channels
      <4> QED  BY <1>0, <4>1, <4>3, <4>4 DEF Channels
    <3> QED  BY <3>1, <3>2
  <2>4. ASSUME NEW t \in Task
        PROVE  (used[t] = tokens[t] + reading(t) + coming(t))' /\ used'[t] \in 0..Capacity
    <3>1. /\ used[t] = tokens[t] + reading(t) + coming(t) /\ tokens[t] \in Nat /\ tokens'[t] \in Nat
          /\ used[t] \in 0..Capacity
      BY <1>0, <2>3 DEF Channels
    <3>2. /\ count(jobs(latencyQueue), Feeders(t)) \in Nat /\ count(readyMsgTasks, Feeders(t)) \in Nat
          /\ count(jobs(latencyQueue'), Feeders(t)) \in Nat /\ count(readyMsgTasks', Feeders(t)) \in Nat
      <4>1. latencyQueue' \in Seq([job : Job, time : Nat])
        BY <1>7
      <4>2. /\ DOMAIN latencyQueue' = 1..Len(latencyQueue') /\ Len(latencyQueue') \in Nat
            /\ DOMAIN readyMsgTasks' = 1..Len(readyMsgTasks') /\ Len(readyMsgTasks') \in Nat
        BY <2>3, <4>1
      <4>3. DOMAIN jobs(latencyQueue') = DOMAIN latencyQueue'
        BY DEF jobs
      <4> QED  BY <1>0, <4>2, <4>3, Numbers, HitsFinite
    <3>3. PICK a, b, c, e : /\ a = one(actualTask.job = t)
                            /\ b = one(j = t /\ running.type = "ACTION")
                            /\ c = one(actualTask.job \in Feeders(t))
                            /\ e = one(j \in Feeders(t))
      OBVIOUS
    <3>4. a \in {0, 1} /\ b \in {0, 1} /\ c \in {0, 1} /\ e \in {0, 1}
      BY <3>3 DEF one
    <3>5. used'[t] = used[t] - b
      BY <2>2, <3>3
    <3>6. tokens'[t] + count(readyMsgTasks', Feeders(t)) + count(jobs(latencyQueue'), Feeders(t))
            = tokens[t] + count(readyMsgTasks, Feeders(t)) + count(jobs(latencyQueue), Feeders(t)) + e
      BY <2>3, <3>3
    <3>7. reading(t) = a + b /\ reading(t)' = a + 0
      <4>1. running'.job # t
        BY <1>1, NoneRuns
      <4> QED  BY <3>3, <4>1 DEF reading, one
    <3>8. /\ coming(t) = count(jobs(latencyQueue), Feeders(t)) + count(readyMsgTasks, Feeders(t)) + c + e
          /\ coming(t)' = count(jobs(latencyQueue'), Feeders(t)) + count(readyMsgTasks', Feeders(t)) + c + 0
      <4>1. running'.job \notin Feeders(t)
        BY <1>1, NoneRuns
      <4> QED  BY <1>10, <3>3, <4>1 DEF coming, one
    <3>9. (used[t] = tokens[t] + reading(t) + coming(t))'
      BY <3>1, <3>2, <3>4, <3>5, <3>6, <3>7, <3>8
    <3>10. used'[t] >= 0 /\ used'[t] <= used[t]
      <4>1. PICK u \in Nat, k \in Nat, r \in Nat, x \in Nat :
              /\ u = used[t] /\ k = tokens[t] /\ r = count(jobs(latencyQueue), Feeders(t))
              /\ x = count(readyMsgTasks, Feeders(t))
        BY <3>1, <3>2, RoundRobinAssumption
      <4>2. u = k + (a + b) + (r + x + c + e)
        BY <3>1, <3>7, <3>8, <4>1
      <4>3. u - b >= 0 /\ u - b <= u
        BY <3>4, <4>2
      <4> QED  BY <3>5, <4>1, <4>3
    <3> QED  BY <3>1, <3>4, <3>5, <3>9, <3>10, RoundRobinAssumption
  <2>5. used' \in [Task -> 0..Capacity]
    BY <2>2, <2>4
  <2>6. Channels'
    BY <2>3, <2>4, <2>5 DEF Channels
  <2>7. Guarding'
    <3>1. CASE at = "guarded"
      <4> DEFINE t == TaskOrder[next]
      <4>1. t \in Task
        BY <1>0, <3>1, SequenceElements, RoundRobinAssumption DEF Computing
      <4>2. enabled(t, tokens, used)
        BY <1>0, <3>1 DEF Guarding
      <4> HIDE DEF t
      <4>3. tokens'[t] >= tokens[t] /\ tokens[t] \in Nat /\ tokens'[t] \in Nat
        BY <1>0, <2>3, <4>1 DEF Channels
      <4>4. Succ[t] # NoJob => used'[Succ[t]] <= used[Succ[t]] /\ used[Succ[t]] \in Nat /\ used'[Succ[t]] \in Nat
        <5> SUFFICES ASSUME Succ[t] # NoJob
                     PROVE  /\ used'[Succ[t]] <= used[Succ[t]]
                            /\ used[Succ[t]] \in Nat /\ used'[Succ[t]] \in Nat
          OBVIOUS
        <5>1. PICK u \in Task : u = Succ[t]
          BY <4>1, Writers
        <5>2. used[u] \in Nat /\ used'[u] \in Nat
          BY <1>0, <2>5, RoundRobinAssumption DEF Channels
        <5>3. used'[u] = used[u] - one(j = u /\ running.type = "ACTION")
          BY <2>2
        <5>4. one(j = u /\ running.type = "ACTION") \in {0, 1}
          BY DEF one
        <5> QED  BY <5>1, <5>2, <5>3, <5>4
      <4>5. enabled(t, tokens', used')
        BY <4>2, <4>3, <4>4, RoundRobinAssumption DEF enabled
      <4> QED  BY <4>5 DEF Guarding, t
    <3> QED  BY <3>1 DEF Guarding
  <2> QED  BY <1>8, <2>6, <2>7 DEF Flow
<1> QED  BY <1>9, <1>10

LEMMA FlowOfThread ==
  ASSUME ObserverInv, Flow, Thread
  PROVE  Flow'
<1> USE DEF channels, place, power, Runs
<1>0. /\ thread \in {"runnable", "running"} => running = None
      /\ powerMode \in PowerModes
      /\ readyMsgTasks \in Seq(Msg) /\ latencyQueue \in Seq([job : Job, time : Int])
      /\ Computing /\ Channels /\ Guarding
      /\ Len(TaskOrder) \in Nat /\ DOMAIN TaskOrder = 1..Len(TaskOrder)
  BY RoundRobinAssumption DEF ObserverInv, Assigned, Flow
<1>1. CASE StartMessage
  <2> DEFINE i == message(Head(readyMsgTasks))
  <2>1. /\ thread \in {"runnable", "running"} /\ readyMsgTasks # <<>>
        /\ Execute(i) /\ readyMsgTasks' = Tail(readyMsgTasks) /\ at # "guarded"
        /\ progress' = (progress \/ at = "top")
        /\ UNCHANGED <<tokens, used, fireActorInLoop, latencyQueue, actualTask, at, next>>
    BY <1>1 DEF StartMessage
  <2>2. PICK m \in Msg : m = Head(readyMsgTasks)
    BY <1>0, <2>1
  <2>3. Known(i) /\ i.job = m /\ i.type = "MESSAGE"
    BY <1>0, <2>2, InstancesKnown
  <2> HIDE DEF i
  <2>4. /\ running' = i /\ thread' = "delay" /\ wake' \in Nat /\ powerConsumption' \in Nat
        /\ observers' \in Watched
    BY <1>0, <2>1, <2>3, Started
  <2>5. Computing'
    BY <1>0, <2>1, <2>3, <2>4 DEF Computing
  <2>6. Channels'
    <3>1. ASSUME NEW t \in Task
          PROVE  reading(t)' = reading(t) /\ coming(t)' = coming(t)
      <4>1. reading(t)' = reading(t)
        BY <1>0, <2>1, <2>3, <2>4, NoneRuns DEF reading, one
      <4>2. count(readyMsgTasks', Feeders(t)) + one(m \in Feeders(t)) = count(readyMsgTasks, Feeders(t))
        BY <1>0, <2>1, <2>2, HeadRemoved
      <4>3. PICK a \in {0, 1} : a = one(m \in Feeders(t))
        BY DEF one
      <4>4. PICK b \in {0, 1} : b = one(actualTask.job \in Feeders(t))
        BY DEF one
      <4>5. /\ count(jobs(latencyQueue), Feeders(t)) \in Nat
            /\ count(readyMsgTasks', Feeders(t)) \in Nat
        <5>1. DOMAIN readyMsgTasks' = 1..Len(readyMsgTasks') /\ Len(readyMsgTasks') \in Nat
          BY <1>0, <2>1
        <5> QED  BY <1>0, <5>1, Numbers, HitsFinite
      <4>6. coming(t) = count(jobs(latencyQueue), Feeders(t)) + count(readyMsgTasks, Feeders(t)) + b + 0
        BY <1>0, <2>1, <4>4, NoneRuns DEF coming, one
      <4>7. coming(t)' = count(jobs(latencyQueue), Feeders(t)) + count(readyMsgTasks', Feeders(t)) + b + a
        BY <2>1, <2>3, <2>4, <4>3, <4>4 DEF coming, one
      <4> QED  BY <4>1, <4>2, <4>3, <4>4, <4>5, <4>6, <4>7
    <3> QED  BY <1>0, <2>1, <3>1 DEF Channels
  <2>7. Guarding'
    BY <2>1 DEF Guarding
  <2> QED  BY <2>5, <2>6, <2>7 DEF Flow
<1>2. CASE BeginRound
  <2>1. /\ UNCHANGED <<running, wake, powerConsumption, observers, latencyQueue, tokens, used,
                       fireActorInLoop, actualTask, readyMsgTasks, progress>>
        /\ thread' = "running" /\ at = "top" /\ at' = "poll" /\ next' = 1
    BY <1>2 DEF BeginRound
  <2> QED
    BY <1>0, <2>1 DEF Flow, Computing, Channels, reading, coming, Guarding
<1>3. CASE Skip
  <2>1. /\ UNCHANGED <<running, wake, powerConsumption, observers, latencyQueue, tokens, used,
                       fireActorInLoop, actualTask, readyMsgTasks, progress>>
        /\ thread' = "running" /\ at' = "poll" /\ at \in {"poll", "guarded"}
        /\ next \in DOMAIN TaskOrder /\ next' = next + 1
    BY <1>0, <1>3 DEF Skip, Computing
  <2>2. next' \in 1..(Len(TaskOrder) + 1)
    BY <1>0, <2>1
  <2> QED
    BY <1>0, <2>1, <2>2 DEF Flow, Computing, Channels, reading, coming, Guarding
<1>4. CASE CheckGuard
  <2> DEFINE t == TaskOrder[next]
             i == checkFiringRule(t)
  <2>1. /\ thread \in {"runnable", "running"} /\ at = "poll" /\ next \in DOMAIN TaskOrder
        /\ enabled(t, tokens, used) /\ Execute(i) /\ at' = "guarded"
        /\ UNCHANGED <<tokens, used, fireActorInLoop, latencyQueue, actualTask, next,
                       readyMsgTasks, progress>>
    BY <1>4 DEF CheckGuard
  <2>2. t \in Task
    BY <2>1, SequenceElements, RoundRobinAssumption
  <2>3. Known(i) /\ i.job = t /\ i.type = "GUARD"
    BY <1>0, <2>2, InstancesKnown
  <2> HIDE DEF i
  <2>4. /\ running' = i /\ thread' = "delay" /\ wake' \in Nat /\ powerConsumption' \in Nat
        /\ observers' \in Watched
    BY <1>0, <2>1, <2>3, Started
  <2>5. Computing'
    BY <1>0, <2>1, <2>3, <2>4 DEF Computing
  <2>6. Channels'
    <3>1. ASSUME NEW u \in Task
          PROVE  reading(u)' = reading(u) /\ coming(u)' = coming(u)
      BY <1>0, <2>1, <2>3, <2>4, NoneRuns DEF reading, coming, one
    <3> QED  BY <1>0, <2>1, <3>1 DEF Channels
  <2>7. Guarding'
    BY <2>1 DEF Guarding
  <2> QED  BY <2>5, <2>6, <2>7 DEF Flow
<1>5. CASE Fire
  <2>1. PICK t \in Task :
          /\ t = TaskOrder[next] /\ enabled(t, tokens, used)
          /\ tokens' = [tokens EXCEPT ![t] = @ - 1]
          /\ used' = IF Succ[t] = NoJob THEN used ELSE [used EXCEPT ![Succ[t]] = @ + 1]
          /\ actualTask' = executeFiringRule(t)
          /\ observers' = told(observers, "ALLOCATE", t, powerConsumption)
    <3>1. next \in DOMAIN TaskOrder /\ enabled(TaskOrder[next], tokens, used)
      BY <1>0, <1>5 DEF Fire, Computing, Guarding
    <3>2. TaskOrder[next] \in Task
      BY <3>1, SequenceElements, RoundRobinAssumption
    <3> QED  BY <1>5, <3>1, <3>2 DEF Fire, allocated
  <2>2. /\ thread \in {"runnable", "running"} /\ at \in {"guarded", "poll"}
        /\ thread' = "running" /\ at' = "compute" /\ progress' = TRUE
        /\ next \in DOMAIN TaskOrder
        /\ UNCHANGED <<fireActorInLoop, readyMsgTasks, latencyQueue, running, next, wake,
                       powerConsumption>>
    BY <1>0, <1>5 DEF Fire, Computing
  <2>3. Known(actualTask') /\ actualTask'.job = t /\ actualTask'.type = "ACTION"
    BY <1>0, <2>1, InstancesKnown
  <2>4. observers' \in Watched
    BY <1>0, <2>1, Noticed DEF Job
  <2>5. Computing'
    BY <1>0, <2>2, <2>3, <2>4 DEF Computing
  <2>6. actualTask = None /\ running = None
    BY <1>0, <2>2 DEF Computing
  <2>7. /\ tokens[t] \in Nat /\ tokens[t] > 0
        /\ Succ[t] # NoJob => Succ[t] \in Task
        /\ Succ[t] # NoJob => used[Succ[t]] < Capacity
    BY <1>0, <2>1, Writers DEF enabled, Channels
  <2>8. tokens' \in [Task -> Nat] /\ used' \in [Task -> 0..Capacity]
    <3>1. tokens' \in [Task -> Nat]
      BY <1>0, <2>1, <2>7 DEF Channels
    <3>2. CASE Succ[t] = NoJob
      BY <1>0, <2>1, <3>1, <3>2 DEF Channels
    <3>3. CASE Succ[t] # NoJob
      <4>1. PICK u \in Task : u = Succ[t]
        BY <2>7, <3>3
      <4>2. used[u] \in 0..Capacity /\ used[u] < Capacity
        BY <1>0, <2>7, <3>3, <4>1 DEF Channels
      <4>3. used[u] + 1 \in 0..Capacity
        BY <4>2, RoundRobinAssumption
      <4>4. used' = [used EXCEPT ![u] = @ + 1]
        BY <2>1, <3>3, <4>1
      <4> QED  BY <1>0, <3>1, <4>3, <4>4 DEF Channels
    <3> QED  BY <3>2, <3>3
  <2>9. ASSUME NEW u \in Task
        PROVE  (used[u] = tokens[u] + reading(u) + coming(u))'
    <3>1. PICK a \in {0, 1} : a = one(t = u)
      BY DEF one
    <3>2. PICK b \in {0, 1} : b = one(Succ[t] = u)
      BY DEF one
    <3>3. tokens'[u] = tokens[u] - a /\ tokens[u] \in Nat
      BY <1>0, <2>1, <3>1 DEF Channels, one
    <3>4. used'[u] = used[u] + b /\ used[u] \in Nat
      <4>1. u # NoJob
        BY Destinations
      <4>2. used \in [Task -> Nat]
        BY <1>0, RoundRobinAssumption DEF Channels
      <4>3. CASE Succ[t] = u
        BY <2>1, <3>2, <4>1, <4>2, <4>3 DEF one
      <4>4. CASE Succ[t] # u
        BY <2>1, <3>2, <4>1, <4>2, <4>4 DEF one
      <4> QED  BY <4>3, <4>4
    <3>5. reading(u) = 0 /\ reading(u)' = a + 0
      BY <2>2, <2>3, <2>6, <3>1, NoneRuns DEF reading, one
    <3>6. t \in Feeders(u) <=> Succ[t] = u
      BY Destinations DEF Feeders, Job
    <3>7. /\ count(jobs(latencyQueue), Feeders(u)) \in Nat
          /\ count(readyMsgTasks, Feeders(u)) \in Nat
      BY <1>0, Numbers
    <3>8. coming(u) = count(jobs(latencyQueue), Feeders(u)) + count(readyMsgTasks, Feeders(u)) + 0 + 0
      BY <2>6, NoneRuns DEF coming, one
    <3>9. coming(u)' = count(jobs(latencyQueue), Feeders(u)) + count(readyMsgTasks, Feeders(u)) + b + 0
      BY <2>2, <2>3, <2>6, <3>2, <3>6, NoneRuns DEF coming, one
    <3>10. used[u] = tokens[u] + reading(u) + coming(u)
      BY <1>0 DEF Channels
    <3> QED
      BY <3>1, <3>2, <3>3, <3>4, <3>5, <3>7, <3>8, <3>9, <3>10
  <2>10. Channels'
    BY <2>8, <2>9 DEF Channels
  <2>11. Guarding'
    BY <2>2 DEF Guarding
  <2> QED  BY <2>5, <2>10, <2>11 DEF Flow
<1>6. CASE Compute
  <2>1. /\ thread \in {"runnable", "running"} /\ at = "compute"
        /\ Execute(actualTask) /\ at' = "fired" /\ actualTask' = None
        /\ UNCHANGED <<tokens, used, fireActorInLoop, latencyQueue, next, readyMsgTasks, progress>>
    BY <1>6 DEF Compute
  <2>2. Known(actualTask) /\ actualTask.type = "ACTION" /\ running = None
    BY <1>0, <2>1 DEF Computing
  <2>3. /\ running' = actualTask /\ thread' = "delay" /\ wake' \in Nat /\ powerConsumption' \in Nat
        /\ observers' \in Watched
    BY <1>0, <2>1, <2>2, Started
  <2>4. Computing'
    BY <1>0, <2>1, <2>2, <2>3 DEF Computing
  <2>5. Channels'
    <3>1. ASSUME NEW u \in Task
          PROVE  reading(u)' = reading(u) /\ coming(u)' = coming(u)
      <4>1. reading(u)' = reading(u)
        BY <2>1, <2>2, <2>3, NoneRuns DEF reading, one
      <4>2. PICK a \in {0, 1} : a = one(actualTask.job \in Feeders(u))
        BY DEF one
      <4>3. /\ count(jobs(latencyQueue), Feeders(u)) \in Nat
            /\ count(readyMsgTasks, Feeders(u)) \in Nat
        BY <1>0, Numbers
      <4>4. /\ coming(u) = count(jobs(latencyQueue), Feeders(u)) + count(readyMsgTasks, Feeders(u)) + a + 0
            /\ coming(u)' = count(jobs(latencyQueue), Feeders(u)) + count(readyMsgTasks, Feeders(u)) + 0 + a
        BY <2>1, <2>2, <2>3, <4>2, NoneRuns DEF coming, one
      <4> QED  BY <4>1, <4>2, <4>3, <4>4
    <3> QED  BY <1>0, <2>1, <3>1 DEF Channels
  <2>6. Guarding'
    BY <2>1 DEF Guarding
  <2> QED  BY <2>4, <2>5, <2>6 DEF Flow
<1>7. CASE Timeout
  <2>1. /\ thread = "delay" /\ finishDii(running) /\ thread' = "running"
        /\ UNCHANGED <<fireActorInLoop, actualTask, at, next, progress, wake, powerMode>>
    BY <1>7 DEF Timeout
  <2> QED  BY <2>1, Finished
<1>8. CASE AfterFiring
  <2>1. /\ UNCHANGED <<running, wake, powerConsumption, observers, latencyQueue, tokens, used,
                       fireActorInLoop, actualTask, readyMsgTasks, progress>>
        /\ thread' = "running" /\ at = "fired" /\ at' = "poll" /\ next' \in {next, next + 1}
    BY <1>8 DEF AfterFiring
  <2>2. next' \in 1..(Len(TaskOrder) + 1)
    BY <1>0, <2>1 DEF Computing
  <2> QED
    BY <1>0, <2>1, <2>2 DEF Flow, Computing, Channels, reading, coming, Guarding
<1>9. CASE EndRound
  <2>1. /\ UNCHANGED <<running, wake, powerConsumption, observers, latencyQueue, tokens, used,
                       fireActorInLoop, actualTask, readyMsgTasks, next>>
        /\ thread' \in {"running", "event"} /\ at = "poll" /\ at' \in {"top", "asleep"}
        /\ progress' \in {progress, FALSE}
    BY <1>9 DEF EndRound
  <2> QED
    BY <1>0, <2>1 DEF Flow, Computing, Channels, reading, coming, Guarding
<1>10. CASE Awake
  <2>1. /\ UNCHANGED <<running, wake, powerConsumption, observers, latencyQueue, tokens, used,
                       fireActorInLoop, actualTask, readyMsgTasks, next>>
        /\ thread' \in {"running", "event"} /\ at = "asleep" /\ at' \in {"top", "asleep"}
        /\ progress' \in {progress, FALSE}
    BY <1>10 DEF Awake
  <2> QED
    BY <1>0, <2>1 DEF Flow, Computing, Channels, reading, coming, Guarding
<1> QED
  BY <1>1, <1>2, <1>3, <1>4, <1>5, <1>6, <1>7, <1>8, <1>9, <1>10 DEF Thread

\* In every reachable state each place that is taken is accounted for.
THEOREM FlowInvariant == Spec => []Flow
<1>1. Flow /\ UNCHANGED vars => Flow'
  BY DEF Flow, Computing, Channels, reading, coming, Guarding, vars, channels, place, power
<1>2. ObserverInv /\ Flow /\ [Next]_vars => Flow'
  BY <1>1, FlowOfSurroundings, FlowOfThread DEF Next
<1> QED  BY FlowInitially, ObserversInvariant, <1>2, PTL DEF Spec

\* No channel is filled beyond its size and none is read that is empty, though
\* the places that are freed at the end of a firing were taken at its start;
\* and all other variables, those of the observers too, are of their types.
THEOREM TypeCorrectness == Spec => []TypeOK
<1>1. IInv /\ ObserverInv /\ Flow => TypeOK
  <2> SUFFICES ASSUME IInv, ObserverInv, Flow  PROVE TypeOK
    OBVIOUS
  <2>1. /\ thread \in {"runnable", "running", "delay", "event"} /\ useActivationCallback \in BOOLEAN
        /\ powerMode \in PowerModes /\ readyMsgTasks \in Seq(Msg)
        /\ thread # "delay" => running = None
        /\ holds \in GuardValues /\ overtaken \subseteq Msg
    BY DEF IInv, Types, ObserverInv, Assigned
  <2>2. Computing /\ Channels
    BY DEF Flow
  <2>3. running \in Instance \cup {None} /\ actualTask \in Instance \cup {None}
    BY <2>1, <2>2 DEF Computing, Known
  <2>4. tokens \in [Task -> 0..Capacity]
    <3> SUFFICES ASSUME NEW t \in Task  PROVE tokens[t] \in 0..Capacity
      BY <2>2 DEF Channels
    <3>1. /\ tokens[t] \in Nat /\ used[t] \in 0..Capacity
          /\ used[t] = tokens[t] + reading(t) + coming(t)
      BY <2>2 DEF Channels
    <3>2. reading(t) \in Nat
      BY DEF reading, one
    <3>3. coming(t) \in Nat
      <4>1. /\ count(readyMsgTasks, Feeders(t)) \in Nat
            /\ count(jobs(latencyQueue), Feeders(t)) \in Nat
        BY Numbers DEF ObserverInv, Assigned
      <4> QED  BY <4>1 DEF coming, one
    <3> QED  BY <3>1, <3>2, <3>3, RoundRobinAssumption
  <2> QED  BY <2>1, <2>2, <2>3, <2>4 DEF Computing, Channels, TypeOK, Watched
<1> QED  BY Inductive, ObserversInvariant, FlowInvariant, <1>1, PTL

-----------------------------------------------------------------------------
(* The deadlines of a configuration that can be supervised: one is active   *)
(* for each place that an end actor has in its input channel, but for the   *)
(* firing of the start actor that has reserved it and is to be released     *)
(* yet, and for each of the end actor's firings whose latency is not over.  *)

\* End actor e is named by an attribute of start actor d.
Pair(d, e) ==
  \E i \in DOMAIN DeadlineInfos : \E k \in DOMAIN DeadlineInfos[i].ends :
    DeadlineInfos[i].start = d /\ DeadlineInfos[i].ends[k].end = e

\* How many deadlines of e the release of t begins.
begins(t, e) ==
  LET ends == Component!Monitor!matched(t)
  IN  Cardinality({k \in DOMAIN ends : ends[k].end = e})

Supervision(d, e) ==
  IF d = e
  THEN active(observers.monitor, d) = count(jobs(latencyQueue), {d}) + one(running.job = d)
  ELSE /\ active(observers.monitor, e) + one(actualTask.job = d)
            = used[e] + count(jobs(latencyQueue), {e})
       /\ observers.monitor.reportGroupReport[e] # NoJob

Deadlines ==
  /\ \A t \in Job : observers.monitor.endActors[t] = Component!Monitor!matched(t)
  /\ running.type = "GUARD" => guarded(running.job)
  /\ \A d, e \in Job : Pair(d, e) => Supervision(d, e)

\* What is known of a pair when the configuration can be supervised.
LEMMA PairFacts ==
  ASSUME Supervisable, NEW d, NEW e, Pair(d, e)
  PROVE  /\ d \in Job /\ e \in Job
         /\ \A t \in Job : begins(t, e) = one(t = d)
         /\ d # e =>
              /\ d \in Task /\ e \in Task /\ ~guarded(d) /\ ~guarded(e)
              /\ Succ[d] = e /\ e \notin Sources /\ \A t \in Task : Succ[t] = e => t = d
<1>0. PICK i \in DOMAIN DeadlineInfos : \E k \in DOMAIN DeadlineInfos[i].ends :
        DeadlineInfos[i].start = d /\ DeadlineInfos[i].ends[k].end = e
  BY DEF Pair
<1>1. PICK k \in DOMAIN DeadlineInfos[i].ends :
        DeadlineInfos[i].start = d /\ DeadlineInfos[i].ends[k].end = e
  BY <1>0
<1>2. d \in Job /\ e \in Job
  BY <1>1, DeadlineTypes
<1>3. /\ i = Len(DeadlineInfos)
      /\ \A l \in DOMAIN DeadlineInfos[i].ends : DeadlineInfos[i].ends[l].end = e => l = k
      /\ d # e => {d, e} \subseteq Task /\ ~guarded(d) /\ ~guarded(e) /\ Succ[d] = e
  BY <1>1 DEF Supervisable
<1>4. DeadlineInfos # <<>>
  BY <1>1
<1>5. ASSUME NEW t \in Job
      PROVE  begins(t, e) = one(t = d)
  <2> DEFINE K == {l \in DOMAIN Component!Monitor!matched(t) :
                     Component!Monitor!matched(t)[l].end = e}
  <2>1. CASE t = d
    <3>1. Component!Monitor!matched(t) = DeadlineInfos[i].ends
      BY <1>1, <1>3, <1>4, <2>1 DEF Component!Monitor!matched
    <3>2. K = {k}
      BY <1>1, <1>3, <3>1
    <3>3. Cardinality({k}) = 1
      BY FS_Singleton
    <3> HIDE DEF K
    <3> QED  BY <2>1, <3>2, <3>3 DEF K, one, begins
  <2>2. CASE t # d
    <3>1. Component!Monitor!matched(t) = <<>>
      BY <1>1, <1>3, <2>2 DEF Component!Monitor!matched
    <3>2. K = {}
      BY <3>1
    <3>3. Cardinality({}) = 0
      BY FS_EmptySet
    <3> HIDE DEF K
    <3>4. Cardinality(K) = 0
      BY <3>2, <3>3, Zenon
    <3> QED  BY <2>2, <3>4 DEF K, one, begins
  <2> QED  BY <2>1, <2>2
<1>6. ASSUME d # e
      PROVE  e \notin Sources /\ \A t \in Task : Succ[t] = e => t = d
  <2>1. d \in Task /\ e \in Task /\ Succ[d] = e /\ e # NoJob
    BY <1>3, <1>6, RoundRobinAssumption DEF Job
  <2> QED  BY <2>1, Writers
<1> QED  BY <1>2, <1>3, <1>5, <1>6

LEMMA DeadlinesInitially ==
  ASSUME Supervisable, Init
  PROVE  Deadlines
<1>1. PICK order \in Creations : observers = Component!created(order)
  BY DEF Init
<1>2. PICK u : u = observers.monitor
  OBVIOUS
<1>3. u = Component!Monitor!allocated(order)
  BY <1>1, <1>2, CreatedTyped
<1>4. /\ \A t \in Job : u.endActors[t] = Component!Monitor!matched(t) /\ u.activeDeadlines[t] = <<>>
      /\ \A p, q \in DOMAIN order, i \in DOMAIN DeadlineInfos :
           \A l \in DOMAIN DeadlineInfos[i].ends :
             /\ p < q /\ order[p] = DeadlineInfos[i].start
             /\ order[q] = DeadlineInfos[i].ends[l].end
             => u.reportGroupReport[order[q]] # NoJob
  BY <1>3, AllocatedFold
<1>5. /\ used = [t \in Task |-> 0] /\ latencyQueue = <<>> /\ running = None /\ actualTask = None
  BY DEF Init
<1>6. \A e \in Job : count(jobs(latencyQueue), {e}) = 0
  <2>1. \A e \in Job : Hits(jobs(latencyQueue), {e}) = {}
    BY <1>5 DEF Hits, jobs
  <2> QED  BY <2>1, FS_EmptySet, Zenon DEF count
<1>7. \A e \in Job : active(u, e) = 0
  BY <1>4 DEF active
<1>8. ASSUME NEW d \in Job, NEW e \in Job, Pair(d, e)
      PROVE  Supervision(d, e)
  <2>1. CASE d = e
    BY <1>2, <1>5, <1>6, <1>7, <2>1, NoneRuns DEF Supervision, one
  <2>2. CASE d # e
    <3>0. PICK i \in DOMAIN DeadlineInfos : \E k \in DOMAIN DeadlineInfos[i].ends :
            DeadlineInfos[i].start = d /\ DeadlineInfos[i].ends[k].end = e
      BY <1>8 DEF Pair
    <3>1. PICK k \in DOMAIN DeadlineInfos[i].ends :
            DeadlineInfos[i].start = d /\ DeadlineInfos[i].ends[k].end = e
      BY <3>0
    <3>2. \E p, q \in DOMAIN order : p < q /\ order[p] = d /\ order[q] = e
      BY <2>2, <3>1 DEF Supervisable
    <3>3. u.reportGroupReport[e] # NoJob
      BY <1>4, <3>1, <3>2
    <3>4. used[e] = 0 /\ d # NoJob
      BY <1>5, <1>8, <2>2, PairFacts, NoneRuns
    <3> QED  BY <1>2, <1>5, <1>6, <1>7, <2>2, <3>3, <3>4, NoneRuns DEF Supervision, one
  <2> QED  BY <2>1, <2>2
<1>9. running.type # "GUARD"
  BY <1>5 DEF None
<1> QED  BY <1>2, <1>4, <1>8, <1>9 DEF Deadlines

\* A step that the deadlines have nothing to do with.
LEMMA DeadlinesUntouched ==
  ASSUME Supervisable, Deadlines,
         running' = running, actualTask' = actualTask, jobs(latencyQueue') = jobs(latencyQueue),
         \A d, e \in Job : Pair(d, e) /\ d # e => used'[e] = used[e],
         observers'.monitor.endActors = observers.monitor.endActors,
         observers'.monitor.reportGroupReport = observers.monitor.reportGroupReport,
         \A e \in Job : active(observers'.monitor, e) = active(observers.monitor, e)
  PROVE  Deadlines'
<1>1. ASSUME NEW d \in Job, NEW e \in Job, Pair(d, e)
      PROVE  Supervision(d, e)'
  <2>1. CASE d = e
    BY <1>1, <2>1 DEF Deadlines, Supervision
  <2>2. CASE d # e
    <3>1. used'[e] = used[e] /\ Supervision(d, e)
      BY <1>1, <2>2 DEF Deadlines
    <3>2. active(observers'.monitor, e) = active(observers.monitor, e)
      OBVIOUS
    <3>3. one(actualTask'.job = d) = one(actualTask.job = d)
      OBVIOUS
    <3>4. count(jobs(latencyQueue'), {e}) = count(jobs(latencyQueue), {e})
      OBVIOUS
    <3> QED  BY <2>2, <3>1, <3>2, <3>3, <3>4 DEF Supervision
  <2> QED  BY <2>1, <2>2
<1> QED  BY <1>1 DEF Deadlines, Pair

\* An instance starts: that of a start actor begins its deadlines.
LEMMA DeadlinesStarted ==
  ASSUME Supervisable, Flow, Deadlines, thread # "delay", running = None,
         NEW inst, Known(inst), Execute(inst),
         inst.type = "GUARD" => guarded(inst.job),
         \/ actualTask' = actualTask /\ inst.type # "ACTION"
         \/ actualTask = inst /\ inst.type = "ACTION" /\ actualTask' = None,
         UNCHANGED <<used, latencyQueue>>, latencyQueue \in Seq([job : Job, time : Int])
  PROVE  Deadlines'
<1>1. /\ running' = inst /\ inst.job \in Job
      /\ Advanced(observers.monitor, "RELEASE", inst.job, observers'.monitor)
  BY Started DEF Flow, Known, Instance
<1>2. PICK u, v, j : /\ u = observers.monitor /\ v = observers'.monitor
                     /\ j = inst.job /\ j \in Job
  BY <1>1
<1>3. /\ v.endActors = u.endActors /\ v.reportGroupReport = u.reportGroupReport
      /\ \A e \in Job :
           active(v, e) = active(u, e) + Cardinality({k \in DOMAIN u.endActors[j] :
                                                        u.endActors[j][k].end = e})
  BY <1>1, <1>2 DEF Advanced
<1>4. u.endActors[j] = Component!Monitor!matched(j)
  BY <1>2 DEF Deadlines
<1>5. ASSUME NEW d \in Job, NEW e \in Job, Pair(d, e)
      PROVE  active(v, e) = active(u, e) + one(j = d)
  <2>1. begins(j, e) = one(j = d)
    BY <1>2, <1>5, PairFacts
  <2>2. active(v, e) = active(u, e) + begins(j, e)
    BY <1>3, <1>4 DEF begins
  <2> QED  BY <2>1, <2>2
<1>6. ASSUME NEW d \in Job, NEW e \in Job, Pair(d, e)
      PROVE  Supervision(d, e)'
  <2>1. active(v, e) = active(u, e) + one(j = d) /\ Supervision(d, e)
    BY <1>5, <1>6 DEF Deadlines
  <2>2. PICK a \in {0, 1} : a = one(j = d)
    BY DEF one
  <2>3. count(jobs(latencyQueue), {e}) \in Nat /\ count(jobs(latencyQueue), {d}) \in Nat
    <3>1. DOMAIN jobs(latencyQueue) = 1..Len(latencyQueue) /\ Len(latencyQueue) \in Nat
      <4>1. DOMAIN latencyQueue = 1..Len(latencyQueue) /\ Len(latencyQueue) \in Nat
        OBVIOUS
      <4> QED  BY <4>1 DEF jobs
    <3> QED  BY <3>1, HitsFinite
  <2>4. CASE d = e
    <3>1. active(u, d) = count(jobs(latencyQueue), {d}) + 0
      BY <1>2, <2>1, <2>4, NoneRuns DEF Supervision, one
    <3>2. active(v, d) = count(jobs(latencyQueue), {d}) + a
      BY <2>1, <2>2, <2>3, <2>4, <3>1
    <3> QED  BY <1>1, <1>2, <2>2, <2>4, <3>2 DEF Supervision
  <2>5. CASE d # e
    <3>1. d \in Task /\ e \in Task /\ ~guarded(d)
      BY <1>6, <2>5, PairFacts
    <3>2. used[e] \in Nat
      BY <3>1, RoundRobinAssumption DEF Flow, Channels
    <3>3. active(u, e) + one(actualTask.job = d) = used[e] + count(jobs(latencyQueue), {e})
      BY <1>2, <2>1, <2>5 DEF Supervision
    <3>4. v.reportGroupReport[e] # NoJob
      BY <1>2, <1>3, <2>1, <2>5 DEF Supervision
    <3>5. CASE inst.type = "ACTION"
      <4>1. one(actualTask.job = d) = a /\ one(actualTask'.job = d) = 0
        BY <1>2, <2>2, <3>1, <3>5, NoneRuns DEF one
      <4>2. active(v, e) + 0 = used[e] + count(jobs(latencyQueue), {e})
        <5>1. active(u, e) + a = used[e] + count(jobs(latencyQueue), {e})
          BY <3>3, <4>1
        <5> QED  BY <2>1, <2>2, <2>3, <3>2, <5>1
      <4> QED  BY <1>2, <2>5, <3>4, <4>1, <4>2 DEF Supervision
    <3>6. CASE inst.type # "ACTION"
      <4>1. j # d
        <5>1. inst.type = "GUARD" \/ inst.type = "MESSAGE"
          BY <3>6 DEF Known, Instance
        <5> QED  BY <1>2, <3>1, <5>1, RoundRobinAssumption DEF Known
      <4>2. active(v, e) = active(u, e) + 0
        BY <2>1, <4>1 DEF one
      <4>3. active(u, e) \in Int
        <5>1. PICK b \in {0, 1} : b = one(actualTask.job = d)
          BY DEF one
        <5>2. u.activeDeadlines \in [Job -> Seq(Int)]
          BY <1>2 DEF Flow, Computing, Watched, Component!Observers, Component!Monitor!State
        <5> QED  BY <5>2 DEF active
      <4>4. active(v, e) = active(u, e)
        BY <4>2, <4>3
      <4> QED  BY <1>2, <2>5, <3>3, <3>4, <3>6, <4>4 DEF Supervision
    <3> QED  BY <3>5, <3>6
  <2> QED  BY <2>4, <2>5
<1>7. running'.type = "GUARD" => guarded(running'.job)
  BY <1>1
<1> QED  BY <1>2, <1>3, <1>6, <1>7 DEF Deadlines, Pair

\* What Supervision adds up is of type Int, and an end actor's channel has a
\* place for the firing of the start actor that is not released, and one for
\* its own firing.
LEMMA Reserved ==
  ASSUME Supervisable, ObserverInv, Flow, NEW d \in Job, NEW e \in Job, Pair(d, e)
  PROVE  /\ active(observers.monitor, e) \in Nat
         /\ count(jobs(latencyQueue), {e}) \in Nat
         /\ d # e => /\ used[e] \in Nat
                     /\ used[e] >= one(actualTask.job = d)
                                     + one(running.job = e /\ running.type = "ACTION")
<1>1. active(observers.monitor, e) \in Nat
  <2>1. observers.monitor \in MonitorState
    BY WatchedParts DEF Flow, Computing
  <2> QED  BY <2>1 DEF MonitorState, Component!Monitor!State, active
<1>2. readyMsgTasks \in Seq(Msg) /\ latencyQueue \in Seq([job : Job, time : Int])
  BY DEF ObserverInv, Assigned
<1>3. count(jobs(latencyQueue), {e}) \in Nat
  BY <1>2, Numbers
<1>4. ASSUME d # e
      PROVE  /\ used[e] \in Nat
             /\ used[e] >= one(actualTask.job = d) + one(running.job = e /\ running.type = "ACTION")
  <2>1. d \in Task /\ e \in Task /\ Succ[d] = e
    BY <1>4, PairFacts
  <2>2. /\ used[e] \in 0..Capacity /\ tokens[e] \in Nat
        /\ used[e] = tokens[e] + reading(e) + coming(e)
    BY <2>1 DEF Flow, Channels
  <2>3. PICK x \in Nat, y \in Nat : x = count(jobs(latencyQueue), Feeders(e))
                                    /\ y = count(readyMsgTasks, Feeders(e))
    BY <1>2, Numbers
  <2>4. PICK a \in {0, 1}, b \in {0, 1}, c \in {0, 1}, r \in {0, 1} :
          /\ a = one(actualTask.job = e) /\ b = one(running.job = e /\ running.type = "ACTION")
          /\ c = one(actualTask.job \in Feeders(e))
          /\ r = one(running.job \in Feeders(e) /\ running.type # "GUARD")
    BY DEF one
  <2>5. PICK f \in {0, 1} : f = one(actualTask.job = d)
    BY DEF one
  <2>6. d \in Feeders(e)
    BY <2>1, Destinations DEF Feeders, Job
  <2>7. f <= c
    BY <2>4, <2>5, <2>6 DEF one
  <2>8. reading(e) = a + b /\ coming(e) = x + y + c + r
    BY <2>3, <2>4 DEF reading, coming
  <2>9. PICK u \in Nat, k \in Nat : u = used[e] /\ k = tokens[e]
    BY <2>2, RoundRobinAssumption
  <2>10. u = k + (a + b) + (x + y + c + r)
    BY <2>2, <2>8, <2>9
  <2>11. u >= f + b
    BY <2>7, <2>10
  <2> QED  BY <2>4, <2>5, <2>9, <2>11
<1> QED  BY <1>1, <1>3, <1>4

\* A firing starts: it reserves a place for its output.
LEMMA DeadlinesReserved ==
  ASSUME Supervisable, ObserverInv, Flow, Deadlines,
         NEW t \in Task, actualTask = None, actualTask'.job = t,
         used' = IF Succ[t] = NoJob THEN used ELSE [used EXCEPT ![Succ[t]] = @ + 1],
         observers' = told(observers, "ALLOCATE", t, powerConsumption),
         UNCHANGED <<running, latencyQueue>>
  PROVE  Deadlines'
<1>1. Advanced(observers.monitor, "ALLOCATE", t, observers'.monitor)
  BY Noticed DEF Flow, Job
<1>2. /\ observers'.monitor.endActors = observers.monitor.endActors
      /\ observers'.monitor.reportGroupReport = observers.monitor.reportGroupReport
      /\ \A e \in Job : active(observers'.monitor, e) = active(observers.monitor, e)
  BY <1>1 DEF Advanced
<1>3. ASSUME NEW d \in Job, NEW e \in Job, Pair(d, e)
      PROVE  Supervision(d, e)'
  <2>0. Supervision(d, e) /\ active(observers'.monitor, e) = active(observers.monitor, e)
    BY <1>2, <1>3 DEF Deadlines
  <2>1. CASE d = e
    BY <2>0, <2>1 DEF Supervision
  <2>2. CASE d # e
    <3>1. d \in Task /\ e \in Task /\ Succ[d] = e /\ \A u \in Task : Succ[u] = e => u = d
      BY <1>3, <2>2, PairFacts
    <3>2. /\ active(observers.monitor, e) \in Nat /\ count(jobs(latencyQueue), {e}) \in Nat
          /\ used[e] \in Nat /\ used \in [Task -> 0..Capacity]
      BY <1>3, <2>2, Reserved DEF Flow, Channels
    <3>3. one(actualTask.job = d) = 0
      BY <3>1, NoneRuns DEF one
    <3>4. PICK b \in {0, 1} : b = one(actualTask'.job = d)
      BY DEF one
    <3>5. used'[e] = used[e] + b
      <4>1. CASE t = d
        <5>1. used' = [used EXCEPT ![e] = @ + 1] /\ b = 1
          BY <3>1, <3>4, <4>1, NoneRuns DEF one
        <5> QED  BY <3>1, <3>2, <5>1
      <4>2. CASE t # d
        <5>1. Succ[t] # e /\ b = 0
          BY <3>1, <3>4, <4>2 DEF one
        <5> QED  BY <3>1, <3>2, <5>1
      <4> QED  BY <4>1, <4>2
    <3>6. active(observers.monitor, e) = used[e] + count(jobs(latencyQueue), {e})
      BY <2>0, <2>2, <3>2, <3>3 DEF Supervision
    <3>7. active(observers.monitor, e) + b = used'[e] + count(jobs(latencyQueue), {e})
      BY <3>2, <3>5, <3>6
    <3> QED  BY <1>2, <2>0, <2>2, <3>4, <3>7 DEF Supervision
  <2> QED  BY <2>1, <2>2
<1> QED  BY <1>2, <1>3 DEF Deadlines, Pair

\* A latency is over: a deadline of its job ends, if it is an end actor.
LEMMA DeadlinesEnded ==
  ASSUME Supervisable, ObserverInv, Flow, Deadlines,
         NEW i \in DOMAIN latencyQueue, NEW j \in Job, j = latencyQueue[i].job,
         latencyQueue' = RemoveAt(latencyQueue, i),
         observers' = told(observers, "FINISHLAT", j, powerConsumption),
         UNCHANGED <<used, running, actualTask>>
  PROVE  Deadlines'
<1>1. Advanced(observers.monitor, "FINISHLAT", j, observers'.monitor)
  BY Noticed DEF Flow
<1>2. /\ observers'.monitor.endActors = observers.monitor.endActors
      /\ observers'.monitor.reportGroupReport = observers.monitor.reportGroupReport
      /\ \A e \in Job : active(observers'.monitor, e) =
           IF e = j /\ active(observers.monitor, e) > 0 THEN active(observers.monitor, e) - 1
           ELSE active(observers.monitor, e)
  BY <1>1 DEF Advanced
<1>3. ASSUME NEW d \in Job, NEW e \in Job, Pair(d, e)
      PROVE  Supervision(d, e)'
  <2>1. PICK x \in Nat, y \in Nat : x = count(jobs(latencyQueue), {e})
                                    /\ y = count(jobs(latencyQueue'), {e})
    <3>1. latencyQueue \in Seq([job : Job, time : Int])
      BY DEF ObserverInv, Assigned
    <3>2. latencyQueue' \in Seq([job : Job, time : Int])
      <4> DEFINE R == [job : Job, time : Int]
      <4>1. latencyQueue \in Seq(R)
        BY <3>1
      <4> HIDE DEF R
      <4>2. latencyQueue' \in Seq(R)
        BY <4>1, RemovedElements
      <4> QED  BY <4>2 DEF R
    <3>3. DOMAIN latencyQueue' = 1..Len(latencyQueue') /\ Len(latencyQueue') \in Nat
      BY <3>2
    <3>4. DOMAIN jobs(latencyQueue') = DOMAIN latencyQueue'
      BY DEF jobs
    <3>5. count(jobs(latencyQueue'), {e}) \in Nat
      BY <3>3, <3>4, HitsFinite
    <3> QED  BY <1>3, <3>5, Reserved
  <2>2. PICK a \in {0, 1} : a = one(j = e)
    BY DEF one
  <2>3. y + a = x
    <3>1. count(jobs(latencyQueue'), {e}) + one(latencyQueue[i].job \in {e})
            = count(jobs(latencyQueue), {e})
      BY JobRemoved DEF ObserverInv, Assigned
    <3> QED  BY <2>1, <2>2, <3>1 DEF one
  <2>4. PICK p, q : /\ p \in Nat /\ p = active(observers.monitor, e)
                    /\ q = active(observers'.monitor, e)
    BY <1>3, Reserved
  <2>5. q = IF a = 1 /\ p > 0 THEN p - 1 ELSE p
    BY <1>2, <2>2, <2>4 DEF one
  <2>6. Supervision(d, e)
    BY <1>3 DEF Deadlines
  <2>7. CASE d = e
    <3>1. PICK b \in {0, 1} : b = one(running.job = d)
      BY DEF one
    <3>2. p = x + b
      BY <2>1, <2>4, <2>6, <2>7, <3>1 DEF Supervision
    <3>3. q = y + b
      BY <2>3, <2>4, <2>5, <3>2
    <3> QED  BY <2>1, <2>4, <2>7, <3>1, <3>3 DEF Supervision
  <2>8. CASE d # e
    <3>1. PICK f \in {0, 1}, h \in {0, 1} :
            f = one(actualTask.job = d) /\ h = one(running.job = e /\ running.type = "ACTION")
      BY DEF one
    <3>2. PICK u \in Nat : u = used[e] /\ u >= f + h
      <4>1. /\ used[e] \in Nat
            /\ used[e] >= one(actualTask.job = d) + one(running.job = e /\ running.type = "ACTION")
        BY <1>3, <2>8, Reserved
      <4> QED  BY <3>1, <4>1
    <3>3. p + f = u + x
      BY <2>1, <2>4, <2>6, <2>8, <3>1, <3>2 DEF Supervision
    <3>4. q + f = u + y
      BY <2>3, <2>4, <2>5, <3>2, <3>3
    <3>5. observers'.monitor.reportGroupReport[e] # NoJob
      BY <1>2, <2>6, <2>8 DEF Supervision
    <3> QED  BY <2>1, <2>4, <2>8, <3>1, <3>2, <3>4, <3>5 DEF Supervision
  <2> QED  BY <2>7, <2>8
<1> QED  BY <1>2, <1>3 DEF Deadlines, Pair

\* The end of wait(getDelay()): the inputs are given back, and either the
\* deadline ends, too, or the job waits for the end of its latency.
LEMMA DeadlinesFinished ==
  ASSUME Supervisable, ObserverInv, Flow, Deadlines,
         thread = "delay", finishDii(running), UNCHANGED <<actualTask, powerMode>>
  PROVE  Deadlines'
<1> DEFINE j == running.job
<1>0. /\ powerMode \in PowerModes /\ latencyQueue \in Seq([job : Job, time : Int])
      /\ powerConsumption \in Nat /\ observers \in Watched
      /\ Known(running) /\ j \in Job /\ running.type \in {"ACTION", "GUARD", "MESSAGE"}
      /\ running.delay \in Nat /\ running.latency \in Nat
  BY DEF ObserverInv, Assigned, Flow, Computing, Known, Instance
<1>1. /\ used' = freed(used, running) /\ running' = None
      /\ powerConsumption' = PwrIdle[powerMode] /\ powerConsumption' \in Nat
  BY <1>0, DurationsAssumption DEF finishDii, powerIdle
<1>2. PICK r : r = told(observers, "FINISHDII", j, powerConsumption)
  OBVIOUS
<1>3. r \in Watched /\ Advanced(observers.monitor, "FINISHDII", j, r.monitor)
  BY <1>0, <1>2, ToldTyped DEF Operations
<1>4. /\ r.monitor.endActors = observers.monitor.endActors
      /\ r.monitor.reportGroupReport = observers.monitor.reportGroupReport
      /\ \A e \in Job : active(r.monitor, e) = active(observers.monitor, e)
  BY <1>3 DEF Advanced
<1>5. CASE running.latency = running.delay
  <2>1. /\ latencyQueue' = latencyQueue
        /\ observers' = told(r, "FINISHLAT", j, powerConsumption')
    BY <1>2, <1>5 DEF finishDii
  <2>2. Advanced(r.monitor, "FINISHLAT", j, observers'.monitor)
    BY <1>0, <1>1, <1>3, <2>1, ToldTyped DEF Operations
  <2>3. /\ observers'.monitor.endActors = observers.monitor.endActors
        /\ observers'.monitor.reportGroupReport = observers.monitor.reportGroupReport
        /\ \A e \in Job : active(observers'.monitor, e) =
             IF e = j /\ active(observers.monitor, e) > 0 THEN active(observers.monitor, e) - 1
             ELSE active(observers.monitor, e)
    BY <1>4, <2>2 DEF Advanced
  <2>4. ASSUME NEW d \in Job, NEW e \in Job, Pair(d, e)
        PROVE  Supervision(d, e)'
    <3>1. PICK p, x, q :
            /\ p \in Nat /\ x \in Nat
            /\ p = active(observers.monitor, e) /\ q = active(observers'.monitor, e)
            /\ x = count(jobs(latencyQueue), {e})
      BY <2>4, Reserved
    <3>2. Supervision(d, e) /\ NoJob # d
      BY <2>4, NoneRuns DEF Deadlines
    <3>3. q = IF e = j /\ p > 0 THEN p - 1 ELSE p
      BY <2>3, <3>1
    <3>4. CASE d = e
      <4>1. PICK b \in {0, 1} : b = one(j = d)
        BY DEF one
      <4>2. p = x + b
        BY <3>1, <3>2, <3>4, <4>1 DEF Supervision
      <4>3. q = x + 0
        BY <3>1, <3>3, <3>4, <4>1, <4>2 DEF one
      <4>4. one(running'.job = d) = 0
        BY <1>1, <3>2, NoneRuns DEF one
      <4> QED  BY <2>1, <3>1, <3>4, <4>3, <4>4 DEF Supervision
    <3>5. CASE d # e
      <4>1. PICK f \in {0, 1}, h \in {0, 1} :
              f = one(actualTask.job = d) /\ h = one(j = e /\ running.type = "ACTION")
        BY DEF one
      <4>2. PICK u \in Nat : u = used[e] /\ u >= f + h
        <5>1. /\ used[e] \in Nat
              /\ used[e] >= one(actualTask.job = d) + one(j = e /\ running.type = "ACTION")
          BY <2>4, <3>5, Reserved
        <5> QED  BY <4>1, <5>1
      <4>3. p + f = u + x
        BY <3>1, <3>2, <3>5, <4>1, <4>2 DEF Supervision
      <4>4. e \in Task /\ ~guarded(e)
        BY <2>4, <3>5, PairFacts
      <4>5. h = one(j = e)
        <5>1. j = e => running.type = "ACTION"
          BY <1>0, <4>4, RoundRobinAssumption DEF Deadlines, Known
        <5> QED  BY <4>1, <5>1 DEF one
      <4>6. used'[e] = u - h
        BY <1>1, <4>1, <4>2, <4>4, <1>0 DEF freed, one, Flow, Channels
      <4>7. q + f = (u - h) + x
        BY <3>1, <3>3, <4>2, <4>3, <4>5 DEF one
      <4>8. observers'.monitor.reportGroupReport[e] # NoJob
        BY <2>3, <3>2, <3>5 DEF Supervision
      <4> QED  BY <2>1, <3>1, <3>5, <4>1, <4>6, <4>7, <4>8 DEF Supervision
    <3> QED  BY <3>4, <3>5
  <2>5. running'.type # "GUARD"
    BY <1>1 DEF None
  <2> QED  BY <2>3, <2>4, <2>5 DEF Deadlines, Pair
<1>6. CASE running.latency # running.delay
  <2>1. /\ observers' = r
        /\ latencyQueue' = Append(latencyQueue, [job |-> j, time |-> running.latency - running.delay])
    BY <1>2, <1>6 DEF finishDii
  <2>2. jobs(latencyQueue') = Append(jobs(latencyQueue), j) /\ jobs(latencyQueue) \in Seq(Job)
    <3> DEFINE R == [job : Job, time : Int]
               x == [job |-> j, time |-> running.latency - running.delay]
    <3>1. jobs(latencyQueue) \in Seq(Job) /\ x.job = j
      BY <1>0, JobsListed
    <3>2. latencyQueue \in Seq(R) /\ latencyQueue' = Append(latencyQueue, x)
      BY <1>0, <2>1
    <3> HIDE DEF R, x
    <3> QED  BY <3>1, <3>2, JobsAppended
  <2>3. ASSUME NEW d \in Job, NEW e \in Job, Pair(d, e)
        PROVE  Supervision(d, e)'
    <3>1. PICK p, x, y :
            /\ p \in Nat /\ x \in Nat
            /\ p = active(observers.monitor, e) /\ p = active(observers'.monitor, e)
            /\ x = count(jobs(latencyQueue), {e}) /\ y = count(jobs(latencyQueue'), {e})
      BY <1>4, <2>1, <2>3, Reserved
    <3>2. Supervision(d, e) /\ NoJob # d
      BY <2>3, NoneRuns DEF Deadlines
    <3>3. PICK b \in {0, 1} : b = one(j = e)
      BY DEF one
    <3>4. y = x + b
      <4>1. count(jobs(latencyQueue'), {e}) = count(jobs(latencyQueue), {e}) + one(j \in {e})
        BY <2>2, HitsAppended
      <4> QED  BY <3>1, <3>3, <4>1 DEF one
    <3>5. CASE d = e
      <4>1. p = x + b
        BY <3>1, <3>2, <3>3, <3>5 DEF Supervision
      <4>2. one(running'.job = d) = 0 /\ p = y + 0
        BY <1>1, <3>2, <3>4, <4>1, NoneRuns DEF one
      <4> QED  BY <3>1, <3>5, <4>2 DEF Supervision
    <3>6. CASE d # e
      <4>1. PICK f \in {0, 1} : f = one(actualTask.job = d)
        BY DEF one
      <4>2. PICK u \in Nat : u = used[e]
        BY <2>3, <3>6, Reserved
      <4>3. p + f = u + x
        BY <3>1, <3>2, <3>6, <4>1, <4>2 DEF Supervision
      <4>4. e \in Task /\ ~guarded(e)
        BY <2>3, <3>6, PairFacts
      <4>5. j = e => running.type = "ACTION"
        BY <1>0, <4>4, RoundRobinAssumption DEF Deadlines, Known
      <4>6. used'[e] = u - b
        BY <1>0, <1>1, <3>3, <4>2, <4>4, <4>5 DEF freed, one, Flow, Channels
      <4>7. p + f = (u - b) + y
        BY <3>1, <3>4, <4>2, <4>3
      <4>8. observers'.monitor.reportGroupReport[e] # NoJob
        BY <1>4, <2>1, <3>2, <3>6 DEF Supervision
      <4> QED  BY <3>1, <3>6, <4>1, <4>6, <4>7, <4>8 DEF Supervision
    <3> QED  BY <3>5, <3>6
  <2>4. running'.type # "GUARD"
    BY <1>1 DEF None
  <2> QED  BY <1>4, <2>1, <2>3, <2>4 DEF Deadlines, Pair
<1> QED  BY <1>5, <1>6

LEMMA DeadlinesStep ==
  ASSUME Supervisable, ObserverInv, Flow, Deadlines, [Next]_vars
  PROVE  Deadlines'
<1> USE DEF channels, place, power, Runs
<1>0. /\ thread \in {"runnable", "running"} => running = None
      /\ powerMode \in PowerModes
      /\ readyMsgTasks \in Seq(Msg) /\ latencyQueue \in Seq([job : Job, time : Int])
      /\ Computing /\ Channels /\ observers \in Watched /\ powerConsumption \in Nat
  BY DEF ObserverInv, Assigned, Flow, Computing
<1>1. ASSUME NEW a \in Task, Arrival(a)  PROVE Deadlines'
  <2>1. /\ a \in Sources /\ used' = [used EXCEPT ![a] = @ + 1]
        /\ UNCHANGED <<running, actualTask, latencyQueue, observers>>
    BY <1>1 DEF Arrival
  <2>2. ASSUME NEW d \in Job, NEW e \in Job, Pair(d, e), d # e
        PROVE  used'[e] = used[e]
    BY <1>0, <2>1, <2>2, PairFacts DEF Channels
  <2> QED  BY <2>1, <2>2, DeadlinesUntouched
<1>2. ASSUME NEW m \in Msg, MessageArrival(m)  PROVE Deadlines'
  <2>1. /\ observers' = told(observers, "ALLOCATE", m, powerConsumption)
        /\ UNCHANGED <<used, running, actualTask, latencyQueue>>
    BY <1>2 DEF MessageArrival, allocated
  <2>2. Advanced(observers.monitor, "ALLOCATE", m, observers'.monitor)
    BY <1>0, <2>1, Noticed DEF Job
  <2> QED  BY <2>1, <2>2, DeadlinesUntouched DEF Advanced
<1>3. ASSUME NEW mode \in PowerModes, ChangePowerMode(mode)  PROVE Deadlines'
  <2>1. /\ observers' = Component!componentOperation(observers, powerConsumption)
        /\ UNCHANGED <<used, running, actualTask, latencyQueue>>
    BY <1>3 DEF ChangePowerMode
  <2>2. observers'.monitor = observers.monitor
    BY <1>0, <2>1, PowerTyped
  <2> QED  BY <2>1, <2>2, DeadlinesUntouched
<1>4. CASE LatencyExpires
  <2>1. PICK i \in DOMAIN latencyQueue :
          /\ latencyQueue' = RemoveAt(latencyQueue, i)
          /\ observers' = told(observers, "FINISHLAT", latencyQueue[i].job, powerConsumption)
          /\ UNCHANGED <<used, running, actualTask>>
    BY <1>4 DEF LatencyExpires
  <2>2. PICK j \in Job : j = latencyQueue[i].job
    <3> DEFINE R == [job : Job, time : Int]
    <3>1. latencyQueue \in Seq(R)
      BY <1>0
    <3> HIDE DEF R
    <3>2. latencyQueue[i] \in R
      BY <3>1, SequenceElements
    <3> QED  BY <3>2 DEF R
  <2> QED  BY <2>1, <2>2, DeadlinesEnded
<1>5. CASE AdvanceTime
  <2>1. /\ UNCHANGED <<used, running, actualTask>>
        /\ latencyQueue' =
             [i \in DOMAIN latencyQueue |-> [latencyQueue[i] EXCEPT !.time = @ - 1]]
        /\ observers' = Component!elapsed(observers)
    BY <1>5 DEF AdvanceTime
  <2>2. jobs(latencyQueue') = jobs(latencyQueue)
    <3> DEFINE R == [job : Job, time : Int]
    <3>1. latencyQueue \in Seq(R)
      BY <1>0
    <3>2. ASSUME NEW i \in DOMAIN latencyQueue
          PROVE  latencyQueue'[i].job = latencyQueue[i].job
      <4>1. latencyQueue[i] \in R
        <5> HIDE DEF R
        <5> QED  BY <3>1, SequenceElements
      <4>2. latencyQueue'[i] = [latencyQueue[i] EXCEPT !.time = @ - 1]
        BY <2>1
      <4> QED  BY <4>1, <4>2
    <3>3. DOMAIN latencyQueue' = DOMAIN latencyQueue
      BY <2>1
    <3> QED  BY <3>2, <3>3 DEF jobs
  <2>3. /\ observers'.monitor.endActors = observers.monitor.endActors
        /\ observers'.monitor.reportGroupReport = observers.monitor.reportGroupReport
        /\ \A e \in Job : active(observers'.monitor, e) = active(observers.monitor, e)
    BY <1>0, <2>1, ElapsedTyped
  <2> QED  BY <2>1, <2>2, <2>3, DeadlinesUntouched
<1>6. CASE StartMessage
  <2> DEFINE i == message(Head(readyMsgTasks))
  <2>1. /\ thread \in {"runnable", "running"} /\ readyMsgTasks # <<>>
        /\ Execute(i) /\ UNCHANGED <<used, latencyQueue, actualTask>>
    BY <1>6 DEF StartMessage
  <2>2. PICK m \in Msg : m = Head(readyMsgTasks)
    BY <1>0, <2>1
  <2>3. Known(i) /\ i.type = "MESSAGE"
    BY <1>0, <2>2, InstancesKnown
  <2> HIDE DEF i
  <2> QED  BY <1>0, <2>1, <2>3, DeadlinesStarted
<1>7. CASE CheckGuard
  <2> DEFINE t == TaskOrder[next]
             i == checkFiringRule(t)
  <2>1. /\ thread \in {"runnable", "running"} /\ next \in DOMAIN TaskOrder /\ guarded(t)
        /\ Execute(i) /\ UNCHANGED <<used, latencyQueue, actualTask>>
    BY <1>7 DEF CheckGuard
  <2>2. t \in Task
    BY <2>1, SequenceElements, RoundRobinAssumption
  <2>3. Known(i) /\ i.type = "GUARD" /\ i.job = t
    BY <1>0, <2>2, InstancesKnown
  <2> HIDE DEF i
  <2> QED  BY <1>0, <2>1, <2>3, DeadlinesStarted
<1>8. CASE Fire
  <2>1. PICK t \in Task :
          /\ used' = IF Succ[t] = NoJob THEN used ELSE [used EXCEPT ![Succ[t]] = @ + 1]
          /\ actualTask' = executeFiringRule(t)
          /\ observers' = told(observers, "ALLOCATE", t, powerConsumption)
    <3>1. next \in DOMAIN TaskOrder
      BY <1>0, <1>8 DEF Fire, Computing
    <3>2. TaskOrder[next] \in Task
      BY <3>1, SequenceElements, RoundRobinAssumption
    <3> QED  BY <1>8, <3>2 DEF Fire, allocated
  <2>2. actualTask = None /\ UNCHANGED <<running, latencyQueue>>
    BY <1>0, <1>8 DEF Fire, Computing
  <2>3. actualTask'.job = t
    BY <1>0, <2>1, InstancesKnown
  <2> QED  BY <2>1, <2>2, <2>3, DeadlinesReserved
<1>9. CASE Compute
  <2>1. /\ thread \in {"runnable", "running"} /\ at = "compute"
        /\ Execute(actualTask) /\ actualTask' = None /\ UNCHANGED <<used, latencyQueue>>
    BY <1>9 DEF Compute
  <2>2. Known(actualTask) /\ actualTask.type = "ACTION"
    BY <1>0, <2>1 DEF Computing
  <2> QED  BY <1>0, <2>1, <2>2, DeadlinesStarted
<1>10. CASE Timeout
  BY <1>10, DeadlinesFinished DEF Timeout
<1>11. CASE BeginRound \/ Skip \/ AfterFiring \/ EndRound \/ Awake \/ UNCHANGED vars
  <2>1. UNCHANGED <<used, running, actualTask, latencyQueue, observers>>
    BY <1>11 DEF BeginRound, Skip, AfterFiring, EndRound, Awake, vars
  <2> QED  BY <2>1, DeadlinesUntouched
<1> QED
  BY <1>1, <1>2, <1>3, <1>4, <1>5, <1>6, <1>7, <1>8, <1>9, <1>10, <1>11 DEF Next, Thread

\* The jobs on the way that the number in flight adds up are those that
\* Channels accounts for, those of the end actor itself apart.
LEMMA InFlight ==
  ASSUME Supervisable, ObserverInv, Flow, Deadlines, NEW d \in Job, NEW e \in Job, Pair(d, e)
  PROVE  active(observers.monitor, e) = inFlight(d, e)
<1> DEFINE after == way(d, e) \ {d}
<1>0. /\ readyMsgTasks \in Seq(Msg) /\ latencyQueue \in Seq([job : Job, time : Int])
      /\ Supervision(d, e)
  BY DEF ObserverInv, Assigned, Deadlines
<1>1. /\ {i \in DOMAIN latencyQueue : latencyQueue[i].job \in way(d, e)} = Hits(jobs(latencyQueue), way(d, e))
      /\ {i \in DOMAIN readyMsgTasks : readyMsgTasks[i] \in after} = Hits(readyMsgTasks, after)
  BY DEF Hits, jobs
<1>2. inFlight(d, e) = count(jobs(latencyQueue), way(d, e)) + count(readyMsgTasks, after)
                         + (IF e \in after \cap Task THEN tokens[e] ELSE 0)
                         + one(actualTask.job \in after) + one(running.job \in way(d, e))
  <2> HIDE DEF after
  <2> QED  BY <1>1 DEF inFlight, count, one, after
<1>3. PICK x \in Nat : x = count(jobs(latencyQueue), {e})
  BY Reserved
<1>4. CASE d = e
  <2>1. way(d, e) = {d} /\ after = {}
    BY <1>4 DEF way
  <2>2. count(readyMsgTasks, after) = 0
    <3>1. Hits(readyMsgTasks, {}) = {}
      BY DEF Hits
    <3> QED  BY <2>1, <3>1, FS_EmptySet, Zenon DEF count
  <2>3. one(actualTask.job \in after) = 0 /\ e \notin after \cap Task
    BY <2>1 DEF one
  <2>4. one(running.job \in way(d, e)) = one(running.job = d)
    BY <2>1 DEF one
  <2>5. PICK b \in {0, 1} : b = one(running.job = d)
    BY DEF one
  <2>6. inFlight(d, e) = x + 0 + 0 + 0 + b
    <3> HIDE DEF after
    <3> QED  BY <1>2, <1>3, <1>4, <2>1, <2>2, <2>3, <2>4, <2>5
  <2>7. active(observers.monitor, e) = x + b
    BY <1>0, <1>3, <1>4, <2>5 DEF Supervision
  <2> QED  BY <2>6, <2>7
<1>5. CASE d # e
  <2>1. /\ d \in Task /\ e \in Task /\ ~guarded(d) /\ ~guarded(e)
        /\ Succ[d] = e /\ e \notin Sources /\ \A t \in Task : Succ[t] = e => t = d
    BY <1>5, PairFacts
  <2>2. /\ d \notin Msg /\ e \notin Msg /\ NoJob \notin {d, e}
        /\ Hop[d] # NoJob => Hop[d] \in Msg /\ Hop[d] \notin Task
    BY <2>1, Writers, RoundRobinAssumption DEF Job
  <2>3. Feeders(e) = {d, Hop[d]} \ {NoJob}
    <3>1. \A t \in Task : t \in Feeders(e) <=> t = d
      BY <2>1, Destinations DEF Feeders, Job
    <3>2. ASSUME NEW m \in Msg
          PROVE  m \in Feeders(e) <=> m = Hop[d]
      <4>1. CASE m = Hop[d]
        <5>1. Dest(m) = e
          BY <2>1, <4>1, Destinations, RoundRobinAssumption DEF Job
        <5> QED  BY <4>1, <5>1 DEF Feeders, Job
      <4>2. CASE m # Hop[d]
        <5>1. Dest(m) # e
          BY <2>1, <4>2, Destinations
        <5> QED  BY <4>2, <5>1 DEF Feeders
      <4> QED  BY <4>1, <4>2
    <3>3. Feeders(e) \subseteq Task \cup Msg
      BY DEF Feeders, Job
    <3>4. d \in Feeders(e) /\ (Hop[d] # NoJob => Hop[d] \in Feeders(e))
      BY <2>1, <2>2, <3>1, <3>2
    <3>5. \A j \in Feeders(e) : (j = d \/ j = Hop[d]) /\ j # NoJob
      BY <3>1, <3>2, <3>3, NoneRuns
    <3> QED  BY <2>2, <3>4, <3>5
  <2>4. /\ way(d, e) = Feeders(e) \cup {e} /\ Feeders(e) \cap {e} = {}
        /\ after = (Feeders(e) \ {d}) \cup {e} /\ e \in after \cap Task
        /\ d \in Feeders(e) /\ Feeders(e) \subseteq {d} \cup Msg
    BY <1>5, <2>1, <2>2, <2>3 DEF way
  <2>5. PICK l \in Nat, r \in Nat :
          l = count(jobs(latencyQueue), Feeders(e)) /\ r = count(readyMsgTasks, Feeders(e))
    BY <1>0, Numbers
  <2>6. count(jobs(latencyQueue), way(d, e)) = l + x
    <3>1. DOMAIN jobs(latencyQueue) = 1..Len(latencyQueue) /\ Len(latencyQueue) \in Nat
      <4>1. DOMAIN latencyQueue = 1..Len(latencyQueue) /\ Len(latencyQueue) \in Nat
        BY <1>0
      <4> QED  BY <4>1 DEF jobs
    <3> QED  BY <1>3, <2>4, <2>5, <3>1, HitsUnion
  <2>7. count(readyMsgTasks, after) = r
    <3>1. \A i \in DOMAIN readyMsgTasks : readyMsgTasks[i] \in Msg
      BY <1>0
    <3>2. \A i \in DOMAIN readyMsgTasks : readyMsgTasks[i] \in after <=> readyMsgTasks[i] \in Feeders(e)
      <4> HIDE DEF after
      <4> QED  BY <2>2, <2>4, <3>1
    <3>3. Hits(readyMsgTasks, after) = Hits(readyMsgTasks, Feeders(e))
      <4> HIDE DEF after
      <4> QED  BY <3>2 DEF Hits
    <3> HIDE DEF after
    <3> QED  BY <2>5, <3>3 DEF count
  <2>8. actualTask.job \notin Msg
    BY NoneRuns, RoundRobinAssumption DEF Flow, Computing, Known, None, Job
  <2>9. PICK f \in {0, 1}, g \in {0, 1} : f = one(actualTask.job = d) /\ g = one(actualTask.job = e)
    BY DEF one
  <2>10. one(actualTask.job \in Feeders(e)) = f /\ one(actualTask.job \in after) = g
    <3> HIDE DEF after
    <3> QED  BY <1>5, <2>2, <2>4, <2>8, <2>9 DEF one
  <2>11. PICK h \in {0, 1}, k \in {0, 1} :
           /\ h = one(running.job = e /\ running.type = "ACTION")
           /\ k = one(running.job \in Feeders(e) /\ running.type # "GUARD")
    BY DEF one
  <2>12. one(running.job \in way(d, e)) = h + k
    <3>1. running = None \/ Known(running)
      BY DEF ObserverInv, Assigned, Flow, Computing
    <3>2. running.job = e => running.type = "ACTION"
      BY <2>1, <2>2, <3>1, NoneRuns DEF Known, Instance, Deadlines
    <3>3. running.job \in Feeders(e) => running.type # "GUARD"
      BY <2>1, <2>4, <3>1, NoneRuns DEF Known, Instance, Deadlines
    <3> QED  BY <2>4, <2>11, <3>2, <3>3 DEF one
  <2>13. PICK u \in Nat, t \in Nat : u = used[e] /\ t = tokens[e]
    BY <2>1, RoundRobinAssumption DEF Flow, Channels
  <2>14. u = t + (g + h) + (l + r + f + k)
    <3>1. reading(e) = g + h /\ coming(e) = l + r + f + k
      BY <2>5, <2>9, <2>10, <2>11 DEF reading, coming
    <3>2. used[e] = tokens[e] + reading(e) + coming(e)
      BY <2>1 DEF Flow, Channels
    <3> QED  BY <2>13, <3>1, <3>2
  <2>15. inFlight(d, e) = (l + x) + r + t + g + (h + k)
    <3> HIDE DEF after
    <3> QED  BY <1>2, <2>4, <2>6, <2>7, <2>10, <2>12, <2>13
  <2>16. PICK p \in Nat : p = active(observers.monitor, e)
    BY Reserved
  <2>17. p + f = u + x
    BY <1>0, <1>3, <1>5, <2>9, <2>13, <2>16 DEF Supervision
  <2>18. p = (l + x) + r + t + g + (h + k)
    BY <2>14, <2>17
  <2> QED  BY <2>15, <2>16, <2>18
<1> QED  BY <1>4, <1>5

\* In a configuration that can be supervised every deadline is, at any time:
\* there is one active deadline for each firing whose result is on its way, and
\* a group to report it to.
THEOREM DeadlinesSupervisedTheorem ==
  ASSUME Supervisable
  PROVE  Spec => []DeadlinesSupervised
<1>1. Init => Deadlines
  BY DeadlinesInitially
<1>2. ObserverInv /\ Flow /\ Deadlines /\ [Next]_vars => Deadlines'
  BY DeadlinesStep
<1>3. ObserverInv /\ Flow /\ Deadlines => DeadlinesSupervised
  <2> SUFFICES ASSUME ObserverInv, Flow, Deadlines,
                      NEW i \in DOMAIN DeadlineInfos, NEW k \in DOMAIN DeadlineInfos[i].ends,
                      NEW d, d = DeadlineInfos[i].start, NEW e, e = DeadlineInfos[i].ends[k].end
               PROVE  /\ Len(observers.monitor.activeDeadlines[e]) = inFlight(d, e)
                      /\ d # e => observers.monitor.reportGroupReport[e] # NoJob
    BY DEF DeadlinesSupervised
  <2>1. Pair(d, e)
    BY DEF Pair
  <2>2. d \in Job /\ e \in Job
    BY <2>1, PairFacts
  <2>3. Supervision(d, e)
    BY <2>1, <2>2 DEF Deadlines
  <2>4. active(observers.monitor, e) = inFlight(d, e)
    BY <2>1, <2>2, InFlight
  <2> QED  BY <2>3, <2>4 DEF Supervision, active
<1> QED  BY <1>1, <1>2, <1>3, ObserversInvariant, FlowInvariant, PTL DEF Spec

=============================================================================
