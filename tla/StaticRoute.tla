----------------------------- MODULE StaticRoute -----------------------------
(***************************************************************************)
(* Routing::StaticImpl: a message travels a tree of hops, over every hop   *)
(* as a task of the component the hop is on, and is delivered to the       *)
(* destinations of each hop it has finished.  A MessageInstance remembers  *)
(* the hops it is currently in in the slots of its array currHop, and      *)
(* deletes itself when all its slots are null.                             *)
(*                                                                         *)
(* The array has one slot per destination and is not initialised.  A read  *)
(* of a slot never written, inside or outside the array, is undefined and  *)
(* yields either a null or a non-null pointer.  The messages of one hop    *)
(* are tasks of equal priority, which a component with FCFS or priority    *)
(* scheduling computes in their order (NonPreemptiveComponent).            *)
(***************************************************************************)
EXTENDS Integers, SequencesExt

CONSTANTS Hop,        \* hopImpls
          FirstHops,  \* firstHopImpls, in the order of the set
          ChildHops,  \* the child hops of each hop, in order
          DestOf,     \* the destinations of each hop
          Message,    \* the messages sent
          Null, Uninit

Destination == UNION {DestOf[h] : h \in Hop}

\* A hop is added as a first hop or as the child of one hop added before
\* (addHop), so that what holds of the first hops, and of the children of the
\* hops it holds of, holds of all; a channel is added to one hop (addDest).
Tree ==
  /\ IsInjective(FirstHops)
  /\ \A h \in Hop :
       IsInjective(ChildHops[h]) /\ Range(ChildHops[h]) \cap Range(FirstHops) = {}
  /\ \A g, h \in Hop : g # h =>
       Range(ChildHops[g]) \cap Range(ChildHops[h]) = {} /\ DestOf[g] \cap DestOf[h] = {}
  /\ \A S \in SUBSET Hop :
       Range(FirstHops) \subseteq S /\ (\A h \in S : Range(ChildHops[h]) \subseteq S) => S = Hop

ASSUME ConstantsAssumption ==
  /\ FirstHops \in Seq(Hop) /\ FirstHops # <<>>
  /\ ChildHops \in [Hop -> Seq(Hop)]
  /\ IsFiniteSet(Hop) /\ IsFiniteSet(Destination) /\ Tree
  /\ {Null, Uninit} \cap Hop = {} /\ Null # Uninit

\* Every hop is entered once, so no slot beyond these is ever looked at.
Slot == 0..Cardinality(Hop)

VARIABLES state,            \* of each message: unsent, travelling, released
          currHop,          \* its slots
          nextFreeCurrHop,  \* the number of slots it has handed out
          inHop,            \* <<message, slot>> of the tasks of each hop
          delivered,        \* the messages each destination has got
          sent              \* the messages in the order they were started

vars == <<state, currHop, nextFreeCurrHop, inHop, delivered, sent>>

TypeOK ==
  /\ state \in [Message -> {"unsent", "travelling", "released"}]
  /\ currHop \in [Message -> [Slot -> Hop \cup {Null, Uninit}]]
  /\ nextFreeCurrHop \in [Message -> 0..Cardinality(Hop)]
  /\ inHop \in [Hop -> Seq(Message \X Slot)]
  /\ delivered \in [Destination -> Seq(Message)]
  /\ sent \in Seq(Message)

Init ==
  /\ state = [x \in Message |-> "unsent"]
  /\ currHop = [x \in Message |-> [s \in Slot |-> Uninit]]
  /\ nextFreeCurrHop = [x \in Message |-> 0]
  /\ inHop = [h \in Hop |-> <<>>]
  /\ delivered = [d \in Destination |-> <<>>]
  /\ sent = <<>>

\* Message x enters hops[i] in slots[i], for every i, as a task of the hop's
\* component each (startHop, executeHop); q is inHop before.
enter(q, x, hops, slots) ==
  /\ currHop' = [currHop EXCEPT ![x] = [s \in Slot |->
       IF \E i \in DOMAIN hops : slots[i] = s
       THEN hops[CHOOSE i \in DOMAIN hops : slots[i] = s /\ \A k \in DOMAIN hops :
                                              slots[k] = s => k <= i]
       ELSE @[s]]]
  /\ inHop' = [h \in Hop |->
       IF \E i \in DOMAIN hops : hops[i] = h
       THEN Append(q[h], <<x, slots[CHOOSE i \in DOMAIN hops : hops[i] = h]>>)
       ELSE q[h]]

\* StaticImpl::start: one slot for every first hop.
Start(x) ==
  /\ state[x] = "unsent"
  /\ state' = [state EXCEPT ![x] = "travelling"]
  /\ sent' = Append(sent, x)
  /\ enter(inHop, x, FirstHops, [i \in DOMAIN FirstHops |-> i - 1])
  /\ nextFreeCurrHop' = [nextFreeCurrHop EXCEPT ![x] = Len(FirstHops)]
  /\ UNCHANGED delivered

\* Mutated childSlots: no free slots are taken.
childSlotsShared(x, s, n) == [i \in 1..n |-> s]

\* The slots of n child hops of a hop in slot s: its own, then free ones.
childSlots(x, s, n) == [i \in 1..n |-> IF i = 1 THEN s ELSE nextFreeCurrHop[x] + i - 2]

\* Mutated startChildHops: a slot is taken before each child hop and after it.
startChildHopsTwice(q, x, s, h) ==
  /\ enter(q, x, ChildHops[h], childSlots(x, s, Len(ChildHops[h])))
  /\ nextFreeCurrHop' = [nextFreeCurrHop EXCEPT ![x] = @ + 2 * Len(ChildHops[h])]
  /\ UNCHANGED state

\* A hop that is not the last of its branch is followed by its child hops.
\* A free slot is also taken after the last one, and never used.
startChildHops(q, x, s, h) ==
  /\ enter(q, x, ChildHops[h], childSlots(x, s, Len(ChildHops[h])))
  /\ nextFreeCurrHop' = [nextFreeCurrHop EXCEPT ![x] = @ + Len(ChildHops[h])]
  /\ UNCHANGED state

\* Mutated readSlots: only the slots of the first hops are looked at.
readSlotsOfFirstHops(c, n) == {c[s] : s \in 0..(Len(FirstHops) - 1)}

\* What the slots c of a message are read as, n of which were handed out: the
\* message is released when all of them are null.
readSlots(c, n) == {c[s] : s \in 0..(n - 1)}

\* The last hop of a branch frees its slot, and deletes the message if no slot
\* is seen to be in use.
endBranch(q, x, s) ==
  LET read == readSlots([currHop[x] EXCEPT ![s] = Null], nextFreeCurrHop[x])
  IN  /\ currHop' = [currHop EXCEPT ![x][s] = Null]
      /\ inHop' = q
      /\ \/ /\ read \subseteq {Null, Uninit}
            /\ state' = [state EXCEPT ![x] = "released"]
         \/ /\ read # {Null}
            /\ UNCHANGED state
      /\ UNCHANGED nextFreeCurrHop

\* Mutated destinations: those of the route instead of those of the hop.
destinationsOfRoute(h) == Destination

\* The channels a message that has finished hop h is delivered to.
destinations(h) == DestOf[h]

\* The task of the oldest message in hop h has finished (finishHop).
FinishHop(h) ==
  /\ inHop[h] # <<>>
  /\ LET x == Head(inHop[h])[1]
         s == Head(inHop[h])[2]
         at == currHop[x][s]
         q == [inHop EXCEPT ![h] = Tail(@)]
     IN  /\ at \in Hop
         /\ delivered' = [d \in Destination |->
              IF d \in destinations(at) THEN Append(delivered[d], x) ELSE delivered[d]]
         /\ IF ChildHops[at] # <<>>
            THEN startChildHops(q, x, s, at)
            ELSE endBranch(q, x, s)
  /\ UNCHANGED sent

Next == (\E x \in Message : Start(x)) \/ (\E h \in Hop : FinishHop(h))

Spec == Init /\ [][Next]_vars

\* Every component computes the hops that are started on it.
FairSpec == Spec /\ \A h \in Hop : WF_vars(FinishHop(h))

-----------------------------------------------------------------------------
(* Properties *)

\* The slots of a message are not mixed up: the task of a hop finds that hop
\* in its slot, no other task of the message uses the slot, and it is in the
\* array, which has one slot per destination.  (The last does not hold of every
\* tree, see README.md.)
SlotsExclusive ==
  \A h \in Hop : \A i \in DOMAIN inHop[h] :
    LET x == inHop[h][i][1]
        s == inHop[h][i][2]
    IN  /\ currHop[x][s] = h
        /\ s < nextFreeCurrHop[x] /\ s < Cardinality(Destination)
        /\ \A g \in Hop : \A k \in DOMAIN inHop[g] :
             inHop[g][k] = <<x, s>> => g = h /\ k = i

travelling(x) == \E h \in Hop : \E i \in DOMAIN inHop[h] : inHop[h][i][1] = x

\* A message is not deleted early: once released it is in no hop, whose end
\* would use it, and has got to every destination.
ReleasedWhenDone ==
  \A x \in Message : state[x] = "released" =>
    /\ ~travelling(x)
    /\ \A d \in Destination : x \in Range(delivered[d])

\* Every destination gets the messages in the order they were started, each
\* of them once, whatever the branches of the tree they overtake each other in.
DeliveredInOrder == \A d \in Destination : IsPrefix(delivered[d], sent)

\* Every message gets to every destination.
EveryDestinationReached ==
  \A x \in Message, d \in Destination :
    state[x] = "travelling" ~> x \in Range(delivered[d])

\* A message that has finished its last hop deletes itself ("This will auto
\* delete.", StaticImpl.cpp:81).
AutoDeleted ==
  \A x \in Message : state[x] = "travelling" => travelling(x)

=============================================================================
