------------------------- MODULE StaticRouteProofs -------------------------
(***************************************************************************)
(* On every tree of hops the messages of a route keep their order and      *)
(* their slots, and none is deleted while it is under way.                 *)
(*                                                                         *)
(* The key is how many messages each hop has finished.  The code does not  *)
(* count them, so the invariant says that there are such numbers F.        *)
(***************************************************************************)
EXTENDS StaticRoute, FiniteSetTheorems, TLAPS

-----------------------------------------------------------------------------
(* The inductive invariant *)

\* The number of messages that have entered hop h, if it has finished F[h].
entered(F, h) == F[h] + Len(inHop[h])

\* A message enters the first hops when it is started and a child hop when its
\* parent has finished it, so that each hop gets the messages in the order
\* they were started.
Flow(F) ==
  /\ \A h \in Range(FirstHops) : entered(F, h) = Len(sent)
  /\ \A g \in Hop : \A h \in Range(ChildHops[g]) : entered(F, h) = F[g]
  /\ \A h \in Hop : entered(F, h) <= Len(sent)
  /\ \A h \in Hop : \A i \in DOMAIN inHop[h] : inHop[h][i][1] = sent[F[h] + i]

\* A destination has got what the hop it belongs to has finished.
Delivered(F) ==
  \A h \in Hop : \A d \in DestOf[h] :
    Len(delivered[d]) = F[h] /\ \A i \in 1..F[h] : delivered[d][i] = sent[i]

\* A message has handed out a slot for each hop it has entered.
Taken(F) ==
  \A p \in DOMAIN sent :
    nextFreeCurrHop[sent[p]] = Cardinality({h \in Hop : p <= entered(F, h)})

\* A message is started once.
SentOnce ==
  /\ IsInjective(sent)
  /\ \A x \in Message : state[x] = "unsent" <=> x \notin Range(sent)

\* A message is in the hops its slots say, and not released while it is.
InSlots ==
  \A h \in Hop : \A i \in DOMAIN inHop[h] :
    LET x == inHop[h][i][1]
        s == inHop[h][i][2]
    IN  currHop[x][s] = h /\ s < nextFreeCurrHop[x] /\ state[x] # "released"

\* The array has room for the slots of a message: it has a slot for each first
\* hop, and only a first hop without brothers that go on has several children,
\* for which there is room too.
SlotsSuffice ==
  /\ Len(FirstHops) <= Cardinality(Destination)
  /\ \A h \in Hop : Len(ChildHops[h]) > 1 =>
       /\ h \in Range(FirstHops)
       /\ \A g \in Range(FirstHops) : g # h => ChildHops[g] = <<>>
       /\ Len(FirstHops) + Len(ChildHops[h]) - 1 <= Cardinality(Destination)

\* Then all tasks use slots inside the array.
InArray ==
  SlotsSuffice =>
    \A h \in Hop : \A i \in DOMAIN inHop[h] : inHop[h][i][2] < Cardinality(Destination)

IInv ==
  /\ TypeOK /\ SentOnce /\ InSlots /\ InArray
  /\ \E F \in [Hop -> Nat] : Flow(F) /\ Delivered(F) /\ Taken(F)

-----------------------------------------------------------------------------
(* Sequences without repetition, and the tree *)

\* Such a sequence has as many elements as places.
LEMMA RangeCardinality ==
  ASSUME NEW S, NEW q \in Seq(S), IsInjective(q)
  PROVE  /\ Range(q) \subseteq S
         /\ IsFiniteSet(Range(q)) /\ Cardinality(Range(q)) = Len(q)
<1>1. q \in Bijection(1..Len(q), Range(q))
  BY DEF Bijection, Injection, Surjection, IsInjective, Range
<1>2. ExistsBijection(1..Len(q), Range(q))
  BY <1>1 DEF ExistsBijection
<1>3. IsFiniteSet(1..Len(q)) /\ Cardinality(1..Len(q)) = Len(q)
  <2>1. Len(q) \in Nat /\ 1 \in Int /\ Len(q) \in Int
    OBVIOUS
  <2>2. IsFiniteSet(1..Len(q)) /\ Cardinality(1..Len(q)) = IF 1 > Len(q) THEN 0 ELSE Len(q) - 1 + 1
    BY <2>1, FS_Interval
  <2> QED
    BY <2>1, <2>2
<1>4. Range(q) \subseteq S
  BY DEF Range
<1> QED
  BY <1>2, <1>3, <1>4, FS_Bijection

\* What holds of the first hops, and of the children of each hop it holds of,
\* holds of all hops.
LEMMA TreeInduction ==
  ASSUME NEW S \in SUBSET Hop, Range(FirstHops) \subseteq S,
         \A h \in S : Range(ChildHops[h]) \subseteq S
  PROVE  S = Hop
BY ConstantsAssumption DEF Tree

\* The hops of a tree are finitely many, and lists of them are as long as sets.
LEMMA Hops ==
  /\ FirstHops \in Seq(Hop) /\ IsInjective(FirstHops)
  /\ Range(FirstHops) \subseteq Hop /\ Cardinality(Range(FirstHops)) = Len(FirstHops)
  /\ \A h \in Hop :
       /\ ChildHops[h] \in Seq(Hop) /\ IsInjective(ChildHops[h])
       /\ Range(ChildHops[h]) \subseteq Hop /\ Range(ChildHops[h]) \cap Range(FirstHops) = {}
       /\ IsFiniteSet(Range(ChildHops[h]))
       /\ Cardinality(Range(ChildHops[h])) = Len(ChildHops[h])
  /\ Cardinality(Hop) \in Nat /\ Cardinality(Destination) \in Nat
<1>1. \A h \in Hop : ChildHops[h] \in Seq(Hop) /\ IsInjective(ChildHops[h])
                       /\ Range(ChildHops[h]) \cap Range(FirstHops) = {}
  BY ConstantsAssumption DEF Tree
<1>2. FirstHops \in Seq(Hop) /\ IsInjective(FirstHops)
  BY ConstantsAssumption DEF Tree
<1>3. Cardinality(Hop) \in Nat /\ Cardinality(Destination) \in Nat
  BY ConstantsAssumption, FS_CardinalityType
<1> QED
  BY <1>1, <1>2, <1>3, RangeCardinality

\* The hops of a set, and how many they are.
LEMMA HopSet ==
  ASSUME NEW T \in SUBSET Hop
  PROVE  IsFiniteSet(T) /\ Cardinality(T) \in 0..Cardinality(Hop)
BY ConstantsAssumption, Hops, FS_Subset, FS_CardinalityType

-----------------------------------------------------------------------------
(* A message enters hops *)

\* Message x is in each of the hops last, in the slot that goes with it; no
\* other slot and no other hop has changed.
Entered(q, x, hops, slots) ==
  /\ currHop' \in [Message -> [Slot -> Hop \cup {Null, Uninit}]]
  /\ inHop' \in [Hop -> Seq(Message \X Slot)]
  /\ \A y \in Message : y # x => currHop'[y] = currHop[y]
  /\ \A i \in DOMAIN hops : currHop'[x][slots[i]] = hops[i]
  /\ \A s \in Slot : s \notin Range(slots) => currHop'[x][s] = currHop[x][s]
  /\ \A h \in Hop :
       Len(inHop'[h]) = Len(q[h]) + IF h \in Range(hops) THEN 1 ELSE 0
  /\ \A h \in Hop : \A i \in DOMAIN inHop'[h] :
       \/ i \in DOMAIN q[h] /\ inHop'[h][i] = q[h][i]
       \/ \E k \in DOMAIN hops :
            h = hops[k] /\ i = Len(q[h]) + 1 /\ inHop'[h][i] = <<x, slots[k]>>

\* This is what entering hops without repetition, in different slots, does.
LEMMA Enter ==
  ASSUME NEW q \in [Hop -> Seq(Message \X Slot)], NEW x \in Message,
         NEW hops \in Seq(Hop), NEW slots \in [DOMAIN hops -> Slot],
         IsInjective(hops), IsInjective(slots),
         currHop \in [Message -> [Slot -> Hop \cup {Null, Uninit}]],
         enter(q, x, hops, slots)
  PROVE  Entered(q, x, hops, slots)
<1> DEFINE hop(s) == hops[CHOOSE i \in DOMAIN hops : slots[i] = s /\ \A k \in DOMAIN hops :
                                              slots[k] = s => k <= i]
           slot(h) == slots[CHOOSE i \in DOMAIN hops : hops[i] = h]
<1>1. \A i \in DOMAIN hops : hop(slots[i]) = hops[i]
  <2> SUFFICES ASSUME NEW i \in DOMAIN hops
               PROVE  hop(slots[i]) = hops[i]
    OBVIOUS
  <2> DEFINE c == CHOOSE j \in DOMAIN hops : slots[j] = slots[i] /\ \A k \in DOMAIN hops :
                                              slots[k] = slots[i] => k <= j
  <2>1. DOMAIN slots = DOMAIN hops /\ DOMAIN hops \subseteq Nat
    OBVIOUS
  <2>2. \A k \in DOMAIN hops : slots[k] = slots[i] => k = i
    BY <2>1 DEF IsInjective
  <2>3. \A k \in DOMAIN hops : slots[k] = slots[i] => k <= i
    BY <2>1, <2>2
  <2>4. c \in DOMAIN hops /\ slots[c] = slots[i]
    BY <2>3
  <2> QED
    BY <2>2, <2>4
<1>2. \A i \in DOMAIN hops : slot(hops[i]) = slots[i]
  BY DEF IsInjective
<1>3. currHop' = [currHop EXCEPT ![x] = [s \in Slot |->
                    IF \E i \in DOMAIN hops : slots[i] = s THEN hop(s) ELSE @[s]]]
  BY DEF enter
<1>4. inHop' = [h \in Hop |-> IF \E i \in DOMAIN hops : hops[i] = h
                              THEN Append(q[h], <<x, slot(h)>>) ELSE q[h]]
  BY DEF enter
<1> HIDE DEF hop, slot
<1>5. \A i \in DOMAIN hops : hops[i] \in Hop /\ slots[i] \in Slot
  OBVIOUS
<1>6. \A s \in Slot : s \in Range(slots) <=> \E i \in DOMAIN hops : slots[i] = s
  BY DEF Range
<1>7. \A h \in Hop : h \in Range(hops) <=> \E i \in DOMAIN hops : hops[i] = h
  BY DEF Range
<1>8. currHop'[x] = [s \in Slot |->
                       IF \E i \in DOMAIN hops : slots[i] = s THEN hop(s) ELSE currHop[x][s]]
  BY <1>3
<1>9. /\ currHop'[x] \in [Slot -> Hop \cup {Null, Uninit}]
      /\ \A i \in DOMAIN hops : currHop'[x][slots[i]] = hops[i]
      /\ \A s \in Slot : s \notin Range(slots) => currHop'[x][s] = currHop[x][s]
  BY <1>1, <1>5, <1>6, <1>8
<1>10. \A y \in Message : y # x => currHop'[y] = currHop[y]
  BY <1>3
<1>11. currHop' \in [Message -> [Slot -> Hop \cup {Null, Uninit}]]
  BY <1>3, <1>9
<1>12. \A h \in Hop : h \notin Range(hops) => inHop'[h] = q[h]
  BY <1>4, <1>7
<1>13. \A i \in DOMAIN hops : inHop'[hops[i]] = Append(q[hops[i]], <<x, slots[i]>>)
  BY <1>2, <1>4, <1>5
<1>14. inHop' \in [Hop -> Seq(Message \X Slot)]
  <2>1. ASSUME NEW h \in Hop, h \in Range(hops)
        PROVE  inHop'[h] \in Seq(Message \X Slot)
    <3>1. PICK i \in DOMAIN hops : hops[i] = h
      BY <1>7, <2>1
    <3>2. inHop'[h] = Append(q[h], <<x, slots[i]>>) /\ <<x, slots[i]>> \in Message \X Slot
      BY <1>5, <1>13, <3>1
    <3> QED
      BY <3>2
  <2>2. \A h \in Hop : inHop'[h] \in Seq(Message \X Slot)
    BY <1>12, <2>1
  <2> QED
    BY <1>4, <2>2
<1>15. ASSUME NEW h \in Hop
       PROVE  /\ Len(inHop'[h]) = Len(q[h]) + IF h \in Range(hops) THEN 1 ELSE 0
              /\ \A i \in DOMAIN inHop'[h] :
                   \/ i \in DOMAIN q[h] /\ inHop'[h][i] = q[h][i]
                   \/ \E k \in DOMAIN hops :
                        h = hops[k] /\ i = Len(q[h]) + 1 /\ inHop'[h][i] = <<x, slots[k]>>
  <2>1. CASE h \in Range(hops)
    <3>1. PICK k \in DOMAIN hops : hops[k] = h
      BY <1>7, <2>1
    <3>2. inHop'[h] = Append(q[h], <<x, slots[k]>>) /\ q[h] \in Seq(Message \X Slot)
      BY <1>13, <3>1
    <3>3. Len(inHop'[h]) = Len(q[h]) + 1
      BY <3>2
    <3>4. \A i \in DOMAIN inHop'[h] :
            \/ i \in DOMAIN q[h] /\ inHop'[h][i] = q[h][i]
            \/ i = Len(q[h]) + 1 /\ inHop'[h][i] = <<x, slots[k]>>
      BY <3>2
    <3> QED
      BY <2>1, <3>1, <3>3, <3>4
  <2>2. CASE h \notin Range(hops)
    BY <1>12, <2>2
  <2> QED
    BY <2>1, <2>2
<1> QED
  BY <1>9, <1>10, <1>11, <1>14, <1>15 DEF Entered

\* A message in a hop has been started.
LEMMA Started ==
  ASSUME TypeOK, NEW F \in [Hop -> Nat], Flow(F),
         NEW h \in Hop, NEW i \in DOMAIN inHop[h]
  PROVE  /\ F[h] + i \in DOMAIN sent /\ inHop[h][i][1] = sent[F[h] + i]
         /\ inHop[h][i] \in Message \X Slot
<1>1. inHop[h] \in Seq(Message \X Slot) /\ sent \in Seq(Message) /\ F[h] \in Nat
  BY DEF TypeOK
<1>2. F[h] + Len(inHop[h]) <= Len(sent) /\ inHop[h][i][1] = sent[F[h] + i]
  BY DEF Flow, entered
<1> QED
  BY <1>1, <1>2

\* A message that is started enters the first hops, each in a slot of its own.
LEMMA StartKeeps ==
  ASSUME IInv, NEW x \in Message, Start(x)
  PROVE  IInv'
<1> DEFINE slots == [i \in DOMAIN FirstHops |-> i - 1]
           p == Len(sent) + 1
<1>1. PICK F \in [Hop -> Nat] : Flow(F) /\ Delivered(F) /\ Taken(F)
  BY DEF IInv
<1>2. TypeOK /\ SentOnce /\ InSlots /\ InArray
  BY DEF IInv
<1>3. /\ state[x] = "unsent" /\ state' = [state EXCEPT ![x] = "travelling"]
      /\ sent' = Append(sent, x) /\ delivered' = delivered
      /\ nextFreeCurrHop' = [nextFreeCurrHop EXCEPT ![x] = Len(FirstHops)]
      /\ enter(inHop, x, FirstHops, slots)
  BY DEF Start
<1>4. Len(FirstHops) \in 0..Cardinality(Hop) /\ Range(FirstHops) \subseteq Hop
  BY Hops, HopSet
<1>5. slots \in [DOMAIN FirstHops -> Slot] /\ IsInjective(slots)
  <2>1. \A i \in DOMAIN FirstHops : i \in Nat /\ i - 1 \in 0..(Len(FirstHops) - 1)
    BY Hops
  <2>2. \A i \in DOMAIN FirstHops : slots[i] \in Slot
    BY <1>4, <2>1, Hops DEF Slot
  <2>3. \A i, j \in DOMAIN FirstHops : slots[i] = slots[j] => i = j
    BY <2>1
  <2> QED
    BY <2>2, <2>3 DEF IsInjective
<1> HIDE DEF slots
<1>entered. Entered(inHop, x, FirstHops, slots)
  <2>1. /\ inHop \in [Hop -> Seq(Message \X Slot)]
        /\ currHop \in [Message -> [Slot -> Hop \cup {Null, Uninit}]]
        /\ FirstHops \in Seq(Hop) /\ IsInjective(FirstHops)
    BY <1>2, Hops DEF TypeOK
  <2> QED
    BY <1>3, <1>5, <2>1, Enter
<1>6. /\ currHop' \in [Message -> [Slot -> Hop \cup {Null, Uninit}]]
      /\ inHop' \in [Hop -> Seq(Message \X Slot)]
      /\ \A y \in Message : y # x => currHop'[y] = currHop[y]
      /\ \A i \in DOMAIN FirstHops : currHop'[x][slots[i]] = FirstHops[i]
      /\ \A h \in Hop : Len(inHop'[h]) = Len(inHop[h]) + IF h \in Range(FirstHops) THEN 1 ELSE 0
      /\ \A h \in Hop : \A i \in DOMAIN inHop'[h] :
           \/ i \in DOMAIN inHop[h] /\ inHop'[h][i] = inHop[h][i]
           \/ \E k \in DOMAIN FirstHops :
                h = FirstHops[k] /\ i = Len(inHop[h]) + 1 /\ inHop'[h][i] = <<x, slots[k]>>
  BY <1>entered DEF Entered
<1>7. /\ sent \in Seq(Message) /\ sent' \in Seq(Message) /\ Len(sent') = p /\ sent'[p] = x
      /\ DOMAIN sent = 1..(p - 1) /\ DOMAIN sent' = 1..p /\ p \in Nat \ {0}
      /\ \A i \in DOMAIN sent : sent'[i] = sent[i]
  BY <1>2, <1>3 DEF TypeOK
<1>8. x \notin Range(sent) /\ \A i \in DOMAIN sent : sent[i] # x /\ sent[i] \in Message
  BY <1>2, <1>3, <1>7 DEF SentOnce, Range
<1>9. \A h \in Hop : \A i \in DOMAIN inHop[h] : inHop[h][i][1] \in Message \ {x}
  BY <1>1, <1>2, <1>8, Started
<1>10. TypeOK'
  <2>1. state' \in [Message -> {"unsent", "travelling", "released"}]
    BY <1>2, <1>3 DEF TypeOK
  <2>2. nextFreeCurrHop' \in [Message -> 0..Cardinality(Hop)]
    BY <1>2, <1>3, <1>4 DEF TypeOK
  <2> QED
    BY <1>2, <1>3, <1>6, <1>7, <2>1, <2>2 DEF TypeOK
<1>11. SentOnce'
  <2>1. IsInjective(sent')
    BY <1>2, <1>7, <1>8 DEF SentOnce, IsInjective
  <2>2. \A y \in Message : y \in Range(sent') <=> y = x \/ y \in Range(sent)
    BY <1>7 DEF Range
  <2>3. \A y \in Message : state'[y] = "unsent" <=> y # x /\ state[y] = "unsent"
    BY <1>2, <1>3 DEF TypeOK
  <2> QED
    BY <1>2, <2>1, <2>2, <2>3 DEF SentOnce
<1>12. InSlots'
  <2> SUFFICES ASSUME NEW h \in Hop, NEW i \in DOMAIN inHop'[h]
               PROVE  /\ currHop'[inHop'[h][i][1]][inHop'[h][i][2]] = h
                      /\ inHop'[h][i][2] < nextFreeCurrHop'[inHop'[h][i][1]]
                      /\ state'[inHop'[h][i][1]] # "released"
    BY DEF InSlots
  <2>1. CASE i \in DOMAIN inHop[h] /\ inHop'[h][i] = inHop[h][i]
    <3> DEFINE y == inHop[h][i][1]
    <3>1. y \in Message /\ y # x
      BY <1>9, <2>1
    <3>2. currHop'[y] = currHop[y] /\ nextFreeCurrHop'[y] = nextFreeCurrHop[y] /\ state'[y] = state[y]
      BY <1>2, <1>3, <1>6, <3>1 DEF TypeOK
    <3>3. /\ currHop[y][inHop[h][i][2]] = h /\ inHop[h][i][2] < nextFreeCurrHop[y]
          /\ state[y] # "released"
      BY <1>2, <2>1 DEF InSlots
    <3> QED
      BY <2>1, <3>2, <3>3
  <2>2. CASE \E k \in DOMAIN FirstHops : h = FirstHops[k] /\ inHop'[h][i] = <<x, slots[k]>>
    <3>1. PICK k \in DOMAIN FirstHops : h = FirstHops[k] /\ inHop'[h][i] = <<x, slots[k]>>
      BY <2>2
    <3>2. inHop'[h][i][1] = x /\ inHop'[h][i][2] = slots[k]
      BY <3>1
    <3>3. nextFreeCurrHop'[x] = Len(FirstHops) /\ state'[x] = "travelling"
      BY <1>2, <1>3 DEF TypeOK
    <3>4. slots[k] < Len(FirstHops)
      BY Hops DEF slots
    <3> QED
      BY <1>6, <3>1, <3>2, <3>3, <3>4
  <2> QED
    BY <1>6, <2>1, <2>2
<1>13. \A h \in Hop : /\ entered(F, h)' = entered(F, h) + IF h \in Range(FirstHops) THEN 1 ELSE 0
                      /\ entered(F, h) \in 0..Len(sent)
  BY <1>1, <1>2, <1>6 DEF entered, TypeOK, Flow
<1>14. Flow(F)'
  <2>1. \A h \in Range(FirstHops) : entered(F, h)' = Len(sent')
    BY <1>1, <1>4, <1>7, <1>13 DEF Flow
  <2>2. \A g \in Hop : \A h \in Range(ChildHops[g]) : entered(F, h)' = F[g]
    <3>1. \A g \in Hop : \A h \in Range(ChildHops[g]) : h \in Hop /\ h \notin Range(FirstHops)
      BY Hops
    <3> QED
      BY <1>1, <1>13, <3>1 DEF Flow
  <2>3. \A h \in Hop : entered(F, h)' <= Len(sent')
    BY <1>7, <1>13
  <2>4. \A h \in Hop : \A i \in DOMAIN inHop'[h] : inHop'[h][i][1] = sent'[F[h] + i]
    <3> SUFFICES ASSUME NEW h \in Hop, NEW i \in DOMAIN inHop'[h]
                 PROVE  inHop'[h][i][1] = sent'[F[h] + i]
      OBVIOUS
    <3>1. CASE i \in DOMAIN inHop[h] /\ inHop'[h][i] = inHop[h][i]
      BY <1>1, <1>2, <1>7, <3>1, Started
    <3>2. CASE \E k \in DOMAIN FirstHops :
                 h = FirstHops[k] /\ i = Len(inHop[h]) + 1 /\ inHop'[h][i] = <<x, slots[k]>>
      <4>1. h \in Range(FirstHops) /\ inHop'[h][i][1] = x /\ i = Len(inHop[h]) + 1
        BY <3>2 DEF Range
      <4>2. F[h] + Len(inHop[h]) = Len(sent) /\ F[h] \in Nat /\ Len(inHop[h]) \in Nat
        BY <1>1, <1>2, <4>1 DEF Flow, entered, TypeOK
      <4> QED
        BY <1>7, <4>1, <4>2
    <3> QED
      BY <1>6, <3>1, <3>2
  <2> QED
    BY <2>1, <2>2, <2>3, <2>4 DEF Flow
<1>15. Delivered(F)'
  <2>1. \A h \in Hop : F[h] \in Nat /\ F[h] <= Len(sent)
    BY <1>1, <1>2, <1>13 DEF entered, TypeOK
  <2>2. \A h \in Hop : \A i \in 1..F[h] : sent'[i] = sent[i]
    BY <1>7, <2>1
  <2> QED
    BY <1>1, <1>3, <2>2 DEF Delivered
<1>16. Taken(F)'
  <2> SUFFICES ASSUME NEW n \in DOMAIN sent'
               PROVE  nextFreeCurrHop'[sent'[n]] = Cardinality({h \in Hop : n <= entered(F, h)'})
    BY DEF Taken
  <2>1. CASE n \in DOMAIN sent
    <3>1. \A h \in Hop : n <= entered(F, h)' <=> n <= entered(F, h)
      BY <1>1, <1>4, <1>7, <1>13, <2>1 DEF Flow
    <3>2. {h \in Hop : n <= entered(F, h)'} = {h \in Hop : n <= entered(F, h)}
      BY <3>1
    <3>3. nextFreeCurrHop'[sent'[n]] = nextFreeCurrHop[sent[n]]
      BY <1>2, <1>3, <1>7, <1>8, <2>1 DEF TypeOK
    <3> QED
      BY <1>1, <2>1, <3>2, <3>3 DEF Taken
  <2>2. CASE n = p
    <3>1. \A h \in Hop : p <= entered(F, h)' <=> h \in Range(FirstHops)
      BY <1>1, <1>4, <1>7, <1>13 DEF Flow
    <3>2. {h \in Hop : n <= entered(F, h)'} = Range(FirstHops)
      BY <1>4, <2>2, <3>1
    <3>3. nextFreeCurrHop'[x] = Len(FirstHops)
      BY <1>2, <1>3 DEF TypeOK
    <3> QED
      BY <1>7, <2>2, <3>2, <3>3, Hops
  <2> QED
    BY <1>7, <2>1, <2>2
<1>17. InArray'
  <2> SUFFICES ASSUME SlotsSuffice, NEW h \in Hop, NEW i \in DOMAIN inHop'[h]
               PROVE  inHop'[h][i][2] < Cardinality(Destination)
    BY DEF InArray
  <2>1. CASE i \in DOMAIN inHop[h] /\ inHop'[h][i] = inHop[h][i]
    BY <1>2, <2>1 DEF InArray
  <2>2. CASE \E k \in DOMAIN FirstHops : inHop'[h][i] = <<x, slots[k]>>
    <3>1. PICK k \in DOMAIN FirstHops : inHop'[h][i] = <<x, slots[k]>>
      BY <2>2
    <3>2. inHop'[h][i][2] = slots[k]
      BY <3>1
    <3>3. slots[k] < Len(FirstHops) /\ slots[k] \in Int
      BY Hops, SMTT(30) DEF slots
    <3>4. Len(FirstHops) <= Cardinality(Destination)
      BY DEF SlotsSuffice
    <3> QED
      BY <3>2, <3>3, <3>4, Hops
  <2> QED
    BY <1>6, <2>1, <2>2
<1> QED
  BY <1>1, <1>10, <1>11, <1>12, <1>14, <1>15, <1>16, <1>17 DEF IInv

\* When message x leaves hop h and slot s, q is what is left in the hops: what
\* has entered them and not been finished, E being the numbers of messages
\* finished, each in its slot, which is not that of x in h.
Left(F, h, x, s, q, E) ==
  /\ E \in [Hop -> Nat] /\ E = [F EXCEPT ![h] = @ + 1]
  /\ q \in [Hop -> Seq(Message \X Slot)]
  /\ x \in Message /\ s \in Slot
  /\ F[h] + 1 \in DOMAIN sent /\ x = sent[F[h] + 1]
  /\ currHop[x][s] = h /\ s < nextFreeCurrHop[x] /\ state[x] # "released"
  /\ \A g \in Hop : E[g] + Len(q[g]) = entered(F, g)
  /\ \A g \in Hop : \A i \in DOMAIN q[g] :
       /\ q[g][i] \in Message \X Slot
       /\ E[g] + i \in DOMAIN sent /\ q[g][i][1] = sent[E[g] + i]
       /\ currHop[q[g][i][1]][q[g][i][2]] = g
       /\ q[g][i][2] < nextFreeCurrHop[q[g][i][1]]
       /\ state[q[g][i][1]] # "released"
       /\ q[g][i][1] = x => q[g][i][2] # s
  /\ SlotsSuffice =>
       /\ s < Cardinality(Destination)
       /\ \A g \in Hop : \A i \in DOMAIN q[g] : q[g][i][2] < Cardinality(Destination)

\* The oldest message of a hop leaves it.
LEMMA Leave ==
  ASSUME IInv, NEW F \in [Hop -> Nat], Flow(F), NEW h \in Hop, inHop[h] # <<>>,
         NEW x, x = Head(inHop[h])[1], NEW s, s = Head(inHop[h])[2],
         NEW q, q = [inHop EXCEPT ![h] = Tail(@)],
         NEW E, E = [F EXCEPT ![h] = @ + 1]
  PROVE  Left(F, h, x, s, q, E)
<1>1. TypeOK /\ SentOnce /\ InSlots
  BY DEF IInv
<1>2. inHop[h] \in Seq(Message \X Slot) /\ 1 \in DOMAIN inHop[h] /\ Head(inHop[h]) = inHop[h][1]
  BY <1>1 DEF TypeOK
<1>3. /\ x \in Message /\ s \in Slot
      /\ F[h] + 1 \in DOMAIN sent /\ x = sent[F[h] + 1]
  BY <1>1, <1>2, Started
<1>4. currHop[x][s] = h /\ s < nextFreeCurrHop[x] /\ state[x] # "released"
  BY <1>1, <1>2 DEF InSlots
<1>5. /\ q[h] \in Seq(Message \X Slot) /\ Len(q[h]) = Len(inHop[h]) - 1 /\ E[h] = F[h] + 1
      /\ \A i \in DOMAIN q[h] : i + 1 \in DOMAIN inHop[h] /\ q[h][i] = inHop[h][i + 1]
  BY <1>1, <1>2 DEF TypeOK
<1>6. \A g \in Hop : g # h => q[g] = inHop[g] /\ E[g] = F[g]
  BY <1>1 DEF TypeOK
<1>7. E \in [Hop -> Nat] /\ q \in [Hop -> Seq(Message \X Slot)]
  BY <1>1, <1>5 DEF TypeOK
<1>8. \A g \in Hop : E[g] + Len(q[g]) = entered(F, g)
  <2>1. \A g \in Hop : F[g] \in Nat /\ Len(inHop[g]) \in Nat
    BY <1>1 DEF TypeOK
  <2> QED
    BY <1>5, <1>6, <2>1 DEF entered
<1>9. ASSUME NEW g \in Hop, NEW i \in DOMAIN q[g]
      PROVE  \E k \in DOMAIN inHop[g] : q[g][i] = inHop[g][k] /\ E[g] + i = F[g] + k
  <2>1. i \in Nat
    BY <1>7
  <2>2. CASE g = h
    <3>1. i + 1 \in DOMAIN inHop[h] /\ q[h][i] = inHop[h][i + 1]
      BY <1>5, <2>2
    <3>2. E[h] + i = F[h] + (i + 1)
      BY <1>5, <2>1
    <3> QED
      BY <2>2, <3>1, <3>2
  <2>3. CASE g # h
    BY <1>6, <2>3
  <2> QED
    BY <2>2, <2>3
<1>10. ASSUME NEW g \in Hop, NEW i \in DOMAIN q[g]
       PROVE  /\ q[g][i] \in Message \X Slot
              /\ E[g] + i \in DOMAIN sent /\ q[g][i][1] = sent[E[g] + i]
              /\ currHop[q[g][i][1]][q[g][i][2]] = g
              /\ q[g][i][2] < nextFreeCurrHop[q[g][i][1]]
              /\ state[q[g][i][1]] # "released"
  <2>1. PICK k \in DOMAIN inHop[g] : q[g][i] = inHop[g][k] /\ E[g] + i = F[g] + k
    BY <1>9
  <2>2. /\ F[g] + k \in DOMAIN sent /\ inHop[g][k][1] = sent[F[g] + k]
        /\ inHop[g][k] \in Message \X Slot
    BY <1>1, Started
  <2>3. /\ currHop[inHop[g][k][1]][inHop[g][k][2]] = g
        /\ inHop[g][k][2] < nextFreeCurrHop[inHop[g][k][1]]
        /\ state[inHop[g][k][1]] # "released"
    BY <1>1 DEF InSlots
  <2> QED
    BY <2>1, <2>2, <2>3
<1>11. ASSUME NEW g \in Hop, NEW i \in DOMAIN q[g], q[g][i][1] = x, q[g][i][2] = s
       PROVE  FALSE
  <2>1. g = h
    BY <1>4, <1>10, <1>11
  <2>2. E[g] + i = F[h] + 1
    BY <1>1, <1>3, <1>10, <1>11 DEF SentOnce, IsInjective
  <2> QED
    BY <1>5, <2>1, <2>2
<1>12. SlotsSuffice =>
         /\ s < Cardinality(Destination)
         /\ \A g \in Hop : \A i \in DOMAIN q[g] : q[g][i][2] < Cardinality(Destination)
  <2> SUFFICES ASSUME SlotsSuffice
               PROVE  /\ s < Cardinality(Destination)
                      /\ \A g \in Hop : \A i \in DOMAIN q[g] :
                           q[g][i][2] < Cardinality(Destination)
    OBVIOUS
  <2>1. \A g \in Hop : \A i \in DOMAIN inHop[g] : inHop[g][i][2] < Cardinality(Destination)
    BY DEF IInv, InArray
  <2> QED
    BY <1>2, <1>9, <2>1, ZenonT(60)
<1> QED
  BY <1>3, <1>4, <1>7, <1>8, <1>10, <1>11, <1>12, SMTT(30) DEF Left

\* The destinations of hop h get message x.
deliver(h, x) ==
  delivered' = [d \in Destination |->
    IF d \in DestOf[h] THEN Append(delivered[d], x) ELSE delivered[d]]

\* What hop h has finished is delivered to its destinations, and nothing else.
LEMMA Delivers ==
  ASSUME TypeOK, sent' = sent, NEW F \in [Hop -> Nat], Flow(F), Delivered(F), NEW h \in Hop,
         NEW x \in Message, F[h] + 1 \in DOMAIN sent, x = sent[F[h] + 1],
         deliver(h, x), NEW E, E = [F EXCEPT ![h] = @ + 1]
  PROVE  delivered' \in [Destination -> Seq(Message)] /\ Delivered(E)'
<1>1. delivered \in [Destination -> Seq(Message)]
  BY DEF TypeOK
<1>2. delivered' \in [Destination -> Seq(Message)]
  BY <1>1 DEF deliver
<1>3. ASSUME NEW g \in Hop, NEW d \in DestOf[g]
      PROVE  Len(delivered'[d]) = E[g] /\ \A i \in 1..E[g] : delivered'[d][i] = sent[i]
  <2>1. d \in Destination /\ delivered[d] \in Seq(Message)
    BY <1>1 DEF Destination
  <2>2. Len(delivered[d]) = F[g] /\ \A i \in 1..F[g] : delivered[d][i] = sent[i]
    BY DEF Delivered
  <2>3. CASE g = h
    <3>1. delivered'[d] = Append(delivered[d], x) /\ E[g] = F[g] + 1
      BY <2>1, <2>3 DEF deliver
    <3> QED
      BY <2>1, <2>2, <2>3, <3>1
  <2>4. CASE g # h
    <3>1. d \notin DestOf[h]
      BY <2>4, ConstantsAssumption DEF Tree
    <3>2. delivered'[d] = delivered[d] /\ E[g] = F[g]
      BY <2>1, <2>4, <3>1 DEF deliver
    <3> QED
      BY <2>2, <3>2
  <2> QED
    BY <2>3, <2>4
<1>4. ASSUME NEW g \in Hop, NEW d \in DestOf[g]
      PROVE  Len(delivered'[d]) = E[g] /\ \A i \in 1..E[g] : delivered'[d][i] = sent'[i]
  <2>1. \A i \in 1..E[g] : delivered'[d][i] = sent[i]
    BY <1>3
  <2>2. \A i \in 1..E[g] : delivered'[d][i] = sent'[i]
    BY <2>1
  <2> QED
    BY <1>3, <2>2
<1> QED
  BY <1>2, <1>4 DEF Delivered

\* The children of a hop in slot s get slots of their own: s and free ones.
LEMMA ChildSlots ==
  ASSUME NEW x, NEW s \in Nat, NEW n \in Nat \ {0}, nextFreeCurrHop[x] \in Nat,
         s < nextFreeCurrHop[x], NEW c \in Nat, nextFreeCurrHop[x] + n <= c
  PROVE  /\ childSlots(x, s, n) \in [1..n -> 0..c] /\ IsInjective(childSlots(x, s, n))
         /\ \A i \in 1..n :
              /\ childSlots(x, s, n)[i] < nextFreeCurrHop[x] + n
              /\ childSlots(x, s, n)[i] = s \/ childSlots(x, s, n)[i] \in
                                               nextFreeCurrHop[x]..(nextFreeCurrHop[x] + n - 2)
<1> DEFINE free == nextFreeCurrHop[x]
           slots == childSlots(x, s, n)
<1>1. slots = [i \in 1..n |-> IF i = 1 THEN s ELSE free + i - 2]
  BY DEF childSlots
<1>2. DOMAIN slots = 1..n /\ slots[1] = s /\ \A i \in 2..n : slots[i] = free + i - 2
  BY <1>1
<1>3. slots \in [1..n -> Int]
  BY <1>1
<1> HIDE DEF slots
<1>4. ASSUME NEW i \in 1..n
      PROVE  slots[i] \in 0..c /\ slots[i] < free + n /\ (slots[i] = s \/ slots[i] \in free..(free + n - 2))
  <2>1. i = 1 \/ i \in 2..n
    OBVIOUS
  <2> QED
    BY <1>2, <2>1
<1>5. ASSUME NEW i \in 1..n, NEW j \in 1..n, slots[i] = slots[j]
      PROVE  i = j
  <2>1. (i = 1 \/ i \in 2..n) /\ (j = 1 \/ j \in 2..n)
    OBVIOUS
  <2> QED
    BY <1>2, <1>5, <2>1
<1>6. IsInjective(slots)
  BY <1>2, <1>5 DEF IsInjective
<1>7. slots \in [1..n -> 0..c]
  BY <1>3, <1>4
<1> QED
  BY <1>4, <1>6, <1>7 DEF slots

\* A hop with children is followed by them: in the slot it had, and free ones.
LEMMA ChildrenKeep ==
  ASSUME TypeOK, SentOnce, InSlots, NEW F \in [Hop -> Nat], Flow(F), Taken(F),
         NEW h \in Hop, NEW x, NEW s, NEW q, NEW E, Left(F, h, x, s, q, E),
         ChildHops[h] # <<>>, startChildHops(q, x, s, h), sent' = sent,
         delivered' \in [Destination -> Seq(Message)]
  PROVE  TypeOK' /\ SentOnce' /\ InSlots' /\ InArray' /\ Flow(E)' /\ Taken(E)'
<1> DEFINE n == Len(ChildHops[h])
           slots == childSlots(x, s, n)
           p == F[h] + 1
           free == nextFreeCurrHop[x]
<1>1. TypeOK /\ SentOnce /\ InSlots
  OBVIOUS
<1>2. /\ E \in [Hop -> Nat] /\ E = [F EXCEPT ![h] = @ + 1] /\ q \in [Hop -> Seq(Message \X Slot)]
      /\ x \in Message /\ s \in Slot
      /\ p \in DOMAIN sent /\ x = sent[p]
      /\ currHop[x][s] = h /\ s < free /\ state[x] # "released"
  BY DEF Left
<1>3. \A g \in Hop : E[g] + Len(q[g]) = entered(F, g)
  BY DEF Left
<1>4. ASSUME NEW g \in Hop, NEW i \in DOMAIN q[g]
      PROVE  /\ q[g][i] \in Message \X Slot
             /\ E[g] + i \in DOMAIN sent /\ q[g][i][1] = sent[E[g] + i]
             /\ currHop[q[g][i][1]][q[g][i][2]] = g
             /\ q[g][i][2] < nextFreeCurrHop[q[g][i][1]]
             /\ state[q[g][i][1]] # "released"
             /\ q[g][i][1] = x => q[g][i][2] # s
  BY DEF Left
<1>5. /\ ChildHops[h] \in Seq(Hop) /\ IsInjective(ChildHops[h]) /\ n \in Nat \ {0}
      /\ Range(ChildHops[h]) \subseteq Hop /\ Range(ChildHops[h]) \cap Range(FirstHops) = {}
      /\ IsFiniteSet(Range(ChildHops[h])) /\ Cardinality(Range(ChildHops[h])) = n
  BY Hops
<1>6. /\ enter(q, x, ChildHops[h], slots) /\ state' = state
      /\ nextFreeCurrHop' = [nextFreeCurrHop EXCEPT ![x] = @ + n]
  BY DEF startChildHops
<1>7. /\ \A g \in Hop : F[g] \in Nat /\ entered(F, g) \in 0..Len(sent)
      /\ Len(sent) \in Nat /\ free \in Nat /\ s \in Nat
      /\ entered(F, h) >= p /\ h \in Hop
  <2>1. \A g \in Hop : F[g] \in Nat /\ Len(inHop[g]) \in Nat
    BY <1>1 DEF TypeOK
  <2>2. Len(sent) \in Nat /\ free \in Nat /\ s \in Nat
    BY <1>1, <1>2 DEF TypeOK, Slot
  <2>3. \A g \in Hop : entered(F, g) \in 0..Len(sent)
    BY <2>1, <2>2 DEF entered, Flow
  <2>4. E[h] + Len(q[h]) = entered(F, h) /\ E[h] = p /\ Len(q[h]) \in Nat
    BY <1>2, <1>3
  <2> QED
    BY <2>1, <2>2, <2>3, <2>4
<1>only. /\ E[h] = p
         /\ \A g \in Hop : E[g] \in Nat /\ Len(q[g]) \in Nat /\ (g # h => E[g] = F[g])
  BY <1>2
<1>flow. \A f \in Hop : \A g \in Range(ChildHops[f]) : g \in Hop /\ entered(F, g) = F[f]
  BY Hops DEF Flow
\* The hops the message enters are new to it, so that there is a slot for each.
<1>8. ASSUME NEW m \in DOMAIN sent
      PROVE  {g \in Hop : m <= entered(F, g) + IF g \in Range(ChildHops[h]) THEN 1 ELSE 0}
               = {g \in Hop : m <= entered(F, g)} \cup
                 (IF m = p THEN Range(ChildHops[h]) ELSE {})
  <2>1. \A g \in Range(ChildHops[h]) : entered(F, g) = p - 1
    BY <1>7 DEF Flow
  <2> QED
    BY <1>5, <1>7, <2>1, SMTT(30)
<1>9. free = Cardinality({g \in Hop : p <= entered(F, g)})
  BY <1>2 DEF Taken
<1>10. free + n = Cardinality({g \in Hop : p <= entered(F, g)} \cup Range(ChildHops[h]))
  <2> DEFINE S == {g \in Hop : p <= entered(F, g)}
  <2>1. S \cap Range(ChildHops[h]) = {}
    BY <1>7 DEF Flow
  <2>2. IsFiniteSet(S) /\ Cardinality(S) \in Nat
    BY HopSet
  <2>3. Cardinality(S \cup Range(ChildHops[h]))
          = Cardinality(S) + Cardinality(Range(ChildHops[h])) - Cardinality(S \cap Range(ChildHops[h]))
    BY <1>5, <2>2, FS_Union
  <2> QED
    <3>1. Cardinality(S \cap Range(ChildHops[h])) = 0
      BY <2>1, FS_EmptySet
    <3> QED
      BY <1>5, <1>9, <2>2, <2>3, <3>1
<1>11. free + n <= Cardinality(Hop) /\ Cardinality(Hop) \in Nat
  BY <1>5, <1>10, Hops, HopSet
<1>12. /\ slots \in [DOMAIN ChildHops[h] -> Slot] /\ IsInjective(slots)
       /\ \A i \in DOMAIN ChildHops[h] : slots[i] < free + n
       /\ \A i \in DOMAIN ChildHops[h] : slots[i] = s \/ slots[i] \in free..(free + n - 2)
  <2>1. DOMAIN ChildHops[h] = 1..n
    BY <1>5
  <2>2. /\ slots \in [1..n -> 0..Cardinality(Hop)] /\ IsInjective(slots)
        /\ \A i \in 1..n : slots[i] < free + n /\ (slots[i] = s \/ slots[i] \in free..(free + n - 2))
    BY <1>2, <1>5, <1>7, <1>11, ChildSlots
  <2> QED
    BY <2>1, <2>2 DEF Slot
<1> HIDE DEF slots
<1>13. Entered(q, x, ChildHops[h], slots)
  <2>1. currHop \in [Message -> [Slot -> Hop \cup {Null, Uninit}]]
    BY <1>1 DEF TypeOK
  <2> QED
    BY <1>2, <1>5, <1>6, <1>12, <2>1, Enter
<1>14. /\ currHop' \in [Message -> [Slot -> Hop \cup {Null, Uninit}]]
       /\ inHop' \in [Hop -> Seq(Message \X Slot)]
       /\ \A y \in Message : y # x => currHop'[y] = currHop[y]
       /\ \A i \in DOMAIN ChildHops[h] : currHop'[x][slots[i]] = ChildHops[h][i]
       /\ \A t \in Slot : t \notin Range(slots) => currHop'[x][t] = currHop[x][t]
  BY <1>13 DEF Entered
<1>15. /\ \A g \in Hop :
            Len(inHop'[g]) = Len(q[g]) + IF g \in Range(ChildHops[h]) THEN 1 ELSE 0
       /\ \A g \in Hop : \A i \in DOMAIN inHop'[g] :
            \/ i \in DOMAIN q[g] /\ inHop'[g][i] = q[g][i]
            \/ \E k \in DOMAIN ChildHops[h] :
                 g = ChildHops[h][k] /\ i = Len(q[g]) + 1 /\ inHop'[g][i] = <<x, slots[k]>>
  BY <1>13 DEF Entered
<1>16. TypeOK'
  <2>1. nextFreeCurrHop' \in [Message -> 0..Cardinality(Hop)]
    <3> HIDE DEF n, free
    <3>1. free + n \in 0..Cardinality(Hop)
      BY <1>5, <1>7, <1>11
    <3>2. nextFreeCurrHop \in [Message -> 0..Cardinality(Hop)]
      BY <1>1 DEF TypeOK
    <3>3. nextFreeCurrHop' = [nextFreeCurrHop EXCEPT ![x] = free + n]
      BY <1>6 DEF free
    <3> QED
      BY <3>1, <3>2, <3>3
  <2> QED
    BY <1>1, <1>6, <1>14, <2>1 DEF TypeOK
<1>17. SentOnce'
  BY <1>1, <1>6 DEF SentOnce
<1>18. InSlots'
  <2> SUFFICES ASSUME NEW g \in Hop, NEW i \in DOMAIN inHop'[g]
               PROVE  /\ currHop'[inHop'[g][i][1]][inHop'[g][i][2]] = g
                      /\ inHop'[g][i][2] < nextFreeCurrHop'[inHop'[g][i][1]]
                      /\ state'[inHop'[g][i][1]] # "released"
    BY DEF InSlots
  <2>1. CASE i \in DOMAIN q[g] /\ inHop'[g][i] = q[g][i]
    <3> DEFINE y == q[g][i][1]
               t == q[g][i][2]
    <3>1. /\ y \in Message /\ t \in Slot /\ state[y] # "released"
          /\ currHop[y][t] = g /\ t < nextFreeCurrHop[y] /\ (y = x => t # s)
      BY <1>4, <2>1
    <3>2. CASE y = x
      <4>1. t \notin Range(slots)
        BY <1>7, <1>12, <3>1, <3>2, SMTT(30) DEF Range, Slot
      <4>2. currHop'[x][t] = g /\ nextFreeCurrHop'[x] = free + n
        BY <1>1, <1>2, <1>6, <1>14, <3>1, <3>2, <4>1 DEF TypeOK
      <4> QED
        BY <1>5, <1>6, <1>7, <2>1, <3>1, <3>2, <4>2, SMTT(30) DEF Slot
    <3>3. CASE y # x
      BY <1>1, <1>6, <1>14, <2>1, <3>1, <3>3 DEF TypeOK
    <3> QED
      BY <3>2, <3>3
  <2>2. CASE \E k \in DOMAIN ChildHops[h] : g = ChildHops[h][k] /\ inHop'[g][i] = <<x, slots[k]>>
    <3>1. PICK k \in DOMAIN ChildHops[h] : g = ChildHops[h][k] /\ inHop'[g][i] = <<x, slots[k]>>
      BY <2>2
    <3>2. inHop'[g][i][1] = x /\ inHop'[g][i][2] = slots[k]
      BY <3>1
    <3>3. nextFreeCurrHop'[x] = free + n /\ state'[x] # "released"
      BY <1>1, <1>2, <1>6 DEF TypeOK
    <3> QED
      BY <1>12, <1>14, <3>1, <3>2, <3>3
  <2> QED
    BY <1>15, <2>1, <2>2
<1>19. ASSUME NEW g \in Hop
       PROVE  entered(E, g)' = entered(F, g) + IF g \in Range(ChildHops[h]) THEN 1 ELSE 0
  <2>1. entered(E, g)' = E[g] + Len(inHop'[g])
    BY DEF entered
  <2>2. CASE g \in Range(ChildHops[h])
    <3>1. Len(inHop'[g]) = Len(q[g]) + 1
      BY <1>15, <2>2
    <3>2. E[g] + Len(q[g]) = entered(F, g) /\ E[g] \in Nat /\ Len(q[g]) \in Nat
      BY <1>3, <1>only
    <3> QED
      BY <2>1, <2>2, <3>1, <3>2
  <2>3. CASE g \notin Range(ChildHops[h])
    <3>1. Len(inHop'[g]) = Len(q[g]) + 0
      BY <1>15, <2>3
    <3>2. E[g] + Len(q[g]) = entered(F, g) /\ E[g] \in Nat /\ Len(q[g]) \in Nat
      BY <1>3, <1>only
    <3> QED
      BY <2>1, <2>3, <3>1, <3>2
  <2> QED
    BY <2>2, <2>3
<1>20. Flow(E)'
  <2>1. \A g \in Range(FirstHops) : entered(E, g)' = Len(sent)
    BY <1>5, <1>7, <1>19, Hops DEF Flow
  <2>2. ASSUME NEW f \in Hop, NEW g \in Range(ChildHops[f])
        PROVE  entered(E, g)' = E[f]
    <3>1. g \in Hop /\ entered(F, g) = F[f]
      BY <1>flow
    <3>2. CASE f = h
      BY <1>7, <1>19, <1>only, <3>1, <3>2
    <3>3. CASE f # h
      <4>1. g \notin Range(ChildHops[h])
        BY <3>3, ConstantsAssumption DEF Tree
      <4> QED
        BY <1>7, <1>19, <1>only, <3>1, <3>3, <4>1
    <3> QED
      BY <3>2, <3>3
  <2>3. ASSUME NEW g \in Hop
        PROVE  entered(E, g)' <= Len(sent)
    <3>1. g \in Range(ChildHops[h]) => entered(F, g) = p - 1
      BY <1>7 DEF Flow
    <3>2. p <= Len(sent)
      BY <1>7
    <3> QED
      BY <1>7, <1>19, <3>1, <3>2
  <2>4. ASSUME NEW g \in Hop, NEW i \in DOMAIN inHop'[g]
        PROVE  inHop'[g][i][1] = sent[E[g] + i]
    <3>1. CASE i \in DOMAIN q[g] /\ inHop'[g][i] = q[g][i]
      BY <1>4, <3>1
    <3>2. CASE \E k \in DOMAIN ChildHops[h] :
                 g = ChildHops[h][k] /\ i = Len(q[g]) + 1 /\ inHop'[g][i] = <<x, slots[k]>>
      <4>1. g \in Range(ChildHops[h]) /\ i = Len(q[g]) + 1 /\ inHop'[g][i][1] = x
        BY <3>2 DEF Range
      <4>2. entered(F, g) = p - 1 /\ E[g] \in Nat /\ Len(q[g]) \in Nat
        BY <1>7, <1>only, <1>flow, <4>1
      <4>3. E[g] + i = p
        BY <1>3, <1>7, <4>1, <4>2
      <4> QED
        BY <1>2, <4>1, <4>3
    <3> QED
      BY <1>15, <3>1, <3>2
  <2> QED
    BY <2>1, <2>2, <2>3, <2>4 DEF Flow
<1>21. Taken(E)'
  <2> SUFFICES ASSUME NEW m \in DOMAIN sent
               PROVE  nextFreeCurrHop'[sent[m]] = Cardinality({g \in Hop : m <= entered(E, g)'})
    BY DEF Taken
  <2>1. {g \in Hop : m <= entered(E, g)'} =
          {g \in Hop : m <= entered(F, g)} \cup (IF m = p THEN Range(ChildHops[h]) ELSE {})
    BY <1>8, <1>19
  <2>2. CASE m = p
    BY <1>1, <1>2, <1>6, <1>10, <2>1, <2>2 DEF TypeOK
  <2>3. CASE m # p
    <3>1. sent[m] \in Message /\ sent[m] # x
      BY <1>1, <1>2, <2>3 DEF TypeOK, SentOnce, IsInjective
    <3>2. nextFreeCurrHop'[sent[m]] = nextFreeCurrHop[sent[m]]
      BY <1>1, <1>6, <3>1 DEF TypeOK
    <3> QED
      BY <2>1, <2>3, <3>2 DEF Taken
  <2> QED
    BY <2>2, <2>3
\* A fork is the first hop that goes on, so that the message has handed out
\* slots to the first hops only when it gets there.
<1>22. ASSUME SlotsSuffice, n > 1
       PROVE  free = Len(FirstHops)
  <2>1. /\ h \in Range(FirstHops)
        /\ \A g \in Range(FirstHops) : g # h => ChildHops[g] = <<>>
    BY <1>22 DEF SlotsSuffice
  <2> DEFINE S == {g \in Hop : p <= entered(F, g) => g \in Range(FirstHops)}
  <2>2. Range(FirstHops) \subseteq S
    BY Hops
  <2>3. ASSUME NEW f \in S, NEW g \in Range(ChildHops[f])
        PROVE  g \in S
    <3>1. g \in Hop /\ entered(F, g) = F[f]
      BY <1>flow
    <3>2. CASE f = h
      BY <1>7, <3>1, <3>2
    <3>3. CASE f # h
      <4>1. ChildHops[f] # <<>>
        BY DEF Range
      <4>2. ~(p <= entered(F, f))
        BY <2>1, <3>3, <4>1
      <4>3. F[f] <= entered(F, f)
        <5>1. F[f] \in Nat /\ Len(inHop[f]) \in Nat
          BY <1>1 DEF TypeOK
        <5> QED
          BY <5>1 DEF entered
      <4> QED
        BY <1>7, <3>1, <4>2, <4>3
    <3> QED
      BY <3>2, <3>3
  <2>4. S = Hop
    BY <2>2, <2>3, TreeInduction
  <2>5. \A g \in Range(FirstHops) : g \in Hop /\ p <= entered(F, g)
    <3>1. \A g \in Range(FirstHops) : g \in Hop /\ entered(F, g) = Len(sent)
      BY Hops DEF Flow
    <3> QED
      BY <1>7, <3>1
  <2>6. {g \in Hop : p <= entered(F, g)} = Range(FirstHops)
    BY <2>4, <2>5
  <2> QED
    BY <1>9, <2>6, Hops
<1>23. InArray'
  <2> SUFFICES ASSUME SlotsSuffice, NEW g \in Hop, NEW i \in DOMAIN inHop'[g]
               PROVE  inHop'[g][i][2] < Cardinality(Destination)
    BY DEF InArray
  <2>1. CASE i \in DOMAIN q[g] /\ inHop'[g][i] = q[g][i]
    BY <2>1 DEF Left
  <2>2. CASE \E k \in DOMAIN ChildHops[h] : inHop'[g][i] = <<x, slots[k]>>
    <3>1. PICK k \in DOMAIN ChildHops[h] : inHop'[g][i] = <<x, slots[k]>>
      BY <2>2
    <3>2. inHop'[g][i][2] = slots[k]
      BY <3>1
    <3>3. s < Cardinality(Destination)
      BY DEF Left
    <3>4. CASE n = 1
      <4>1. DOMAIN ChildHops[h] = 1..n
        BY <1>5
      <4>2. k = 1
        BY <3>4, <4>1
      <4>3. slots[1] = s
        BY <3>4 DEF slots, childSlots
      <4> QED
        BY <3>2, <3>3, <4>2, <4>3
    <3>5. CASE n > 1
      <4>1. free = Len(FirstHops) /\ Len(FirstHops) + n - 1 <= Cardinality(Destination)
        BY <1>22, <3>5 DEF SlotsSuffice
      <4>2. slots[k] < free + n - 1
        <5>1. s < free /\ (slots[k] = s \/ slots[k] \in free..(free + n - 2))
          BY <1>2, <1>12
        <5> HIDE DEF n, free
        <5> QED
          BY <1>5, <1>7, <3>5, <5>1
      <4>3. slots[k] \in Int
        BY <1>12 DEF Slot
      <4> HIDE DEF n, free
      <4> QED
        BY <1>5, <1>7, <3>2, <4>1, <4>2, <4>3, Hops
    <3>6. n = 1 \/ n > 1
      <4> HIDE DEF n
      <4> QED
        BY <1>5
    <3> QED
      BY <3>4, <3>5, <3>6
  <2> QED
    BY <1>15, <2>1, <2>2
<1> QED
  BY <1>16, <1>17, <1>18, <1>20, <1>21, <1>23

\* The last hop of a branch gives up its slot.  The message is not released if
\* it is in another hop: that hop's slot was handed out and is not null.
LEMMA EndKeeps ==
  ASSUME TypeOK, SentOnce, InSlots, NEW F \in [Hop -> Nat], Flow(F), Taken(F),
         NEW h \in Hop, NEW x, NEW s, NEW q, NEW E, Left(F, h, x, s, q, E),
         ChildHops[h] = <<>>, endBranch(q, x, s), sent' = sent,
         delivered' \in [Destination -> Seq(Message)]
  PROVE  TypeOK' /\ SentOnce' /\ InSlots' /\ InArray' /\ Flow(E)' /\ Taken(E)'
<1> DEFINE free == nextFreeCurrHop[x]
           cleared == [currHop[x] EXCEPT ![s] = Null]
           read == readSlots(cleared, free)
<1>1. /\ currHop' = [currHop EXCEPT ![x][s] = Null] /\ inHop' = q
      /\ nextFreeCurrHop' = nextFreeCurrHop
      /\ \/ read \subseteq {Null, Uninit} /\ state' = [state EXCEPT ![x] = "released"]
         \/ state' = state
  BY DEF endBranch
<1>2. /\ E \in [Hop -> Nat] /\ E = [F EXCEPT ![h] = @ + 1] /\ q \in [Hop -> Seq(Message \X Slot)]
      /\ x \in Message /\ s \in Slot
      /\ F[h] + 1 \in DOMAIN sent /\ x = sent[F[h] + 1]
      /\ currHop[x][s] = h /\ s < free /\ state[x] # "released"
  BY DEF Left
<1>3. \A g \in Hop : E[g] + Len(q[g]) = entered(F, g)
  BY DEF Left
<1>4. ASSUME NEW g \in Hop, NEW i \in DOMAIN q[g]
      PROVE  /\ q[g][i] \in Message \X Slot
             /\ E[g] + i \in DOMAIN sent /\ q[g][i][1] = sent[E[g] + i]
             /\ currHop[q[g][i][1]][q[g][i][2]] = g
             /\ q[g][i][2] < nextFreeCurrHop[q[g][i][1]]
             /\ state[q[g][i][1]] # "released"
             /\ q[g][i][1] = x => q[g][i][2] # s
  BY DEF Left
<1>5. /\ currHop' \in [Message -> [Slot -> Hop \cup {Null, Uninit}]]
      /\ \A y \in Message : y # x => currHop'[y] = currHop[y]
      /\ currHop'[x] = cleared
  BY <1>1, <1>2 DEF TypeOK
<1>6. \A t \in Slot : t # s => cleared[t] = currHop[x][t]
  BY <1>2 DEF TypeOK
<1>7. TypeOK'
  BY <1>1, <1>2, <1>5 DEF TypeOK
<1>8. SentOnce'
  <2>1. x \in Range(sent)
    BY <1>2 DEF Range
  <2>2. \A y \in Message : state'[y] = "unsent" <=> state[y] = "unsent"
    BY <1>1, <1>2, <2>1 DEF TypeOK, SentOnce
  <2> QED
    BY <2>2 DEF SentOnce
<1>9. ASSUME NEW g \in Hop, NEW i \in DOMAIN q[g], q[g][i][1] = x, read \subseteq {Null, Uninit}
      PROVE  FALSE
  <2> DEFINE t == q[g][i][2]
  <2>1. t \in Slot /\ t < free /\ currHop[x][t] = g /\ t # s
    BY <1>4, <1>9
  <2>2. cleared[t] = g
    BY <1>6, <2>1
  <2>3. t \in 0..(free - 1)
    BY <1>2, <2>1, SMTT(30) DEF Slot, TypeOK
  <2>4. cleared[t] \in read
    BY <2>3 DEF readSlots
  <2> QED
    BY <1>9, <2>2, <2>4, ConstantsAssumption
<1>10. InSlots'
  <2> SUFFICES ASSUME NEW g \in Hop, NEW i \in DOMAIN q[g]
               PROVE  /\ currHop'[q[g][i][1]][q[g][i][2]] = g
                      /\ q[g][i][2] < nextFreeCurrHop[q[g][i][1]]
                      /\ state'[q[g][i][1]] # "released"
    BY <1>1 DEF InSlots
  <2> DEFINE y == q[g][i][1]
             t == q[g][i][2]
  <2>1. y \in Message /\ t \in Slot
    BY <1>4
  <2>2. currHop'[y][t] = g
    BY <1>4, <1>5, <1>6, <2>1
  <2>3. state'[y] # "released"
    <3>1. state[y] # "released"
      BY <1>4
    <3>2. CASE y = x
      BY <1>1, <1>9, <3>1, <3>2
    <3>3. CASE y # x
      BY <1>1, <2>1, <3>1, <3>3 DEF TypeOK
    <3> QED
      BY <3>2, <3>3
  <2> QED
    BY <1>4, <2>2, <2>3
<1>11. \A g \in Hop : entered(E, g)' = entered(F, g)
  BY <1>1, <1>3 DEF entered
<1>12. Flow(E)'
  <2>1. \A g \in Range(FirstHops) : entered(E, g)' = Len(sent)
    BY <1>11, Hops DEF Flow
  <2>2. ASSUME NEW f \in Hop, NEW g \in Range(ChildHops[f])
        PROVE  entered(E, g)' = E[f]
    <3>1. f # h
      BY DEF Range
    <3>2. E[f] = F[f]
      BY <1>2, <3>1
    <3> QED
      BY <1>11, <3>2, Hops DEF Flow
  <2>3. \A g \in Hop : entered(E, g)' <= Len(sent)
    BY <1>11 DEF Flow
  <2>4. \A g \in Hop : \A i \in DOMAIN inHop'[g] : inHop'[g][i][1] = sent[E[g] + i]
    BY <1>1, <1>4
  <2> QED
    BY <2>1, <2>2, <2>3, <2>4 DEF Flow
<1>13. Taken(E)'
  <2>1. \A m \in DOMAIN sent :
          {g \in Hop : m <= entered(E, g)'} = {g \in Hop : m <= entered(F, g)}
    BY <1>11
  <2> QED
    BY <1>1, <2>1 DEF Taken
<1>14. InArray'
  <2>1. SlotsSuffice =>
          \A g \in Hop : \A i \in DOMAIN inHop'[g] : inHop'[g][i][2] < Cardinality(Destination)
    BY <1>1 DEF Left
  <2> QED
    BY <2>1 DEF InArray
<1> QED
  BY <1>7, <1>8, <1>10, <1>12, <1>13, <1>14

\* The end of a hop: its message is delivered and goes on, or ends a branch.
LEMMA FinishKeeps ==
  ASSUME IInv, NEW h \in Hop, FinishHop(h)
  PROVE  IInv'
<1> DEFINE x == Head(inHop[h])[1]
           s == Head(inHop[h])[2]
           q == [inHop EXCEPT ![h] = Tail(@)]
<1>1. PICK F \in [Hop -> Nat] : Flow(F) /\ Delivered(F) /\ Taken(F)
  BY DEF IInv
<1> DEFINE E == [F EXCEPT ![h] = @ + 1]
<1>2. TypeOK /\ SentOnce /\ InSlots
  BY DEF IInv
<1>3. inHop[h] # <<>> /\ sent' = sent
  BY DEF FinishHop
<1>4. Left(F, h, x, s, q, E)
  BY <1>1, <1>3, Leave
<1>5. /\ currHop[x][s] = h /\ x \in Message /\ F[h] + 1 \in DOMAIN sent /\ x = sent[F[h] + 1]
      /\ E \in [Hop -> Nat]
  BY <1>4 DEF Left
<1>6. /\ deliver(h, x)
      /\ IF ChildHops[h] # <<>> THEN startChildHops(q, x, s, h) ELSE endBranch(q, x, s)
  BY <1>5 DEF FinishHop, destinations, deliver
<1>finished. E = [F EXCEPT ![h] = @ + 1]
  OBVIOUS
<1> HIDE DEF x, s, q, E
<1>7. delivered' \in [Destination -> Seq(Message)] /\ Delivered(E)'
  BY <1>1, <1>2, <1>3, <1>5, <1>6, <1>finished, Delivers
<1>8. TypeOK' /\ SentOnce' /\ InSlots' /\ InArray' /\ Flow(E)' /\ Taken(E)'
  <2>1. CASE ChildHops[h] # <<>>
    BY <1>1, <1>2, <1>3, <1>4, <1>6, <1>7, <2>1, ChildrenKeep
  <2>2. CASE ChildHops[h] = <<>>
    BY <1>1, <1>2, <1>3, <1>4, <1>6, <1>7, <2>2, EndKeeps
  <2> QED
    BY <2>1, <2>2
<1> QED
  BY <1>5, <1>7, <1>8 DEF IInv

-----------------------------------------------------------------------------
(* The theorems *)

\* The invariant holds of every route, for any number of messages: finishHop
\* and the constructor of MessageInstance keep it.
THEOREM Invariance == Spec => []IInv
<1>1. Init => IInv
  <2> SUFFICES ASSUME Init
               PROVE  IInv
    OBVIOUS
  <2> DEFINE none == [h \in Hop |-> 0]
  <2>1. \A h \in Hop : none[h] = 0 /\ inHop[h] = <<>> /\ entered(none, h) = 0
    BY DEF Init, entered
  <2>2. sent = <<>> /\ Len(sent) = 0 /\ DOMAIN sent = {}
    BY DEF Init
  <2>3. TypeOK
    BY Hops DEF Init, TypeOK
  <2>4. SentOnce /\ InSlots /\ InArray
    BY <2>1, <2>2 DEF Init, SentOnce, InSlots, InArray, IsInjective, Range
  <2>5. none \in [Hop -> Nat]
    OBVIOUS
  <2>6. Flow(none)
    <3>1. \A g \in Hop : \A h \in Range(ChildHops[g]) : h \in Hop
      BY Hops
    <3>2. \A h \in Range(FirstHops) : h \in Hop
      BY Hops
    <3> QED
      BY <2>1, <2>2, <3>1, <3>2 DEF Flow
  <2>7. Delivered(none)
    <3>1. \A h \in Hop : \A d \in DestOf[h] : d \in Destination
      BY DEF Destination
    <3>2. \A d \in Destination : delivered[d] = <<>>
      BY DEF Init
    <3> QED
      BY <2>1, <3>1, <3>2 DEF Delivered
  <2>8. Taken(none)
    BY <2>2 DEF Taken
  <2> QED
    BY <2>3, <2>4, <2>5, <2>6, <2>7, <2>8 DEF IInv
<1>2. IInv /\ [Next]_vars => IInv'
  <2> SUFFICES ASSUME IInv, [Next]_vars
               PROVE  IInv'
    OBVIOUS
  <2>1. ASSUME NEW x \in Message, Start(x)
        PROVE  IInv'
    BY <2>1, StartKeeps
  <2>2. ASSUME NEW h \in Hop, FinishHop(h)
        PROVE  IInv'
    BY <2>2, FinishKeeps
  <2>3. CASE UNCHANGED vars
    <3>1. /\ state' = state /\ currHop' = currHop /\ nextFreeCurrHop' = nextFreeCurrHop
          /\ inHop' = inHop /\ delivered' = delivered /\ sent' = sent
      BY <2>3 DEF vars
    <3>2. TypeOK' /\ SentOnce' /\ InSlots' /\ InArray'
      BY <3>1 DEF IInv, TypeOK, SentOnce, InSlots, InArray
    <3>3. PICK F \in [Hop -> Nat] : Flow(F) /\ Delivered(F) /\ Taken(F)
      BY DEF IInv
    <3>4. Flow(F)' /\ Taken(F)'
      BY <3>1, <3>3 DEF Flow, Taken, entered
    <3>5. Delivered(F)'
      BY <3>1, <3>3 DEF Delivered
    <3> QED
      BY <3>2, <3>3, <3>4, <3>5 DEF IInv
  <2> QED
    BY <2>1, <2>2, <2>3 DEF Next
<1> QED
  BY <1>1, <1>2, PTL DEF Spec

\* The slots and counters of all messages stay within their types: no message
\* hands out more slots than there are hops.
THEOREM TypeCorrect == Spec => []TypeOK
<1>1. IInv => TypeOK
  BY DEF IInv
<1> QED
  BY <1>1, Invariance, PTL

\* A message is deleted only when it is in no hop and has got to every
\* destination, whatever uninitialised slots are read as.
THEOREM ReleasedWhenDoneTheorem == Spec => []ReleasedWhenDone
<1>1. IInv => ReleasedWhenDone
  <2> SUFFICES ASSUME IInv, NEW x \in Message, state[x] = "released"
               PROVE  ~travelling(x) /\ \A d \in Destination : x \in Range(delivered[d])
    BY DEF ReleasedWhenDone
  <2>1. PICK F \in [Hop -> Nat] : Flow(F) /\ Delivered(F) /\ Taken(F)
    BY DEF IInv
  <2>2. TypeOK /\ SentOnce /\ InSlots
    BY DEF IInv
  <2>3. ~travelling(x)
    BY <2>2 DEF InSlots, travelling
  <2>4. PICK p \in DOMAIN sent : sent[p] = x
    BY <2>2 DEF SentOnce, Range
  \* Where it has been, it has been finished: it is not there any more.
  <2>5. ASSUME NEW h \in Hop, p <= entered(F, h)
        PROVE  p <= F[h]
    <3> SUFFICES ASSUME p > F[h]
                 PROVE  FALSE
      BY <2>2 DEF TypeOK
    <3>1. inHop[h] \in Seq(Message \X Slot) /\ F[h] \in Nat /\ p \in Nat
      BY <2>2 DEF TypeOK
    <3>2. p - F[h] \in DOMAIN inHop[h] /\ F[h] + (p - F[h]) = p
      BY <2>5, <3>1 DEF entered
    <3>3. inHop[h][p - F[h]][1] = x
      BY <2>1, <2>4, <3>2 DEF Flow
    <3> QED
      BY <2>3, <3>2, <3>3 DEF travelling
  <2>6. {h \in Hop : p <= F[h]} = Hop
    <3>1. p \in Nat /\ p <= Len(sent)
      BY <2>2 DEF TypeOK
    <3>2. \A h \in Range(FirstHops) : h \in Hop /\ p <= F[h]
      BY <2>1, <2>5, <3>1, Hops DEF Flow
    <3>3. \A g \in Hop : p <= F[g] => \A h \in Range(ChildHops[g]) : h \in Hop /\ p <= F[h]
      BY <2>1, <2>5, Hops DEF Flow
    <3> QED
      BY <3>2, <3>3, TreeInduction
  <2>7. ASSUME NEW d \in Destination
        PROVE  x \in Range(delivered[d])
    <3>1. PICK h \in Hop : d \in DestOf[h]
      BY DEF Destination
    <3>2. p \in 1..F[h] /\ delivered[d] \in Seq(Message)
      BY <2>2, <2>6 DEF TypeOK
    <3>3. p \in DOMAIN delivered[d] /\ delivered[d][p] = x
      BY <2>1, <2>4, <3>1, <3>2 DEF Delivered
    <3> QED
      BY <3>3 DEF Range
  <2> QED
    BY <2>3, <2>7
<1> QED
  BY <1>1, Invariance, PTL

\* Every destination gets the messages once, in the order they were started,
\* however deep in the tree its hop is.
THEOREM DeliveredInOrderTheorem == Spec => []DeliveredInOrder
<1>1. IInv => DeliveredInOrder
  <2> SUFFICES ASSUME IInv, NEW d \in Destination
               PROVE  IsPrefix(delivered[d], sent)
    BY DEF DeliveredInOrder
  <2>1. PICK F \in [Hop -> Nat] : Flow(F) /\ Delivered(F) /\ Taken(F)
    BY DEF IInv
  <2>2. TypeOK
    BY DEF IInv
  <2>3. PICK h \in Hop : d \in DestOf[h]
    BY DEF Destination
  <2>4. /\ delivered[d] \in Seq(Message) /\ sent \in Seq(Message)
        /\ Len(delivered[d]) = F[h] /\ \A i \in 1..F[h] : delivered[d][i] = sent[i]
    BY <2>1, <2>2, <2>3 DEF TypeOK, Delivered
  <2>5. Len(delivered[d]) <= Len(sent)
    <3>1. Len(inHop[h]) \in Nat /\ F[h] \in Nat
      BY <2>2 DEF TypeOK
    <3> QED
      BY <2>1, <2>4, <3>1 DEF Flow, entered
  <2> QED
    BY <2>4, <2>5 DEF IsPrefix
<1> QED
  BY <1>1, Invariance, PTL

\* The slots of a message are not mixed up, and the array is long enough on every
\* route of the kind SlotsSuffice describes.
THEOREM SlotsExclusiveTheorem ==
  ASSUME SlotsSuffice
  PROVE  Spec => []SlotsExclusive
<1>1. IInv => SlotsExclusive
  <2> SUFFICES ASSUME IInv, NEW h \in Hop, NEW i \in DOMAIN inHop[h],
                      NEW x, x = inHop[h][i][1], NEW s, s = inHop[h][i][2]
               PROVE  /\ currHop[x][s] = h
                      /\ s < nextFreeCurrHop[x] /\ s < Cardinality(Destination)
                      /\ \A g \in Hop : \A k \in DOMAIN inHop[g] :
                           inHop[g][k] = <<x, s>> => g = h /\ k = i
    BY DEF SlotsExclusive
  <2>1. PICK F \in [Hop -> Nat] : Flow(F) /\ Delivered(F) /\ Taken(F)
    BY DEF IInv
  <2>2. TypeOK /\ SentOnce /\ InSlots /\ InArray
    BY DEF IInv
  <2>3. currHop[x][s] = h /\ s < nextFreeCurrHop[x] /\ s < Cardinality(Destination)
    BY <2>2 DEF InSlots, InArray
  <2>4. ASSUME NEW g \in Hop, NEW k \in DOMAIN inHop[g], inHop[g][k] = <<x, s>>
        PROVE  g = h /\ k = i
    <3>1. inHop[g][k][1] = x /\ inHop[g][k][2] = s
      BY <2>4
    <3>2. g = h
      BY <2>2, <2>3, <3>1 DEF InSlots
    <3>3. F[h] + k \in DOMAIN sent /\ F[h] + i \in DOMAIN sent /\ sent[F[h] + k] = sent[F[h] + i]
      BY <2>1, <2>2, <3>1, <3>2, Started
    <3>4. F[h] + k = F[h] + i
      BY <2>2, <3>3 DEF SentOnce, IsInjective
    <3>5. F[h] \in Nat /\ k \in Nat /\ i \in Nat
      BY <2>2, <3>2 DEF TypeOK
    <3> QED
      BY <3>2, <3>4, <3>5
  <2> QED
    BY <2>3, <2>4
<1> QED
  BY <1>1, Invariance, PTL

=============================================================================
