---------------------------- MODULE QueueProofs -----------------------------
(***************************************************************************)
(* What the queues of the schedulers list: facts on deques that are added  *)
(* to and erased from, alone or one for each slot.                         *)
(***************************************************************************)
EXTENDS SchedulingDecision, SequenceTheorems, WellFoundedInduction, TLAPS

\* A set of natural numbers has a least one.  It stands for induction over the
\* places of a queue: the library's induction theorems cannot be instantiated.
LEMMA LeastNat ==
  ASSUME NEW S, S \subseteq Nat, S # {}
  PROVE  \E n \in S : \A k \in S : n <= k
<1> DEFINE R == OpToRel(<, Nat)
<1>1. IsWellFoundedOn(R, Nat)
  BY NatLessThanWellFounded, Zenon
<1>2. \A k, m \in Nat : k < m => <<k, m>> \in R
  BY DEF OpToRel
<1> HIDE DEF R
<1>3. \E m \in S : \A k \in S : ~(<<k, m>> \in R)
  BY <1>1, WFMin, Zenon
<1>4. PICK n \in S : \A k \in S : ~(<<k, n>> \in R)
  BY <1>3, Zenon
<1>5. \A k \in S : ~(k < n)
  BY <1>2, <1>4
<1> QED  BY <1>5

\* A set with 1, and with the successor of each number below N in it, reaches N.
LEMMA Counting ==
  ASSUME NEW N \in Nat, NEW S, 1 \in S,
         \A n \in Nat \ {0} : n \in S /\ n < N => n + 1 \in S
  PROVE  \A n \in 1..N : n \in S
<1> DEFINE F == {n \in 1..N : n \notin S}
<1>1. SUFFICES ASSUME F # {}
               PROVE  FALSE
  OBVIOUS
<1>2. F \subseteq Nat
  OBVIOUS
<1>3. PICK n \in F : \A k \in F : n <= k
  <2> HIDE DEF F
  <2> QED  BY <1>1, <1>2, LeastNat
<1>4. n \in 1..N /\ n \notin S /\ n # 1
  BY <1>3
<1>5. n - 1 \in Nat \ {0} /\ n - 1 < N /\ n - 1 \in S /\ n - 1 + 1 = n
  BY <1>3, <1>4
<1> QED  BY <1>4, <1>5

\* Min, by which AVB and FlexRay look for what ends first, is the least element.
LEMMA FirstOf ==
  ASSUME NEW I, I \subseteq Nat, I # {}
  PROVE  /\ Min(I) \in I
         /\ \A k \in I : Min(I) <= k
  BY LeastNat DEF Min

-----------------------------------------------------------------------------
(* One queue *)

\* Queue q lists the instances of set S, each once.
Lists(q, S) ==
  /\ q \in Seq(Job)
  /\ \A i \in 1..Len(q) : q[i] \in S
  /\ \A j \in S : \E i \in 1..Len(q) : q[i] = j
  /\ \A i, k \in 1..Len(q) : q[i] = q[k] => i = k

\* A queue that is set up is empty.
LEMMA ListsEmpty == Lists(<<>>, {})
  BY DEF Lists

\* A queue is empty when it lists no instance (the tests empty() and size()).
LEMMA ListsNone ==
  ASSUME NEW q, NEW S, Lists(q, S)
  PROVE  q \in Seq(Job) /\ Len(q) \in Nat /\ (q = <<>> <=> S = {})
<1>1. q \in Seq(Job) /\ Len(q) \in Nat
  BY DEF Lists
<1>2. CASE q = <<>>
  BY <1>1, <1>2 DEF Lists
<1>3. CASE q # <<>>
  <2>1. 1 \in 1..Len(q)
    BY <1>1, <1>3
  <2> QED  BY <1>1, <1>3, <2>1 DEF Lists
<1> QED  BY <1>2, <1>3

\* push_back: an instance that was not in the queue is added at its end.
LEMMA ListsAppend ==
  ASSUME NEW q, NEW S, Lists(q, S), NEW j \in Job, j \notin S
  PROVE  Lists(Append(q, j), S \cup {j})
<1> DEFINE p == Append(q, j)
<1>1. /\ p \in Seq(Job) /\ Len(p) = Len(q) + 1 /\ p[Len(q) + 1] = j
      /\ \A i \in 1..Len(q) : p[i] = q[i]
      /\ Len(q) \in Nat
  BY DEF Lists
<1> HIDE DEF p
<1>2. \A k \in S \cup {j} : \E i \in 1..Len(p) : p[i] = k
  BY <1>1 DEF Lists
<1> QED  BY <1>1, <1>2 DEF Lists, p

\* push_front: an instance that was not in the queue is added at its front.
LEMMA ListsCons ==
  ASSUME NEW q, NEW S, Lists(q, S), NEW j \in Job, j \notin S
  PROVE  Lists(<<j>> \o q, S \cup {j})
<1> DEFINE p == <<j>> \o q
<1>1. /\ p \in Seq(Job) /\ Len(p) = Len(q) + 1 /\ p[1] = j
      /\ \A i \in 1..Len(q) : p[i + 1] = q[i]
      /\ \A i \in 2..Len(p) : p[i] = q[i - 1]
      /\ Len(q) \in Nat
  BY DEF Lists
<1> HIDE DEF p
<1>2. \A k \in S \cup {j} : \E i \in 1..Len(p) : p[i] = k
  <2>1. ASSUME NEW k \in S
        PROVE  \E i \in 1..Len(p) : p[i] = k
    <3>1. PICK i \in 1..Len(q) : q[i] = k
      BY DEF Lists
    <3>2. i + 1 \in 1..Len(p) /\ p[i + 1] = k
      BY <1>1, <3>1
    <3> QED  BY <3>2
  <2>2. 1 \in 1..Len(p) /\ p[1] = j
    BY <1>1
  <2> QED  BY <2>1, <2>2
<1>3. \A i \in 1..Len(p) : p[i] \in S \cup {j}
  BY <1>1, SMTT(30) DEF Lists
<1>4. \A i, k \in 1..Len(p) : p[i] = p[k] => i = k
  <2> SUFFICES ASSUME NEW i \in 1..Len(p), NEW k \in 1..Len(p), p[i] = p[k]
               PROVE  i = k
    OBVIOUS
  <2>1. CASE i = 1 \/ k = 1
    <3>1. ASSUME NEW m \in 2..Len(p)
          PROVE  p[m] # j
      <4>1. p[m] = q[m - 1] /\ m - 1 \in 1..Len(q)
        BY <1>1
      <4> QED  BY <4>1 DEF Lists
    <3> QED  BY <1>1, <2>1, <3>1
  <2>2. CASE i # 1 /\ k # 1
    <3>1. i - 1 \in 1..Len(q) /\ k - 1 \in 1..Len(q) /\ q[i - 1] = q[k - 1]
      BY <1>1, <2>2
    <3>2. \A m, n \in 1..Len(q) : q[m] = q[n] => m = n
      BY DEF Lists
    <3>3. i - 1 = k - 1
      BY <3>1, <3>2
    <3> QED  BY <3>3
  <2> QED  BY <2>1, <2>2
<1> QED  BY <1>1, <1>2, <1>3, <1>4 DEF Lists, p

\* erase: the element at a place is taken out, and no other place lists it.
LEMMA ListsRemoveAt ==
  ASSUME NEW q, NEW S, Lists(q, S), NEW n \in 1..Len(q)
  PROVE  q[n] \in S /\ Lists(RemoveAt(q, n), S \ {q[n]})
<1> DEFINE p == RemoveAt(q, n)
           at(i) == IF i < n THEN i ELSE i + 1
<1>1. /\ p \in Seq(Job) /\ Len(p) = Len(q) - 1
      /\ \A i \in 1..Len(p) : p[i] = q[at(i)]
      /\ Len(q) \in Nat
  <2> DEFINE a == SubSeq(q, 1, n - 1)
             b == SubSeq(q, n + 1, Len(q))
  <2>1. q \in Seq(Job) /\ Len(q) \in Nat
    BY DEF Lists
  <2>2. a \in Seq(Job) /\ Len(a) = n - 1 /\ \A i \in 1..(n - 1) : a[i] = q[i]
    BY <2>1
  <2>3. b \in Seq(Job) /\ Len(b) = Len(q) - n /\ \A i \in 1..(Len(q) - n) : b[i] = q[i + n]
    BY <2>1
  <2>4. p = a \o b
    BY DEF RemoveAt
  <2> HIDE DEF a, b, p
  <2>5. /\ p \in Seq(Job) /\ Len(p) = Len(q) - 1
        /\ \A i \in 1..Len(p) : p[i] = IF i <= n - 1 THEN a[i] ELSE b[i - (n - 1)]
    <3>1. /\ a \o b \in Seq(Job)
          /\ Len(a \o b) = Len(a) + Len(b)
          /\ \A i \in 1..(Len(a) + Len(b)) :
               (a \o b)[i] = IF i <= Len(a) THEN a[i] ELSE b[i - Len(a)]
      BY <2>2, <2>3, ConcatProperties
    <3>2. Len(a) = n - 1 /\ Len(b) = Len(q) - n /\ Len(a) + Len(b) = Len(q) - 1
      BY <2>1, <2>2, <2>3
    <3> QED  BY <2>4, <3>1, <3>2
  <2>6. ASSUME NEW i \in 1..Len(p)
        PROVE  p[i] = q[at(i)]
    <3>1. CASE i < n
      <4>1. i \in 1..(n - 1) /\ i <= n - 1
        BY <2>1, <2>5, <3>1
      <4>2. p[i] = a[i]
        BY <2>5, <4>1
      <4>3. a[i] = q[i]
        BY <2>2, <4>1
      <4> QED  BY <3>1, <4>2, <4>3
    <3>2. CASE i >= n
      <4>1. i - (n - 1) \in 1..(Len(q) - n) /\ i - (n - 1) + n = i + 1
        BY <2>1, <2>5, <3>2
      <4>2. ~(i <= n - 1)
        BY <2>1, <2>5, <3>2
      <4>3. p[i] = b[i - (n - 1)]
        BY <2>5, <4>2
      <4> QED  BY <2>3, <3>2, <4>1, <4>3
    <3> QED  BY <3>1, <3>2, <2>1, <2>5
  <2> QED  BY <2>1, <2>5, <2>6
<1> HIDE DEF p
<1>2. \A i \in 1..Len(p) : at(i) \in 1..Len(q) /\ at(i) # n
  BY <1>1
<1>3. \A i \in 1..Len(p) : p[i] \in S \ {q[n]}
  BY <1>1, <1>2 DEF Lists
<1>4. ASSUME NEW j \in S \ {q[n]}
      PROVE  \E i \in 1..Len(p) : p[i] = j
  <2>1. PICK k \in 1..Len(q) : q[k] = j
    BY DEF Lists
  <2>2. CASE k < n
    <3>1. k \in 1..Len(p) /\ p[k] = j
      BY <1>1, <2>1, <2>2
    <3> QED  BY <3>1
  <2>3. CASE k > n
    <3>1. k - 1 \in 1..Len(p) /\ p[k - 1] = j
      BY <1>1, <2>1, <2>3
    <3> QED  BY <3>1
  <2> QED  BY <2>1, <2>2, <2>3
<1>5. ASSUME NEW i \in 1..Len(p), NEW k \in 1..Len(p), p[i] = p[k]
      PROVE  i = k
  <2>1. \A m, k1 \in 1..Len(q) : q[m] = q[k1] => m = k1
    BY DEF Lists
  <2>2. q[at(i)] = q[at(k)]
    BY <1>1, <1>5
  <2>3. at(i) = at(k)
    BY <1>2, <2>1, <2>2
  <2> QED  BY <2>3, <1>1
<1> QED  BY <1>1, <1>3, <1>4, <1>5 DEF Lists, p

\* front() and pop_front() of a queue that is not empty.
LEMMA ListsHead ==
  ASSUME NEW q, NEW S, Lists(q, S), q # <<>>
  PROVE  /\ 1 \in 1..Len(q) /\ Head(q) = q[1]
         /\ Tail(q) = RemoveAt(q, 1)
         /\ Head(q) \in S
         /\ Lists(Tail(q), S \ {Head(q)})
<1>1. 1 \in 1..Len(q) /\ Head(q) = q[1]
  BY DEF Lists
<1>2. Tail(q) = RemoveAt(q, 1)
  BY <1>1 DEF Lists, RemoveAt
<1>3. q[1] \in S /\ Lists(RemoveAt(q, 1), S \ {q[1]})
  BY <1>1, ListsRemoveAt
<1> QED  BY <1>1, <1>2, <1>3

\* The loop over a queue that erases the element it looks for, if it is there.
LEMMA ListsRemoveFirst ==
  ASSUME NEW q, NEW S, Lists(q, S), NEW j
  PROVE  Lists(RemoveFirst(q, j), S \ {j})
<1>1. CASE \E i \in 1..Len(q) : q[i] = j
  <2> DEFINE n == SelectInSeq(q, LAMBDA v : v = j)
             I == {i \in 1..Len(q) : q[i] = j}
  <2>1. Len(q) \in Nat
    BY DEF Lists
  <2>2. I \subseteq Nat /\ I # {}
    BY <2>1, <1>1
  <2>3. n = Min(I)
    BY <2>2 DEF SelectInSeq
  <2>4. n \in I
    BY <2>2, <2>3, FirstOf
  <2> HIDE DEF n
  <2>5. RemoveFirst(q, j) = RemoveAt(q, n)
    BY <1>1 DEF RemoveFirst, n
  <2> QED  BY <2>4, <2>5, ListsRemoveAt
<1>2. CASE ~ \E i \in 1..Len(q) : q[i] = j
  BY <1>2 DEF RemoveFirst, Lists
<1> QED  BY <1>1, <1>2

\* Where the slots of these lengths start: each when the one before it is over
\* (the loop of TDMAScheduler::_setProperty).
LEMMA Starts ==
  ASSUME NEW L \in Seq(Nat)
  PROVE  /\ startsOf(L) \in [1..(Len(L) + 1) -> Nat]
         /\ startsOf(L)[1] = 0
         /\ \A i \in 1..Len(L) : startsOf(L)[i + 1] = startsOf(L)[i] + L[i]
<1> DEFINE N == Len(L)
           rec(g, i) == IF i = 1 THEN 0 ELSE g[i - 1] + L[i - 1]
           E(n) == \E g \in [1..n -> Nat] : \A i \in 1..n : g[i] = rec(g, i)
           f == startsOf(L)
<1>1. N \in Nat /\ \A i \in 1..N : L[i] \in Nat
  OBVIOUS
<1> HIDE DEF N
<1>2. E(1)
  <2> DEFINE g == [i \in 1..1 |-> 0]
  <2>1. g \in [1..1 -> Nat] /\ \A i \in 1..1 : g[i] = rec(g, i)
    OBVIOUS
  <2> HIDE DEF g
  <2> QED  BY <2>1
<1>3. ASSUME NEW n \in 1..N, E(n)
      PROVE  E(n + 1)
  <2>1. PICK g \in [1..n -> Nat] : \A i \in 1..n : g[i] = rec(g, i)
    BY <1>3
  <2> DEFINE h == [i \in 1..(n + 1) |-> IF i = n + 1 THEN g[n] + L[n] ELSE g[i]]
  <2>2. h \in [1..(n + 1) -> Nat]
    BY <1>1
  <2>3. ASSUME NEW i \in 1..(n + 1)
        PROVE  h[i] = rec(h, i)
    <3>1. CASE i = n + 1
      BY <3>1, <1>1
    <3>2. CASE i # n + 1
      BY <3>2, <2>1
    <3> QED  BY <3>1, <3>2
  <2> HIDE DEF h
  <2> QED  BY <2>2, <2>3
<1>4. E(N + 1)
  <2> HIDE DEF E
  <2> DEFINE G == {n \in Nat : E(n)}
  <2>1. 1 \in G
    BY <1>2
  <2>4. ASSUME NEW n \in Nat \ {0}, n \in G, n < N + 1
        PROVE  n + 1 \in G
    <3>1. n \in 1..N /\ E(n) /\ n + 1 \in Nat
      BY <1>1, <2>4
    <3> QED  BY <1>3, <3>1
  <2> HIDE DEF G
  <2>2. N + 1 \in Nat /\ N + 1 \in 1..(N + 1)
    BY <1>1
  <2>3. N + 1 \in G
    BY <2>1, <2>2, <2>4, Counting
  <2> QED  BY <2>3 DEF G
<1>5. f = [i \in 1..(N + 1) |-> rec(f, i)]
  <2>1. PICK g \in [1..(N + 1) -> Nat] : \A i \in 1..(N + 1) : g[i] = rec(g, i)
    BY <1>4
  <2>2. g = [i \in 1..(N + 1) |-> IF i = 1 THEN 0 ELSE g[i - 1] + L[i - 1]]
    BY <2>1
  <2>3. f = CHOOSE h : h = [i \in 1..(N + 1) |-> IF i = 1 THEN 0 ELSE h[i - 1] + L[i - 1]]
    BY DEF startsOf, N
  <2> QED  BY <2>2, <2>3
<1> HIDE DEF f
<1>6. /\ f[1] = 0
      /\ \A i \in 1..N : f[i + 1] = f[i] + L[i]
  BY <1>1, <1>5
<1>7. \A i \in 1..(N + 1) : f[i] \in Nat
  <2> DEFINE G == {i \in Nat : f[i] \in Nat}
  <2>1. 1 \in G /\ \A n \in Nat \ {0} : n \in G /\ n < N + 1 => n + 1 \in G
    BY <1>1, <1>6
  <2> HIDE DEF G
  <2>2. N + 1 \in Nat
    BY <1>1
  <2>3. \A i \in 1..(N + 1) : i \in G
    BY <2>1, <2>2, Counting
  <2> QED  BY <2>3 DEF G
<1> QED  BY <1>5, <1>6, <1>7 DEF f, N

-----------------------------------------------------------------------------
(* A queue for each slot or level *)

\* The queues f hold the task instances of set S, each in that of its key.
Sorted(f, key, D, S) ==
  /\ f \in [D -> Seq(Job)]
  /\ \A i \in D : Lists(f[i], {j \in S : key[j] = i})

\* The queues of all slots are set up empty.
LEMMA SortedEmpty ==
  ASSUME NEW D, NEW key
  PROVE  Sorted([i \in D |-> <<>>], key, D, {})
<1>1. \A i \in D : {j \in {} : key[j] = i} = {}
  OBVIOUS
<1> QED  BY <1>1, ListsEmpty DEF Sorted

\* slots[slot].fifo.push_back: an instance goes to the queue of its slot.
LEMMA SortedAdd ==
  ASSUME NEW D, NEW key \in [Job -> D], NEW f, NEW S, Sorted(f, key, D, S),
         NEW j \in Job, j \notin S
  PROVE  Sorted([f EXCEPT ![key[j]] = Append(@, j)], key, D, S \cup {j})
<1> DEFINE g == [f EXCEPT ![key[j]] = Append(@, j)]
           of(i) == {k \in S : key[k] = i}
<1>1. f \in [D -> Seq(Job)] /\ \A i \in D : Lists(f[i], of(i))
  BY DEF Sorted
<1>2. key[j] \in D /\ g \in [D -> Seq(Job)]
  BY <1>1
<1>3. ASSUME NEW i \in D
      PROVE  Lists(g[i], {k \in S \cup {j} : key[k] = i})
  <2>1. CASE i = key[j]
    <3>1. {k \in S \cup {j} : key[k] = i} = of(i) \cup {j}
      BY <2>1
    <3>2. g[i] = Append(f[i], j)
      BY <1>1, <2>1
    <3>3. Lists(f[i], of(i)) /\ j \notin of(i)
      BY <1>1
    <3> HIDE DEF of, g
    <3> QED  BY <3>1, <3>2, <3>3, ListsAppend
  <2>2. CASE i # key[j]
    <3>1. {k \in S \cup {j} : key[k] = i} = of(i)
      BY <2>2
    <3>2. g[i] = f[i]
      BY <1>1, <2>2
    <3> QED  BY <1>1, <3>1, <3>2
  <2> QED  BY <2>1, <2>2
<1> QED  BY <1>2, <1>3 DEF Sorted

\* A queue is replaced by one without one of the instances it holds.
LEMMA SortedTake ==
  ASSUME NEW D, NEW key \in [Job -> D], NEW f, NEW S, Sorted(f, key, D, S),
         NEW j \in Job, NEW q, Lists(q, {k \in S : key[k] = key[j]} \ {j})
  PROVE  Sorted([f EXCEPT ![key[j]] = q], key, D, S \ {j})
<1> DEFINE g == [f EXCEPT ![key[j]] = q]
           of(i) == {k \in S : key[k] = i}
<1>1. f \in [D -> Seq(Job)] /\ \A i \in D : Lists(f[i], of(i))
  BY DEF Sorted
<1>2. key[j] \in D /\ g \in [D -> Seq(Job)]
  BY <1>1 DEF Lists
<1>3. ASSUME NEW i \in D
      PROVE  Lists(g[i], {k \in S \ {j} : key[k] = i})
  <2>1. CASE i = key[j]
    <3>1. {k \in S \ {j} : key[k] = i} = of(i) \ {j}
      BY <2>1
    <3>2. g[i] = q
      BY <1>1, <2>1
    <3> QED  BY <2>1, <3>1, <3>2
  <2>2. CASE i # key[j]
    <3>1. {k \in S \ {j} : key[k] = i} = of(i)
      BY <2>2
    <3>2. g[i] = f[i]
      BY <1>1, <2>2
    <3> QED  BY <1>1, <3>1, <3>2
  <2> QED  BY <2>1, <2>2
<1> QED  BY <1>2, <1>3 DEF Sorted

\* removedTask of the schedulers with slots: the instance is erased from its queue.
LEMMA SortedRemove ==
  ASSUME NEW D, NEW key \in [Job -> D], NEW f, NEW S, Sorted(f, key, D, S),
         NEW j \in Job
  PROVE  Sorted([f EXCEPT ![key[j]] = RemoveFirst(@, j)], key, D, S \ {j})
<1>1. key[j] \in D
  OBVIOUS
<1>2. Lists(f[key[j]], {k \in S : key[k] = key[j]})
  BY <1>1 DEF Sorted
<1>3. Lists(RemoveFirst(f[key[j]], j), {k \in S : key[k] = key[j]} \ {j})
  BY <1>2, ListsRemoveFirst
<1> QED  BY <1>3, SortedTake

=============================================================================
