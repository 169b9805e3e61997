---------------------------- MODULE CommonProofs ----------------------------
(* What several proofs need: the least element of a set of numbers, and    *)
(* what the packets of a queue lead to.                                    *)
EXTENDS Integers, Sequences, FiniteSetTheorems, TLAPS

(* First free indices and lowest machines exist.                           *)

LEMMA LeastExists ==
  ASSUME NEW T, T \subseteq Nat, T # {}
  PROVE  \E i \in T : \A j \in T : i <= j
  <1> DEFINE R == {ss \in Nat \X Nat : ss[1] < ss[2]}
  <1>1. OpToRel(<, Nat) = R
    BY Zenon DEF OpToRel
  <1>2. IsWellFoundedOn(R, Nat)
    BY <1>1, NatLessThanWellFounded, Zenon
  <1> HIDE DEF R
  <1>3. PICK i \in T : \A j \in T : ~(<<j, i>> \in R)
    BY <1>2, WFMin
  <1>4. ASSUME NEW j \in T
        PROVE  i <= j
    <2>1. i \in Nat /\ j \in Nat
      BY <1>4
    <2>2. <<j, i>> \in Nat \X Nat /\ <<j, i>>[1] = j /\ <<j, i>>[2] = i
      BY <2>1
    <2>3. j < i => <<j, i>> \in R
      BY <2>2 DEF R
    <2>4. ~(j < i)
      BY <1>3, <2>3
    <2>5. QED
      BY <2>1, <2>4
  <1>5. QED
    BY <1>4

(* Of a set of numbers, those with fewer than so many before them are all  *)
(* of them, or so many.                                                    *)

LEMMA GreatestExists ==
  ASSUME NEW n \in Nat, NEW T \in SUBSET (0..n), T # {}
  PROVE  \E i \in T : \A j \in T : j <= i
  <1> DEFINE U == {b \in 0..n : \A j \in T : j <= b}
  <1>1. U \subseteq Nat /\ n \in U
    OBVIOUS
  <1>2. PICK b \in U : \A c \in U : b <= c
    BY <1>1, LeastExists
  <1>3. b \in 0..n /\ \A j \in T : j \in 0..n /\ j <= b
    BY <1>2
  <1>4. CASE b \in T
    BY <1>3, <1>4
  <1>5. CASE b \notin T
    <2>1. \A j \in T : j < b
      BY <1>3, <1>5
    <2>2. b # 0
      <3>1. PICK j \in T : j \in 0..n /\ j < b
        BY <1>3, <2>1
      <3>2. QED
        BY <3>1
    <2>3. b - 1 \in U
      BY <1>3, <2>1, <2>2
    <2>4. QED
      BY <1>2, <1>3, <2>3
  <1>6. QED
    BY <1>4, <1>5

Before(E, i) == {j \in E : j < i}
FirstOf(E, m) == {i \in E : Cardinality(Before(E, i)) < m}

LEMMA FirstOfAllOrFull ==
  ASSUME NEW n \in Nat, NEW E \in SUBSET (0..n), NEW m \in Nat \ {0}
  PROVE  FirstOf(E, m) = E \/ Cardinality(FirstOf(E, m)) = m
  <1> SUFFICES ASSUME FirstOf(E, m) # E
               PROVE  Cardinality(FirstOf(E, m)) = m
    OBVIOUS
  <1>1. E \in SUBSET Nat /\ IsFiniteSet(E)
    <2>1. IsFiniteSet(0..n)
      BY FS_Interval
    <2>2. IsFiniteSet(E)
      BY <2>1, FS_Subset, Zenon
    <2>3. QED
      BY <2>2
  <1>2. \A i \in E : IsFiniteSet(Before(E, i)) /\ Cardinality(Before(E, i)) \in Nat
    <2> TAKE i \in E
    <2>1. Before(E, i) \in SUBSET E
      BY DEF Before
    <2>2. QED
      BY <1>1, <2>1, FS_Subset, FS_CardinalityType
  <1> DEFINE K == FirstOf(E, m)
             Rest == E \ K
  <1>3. Rest # {} /\ Rest \subseteq Nat
    BY <1>1 DEF FirstOf
  <1>4. PICK k \in Rest : \A j \in Rest : k <= j
    BY <1>3, LeastExists
  <1>5. k \in E /\ Cardinality(Before(E, k)) >= m
    BY <1>2, <1>4 DEF FirstOf
  <1>6. K = Before(E, k)
    <2>1. ASSUME NEW i \in Before(E, k)
          PROVE  i \in K
      <3>1. i \in E /\ i < k /\ i \in Nat /\ k \in Nat
        BY <1>1, <1>5 DEF Before
      <3>2. QED
        BY <1>4, <3>1
    <2>2. ASSUME NEW i \in K
          PROVE  i \in Before(E, k)
      <3>1. i \in E /\ Cardinality(Before(E, i)) < m /\ i \in Nat /\ k \in Nat
        BY <1>1, <1>5 DEF FirstOf
      <3>2. CASE i < k
        BY <3>1, <3>2 DEF Before
      <3>3. CASE ~(i < k)
        <4>1. \A j \in E : j \in Nat /\ (j < k => j < i)
          BY <1>1, <3>1, <3>3
        <4>b. Before(E, k) \in SUBSET Before(E, i)
          BY <4>1 DEF Before
        <4>2. Cardinality(Before(E, k)) <= Cardinality(Before(E, i))
          BY <1>2, <3>1, <4>b, FS_Subset, Zenon
        <4>3. QED
          BY <1>2, <1>5, <3>1, <4>2
      <3>4. QED
        BY <3>2, <3>3
    <2>3. QED
      BY <2>1, <2>2
  <1>7. IsFiniteSet(K) /\ Cardinality(K) \in Nat /\ Cardinality(K) >= m
    BY <1>2, <1>5, <1>6
  <1>8. K # {} /\ K \in SUBSET (0..n)
    <2>1. K # {}
      BY <1>7, FS_EmptySet
    <2>2. K \subseteq E
      BY <1>6 DEF Before
    <2>3. QED
      BY <2>1, <2>2
  <1> HIDE DEF K
  <1>9. PICK g \in K : \A j \in K : j <= g
    BY <1>8, GreatestExists
  <1>10. Before(E, g) = K \ {g}
    <2>1. \A j \in K : j \in Nat /\ (j < g <=> j # g)
      BY <1>8, <1>9
    <2>2. Before(E, g) \subseteq K
      <3>1. g \in E /\ g < k /\ g \in Nat /\ k \in Nat
        BY <1>1, <1>5, <1>6, <1>9 DEF Before
      <3>2. \A j \in E : j \in Nat /\ (j < g => j < k)
        BY <1>1, <3>1
      <3>3. QED
        BY <1>6, <3>2 DEF Before
    <2>3. K \subseteq E
      BY <1>6 DEF Before
    <2>4. QED
      BY <2>1, <2>2, <2>3 DEF Before
  <1>11. Cardinality(Before(E, g)) = Cardinality(K) - 1
    BY <1>7, <1>9, <1>10, FS_RemoveElement
  <1>12. Cardinality(Before(E, g)) < m
    BY <1>9 DEF K, FirstOf
  <1>13. QED
    BY <1>7, <1>11, <1>12 DEF K

-----------------------------------------------------------------------------
(* What a queue of packets does to a copy that takes them in one by one.   *)
(* Step is the set of <<copy, packet, copy after it>>, States that of the  *)
(* copies, and the queue leads from one copy to another if there is a      *)
(* history of copies between them, one longer than the queue.              *)
Leads(q, from, to, States, Step) ==
  \E h \in Seq(States) :
    /\ Len(h) = Len(q) + 1
    /\ h[1] = from /\ h[Len(h)] = to
    /\ \A j \in 1..Len(q) : <<h[j], q[j], h[j + 1]>> \in Step

(* Nothing under way: the copy is what it is going to be.                  *)
LEMMA LeadsNowhere ==
  ASSUME NEW States, NEW Step, NEW from \in States, NEW to
  PROVE  Leads(<<>>, from, to, States, Step) <=> from = to
  <1> DEFINE none == <<>>
  <1>1. Len(none) = 0 /\ \A j \in 1..Len(none) : FALSE
    OBVIOUS
  <1> HIDE DEF none
  <1>2. ASSUME from = to
        PROVE  Leads(none, from, to, States, Step)
    <2> DEFINE h == <<from>>
    <2>1. h \in Seq(States) /\ Len(h) = 1 /\ h[1] = from
      OBVIOUS
    <2> HIDE DEF h
    <2>2. QED
      BY <1>1, <1>2, <2>1 DEF Leads
  <1>3. ASSUME Leads(none, from, to, States, Step)
        PROVE  from = to
    BY <1>1, <1>3 DEF Leads
  <1>4. QED
    BY <1>2, <1>3 DEF none

(* More kinds of steps are allowed.                                        *)
LEMMA LeadsAlso ==
  ASSUME NEW q, NEW from, NEW to, NEW States, NEW More, NEW Step \in SUBSET More,
         Leads(q, from, to, States, Step)
  PROVE  Leads(q, from, to, States, More)
  BY DEF Leads

(* One more packet is sent.                                                *)
LEMMA LeadsAppended ==
  ASSUME NEW Packets, NEW q \in Seq(Packets), NEW k \in Packets, NEW States, NEW Step,
         NEW from, NEW to, NEW after \in States,
         Leads(q, from, to, States, Step), <<to, k, after>> \in Step
  PROVE  Leads(Append(q, k), from, after, States, Step)
  <1>1. PICK h \in Seq(States) :
          /\ Len(h) = Len(q) + 1
          /\ h[1] = from /\ h[Len(h)] = to
          /\ \A j \in 1..Len(q) : <<h[j], q[j], h[j + 1]>> \in Step
    BY DEF Leads
  <1> DEFINE g == Append(h, after)
             r == Append(q, k)
  <1>2. /\ Len(q) \in Nat /\ Len(r) = Len(q) + 1 /\ r[Len(q) + 1] = k
        /\ \A j \in 1..Len(q) : r[j] = q[j]
    OBVIOUS
  <1>3. /\ g \in Seq(States) /\ Len(g) = Len(h) + 1 /\ g[Len(h) + 1] = after
        /\ \A j \in 1..Len(h) : g[j] = h[j]
    OBVIOUS
  <1> HIDE DEF g, r
  <1>4. Len(g) = Len(r) + 1 /\ g[1] = from /\ g[Len(g)] = after
    BY <1>1, <1>2, <1>3
  <1>5. ASSUME NEW j \in 1..Len(r)
        PROVE  <<g[j], r[j], g[j + 1]>> \in Step
    <2>1. CASE j = Len(q) + 1
      <3>1. g[j] = to /\ r[j] = k /\ g[j + 1] = after
        BY <1>1, <1>2, <1>3, <2>1
      <3>2. QED
        BY <3>1
    <2>2. CASE j # Len(q) + 1
      <3>1. j \in 1..Len(q) /\ j \in 1..Len(h) /\ j + 1 \in 1..Len(h)
        BY <1>1, <1>2, <2>2
      <3>2. g[j] = h[j] /\ r[j] = q[j] /\ g[j + 1] = h[j + 1]
        BY <1>2, <1>3, <3>1
      <3>3. QED
        BY <1>1, <3>1, <3>2
    <2>3. QED
      BY <2>1, <2>2
  <1>6. QED
    BY <1>3, <1>4, <1>5 DEF Leads, r

(* The first packet is taken in.                                           *)
LEMMA LeadsTaken ==
  ASSUME NEW Packets, NEW q \in Seq(Packets), q # <<>>, NEW States, NEW Step,
         NEW from, NEW to, Leads(q, from, to, States, Step)
  PROVE  \E next \in States :
           <<from, Head(q), next>> \in Step /\ Leads(Tail(q), next, to, States, Step)
  <1>1. PICK h \in Seq(States) :
          /\ Len(h) = Len(q) + 1
          /\ h[1] = from /\ h[Len(h)] = to
          /\ \A j \in 1..Len(q) : <<h[j], q[j], h[j + 1]>> \in Step
    BY DEF Leads
  <1> DEFINE g == Tail(h)
             t == Tail(q)
  <1>2. /\ Len(q) \in Nat /\ Len(q) >= 1 /\ Len(t) = Len(q) - 1 /\ Head(q) = q[1]
        /\ \A j \in 1..Len(t) : t[j] = q[j + 1]
    OBVIOUS
  <1>3. /\ g \in Seq(States) /\ Len(g) = Len(h) - 1
        /\ \A j \in 1..Len(g) : g[j] = h[j + 1]
    BY <1>1, <1>2
  <1> HIDE DEF g, t
  <1>4. /\ Len(g) = Len(t) + 1 /\ 1 \in 1..Len(g) /\ Len(g) \in 1..Len(g)
        /\ g[1] = h[2] /\ g[Len(g)] = to
    BY <1>1, <1>2, <1>3
  <1>5. ASSUME NEW j \in 1..Len(t)
        PROVE  <<g[j], t[j], g[j + 1]>> \in Step
    <2>1. j + 1 \in 1..Len(q) /\ j \in 1..Len(g) /\ j + 1 \in 1..Len(g)
      BY <1>2, <1>4
    <2>2. g[j] = h[j + 1] /\ t[j] = q[j + 1] /\ g[j + 1] = h[(j + 1) + 1]
      BY <1>2, <1>3, <2>1
    <2>3. QED
      BY <1>1, <2>1, <2>2
  <1>6. h[2] \in States
    BY <1>1, <1>2
  <1>7. <<h[1], q[1], h[1 + 1]>> \in Step
    BY <1>1, <1>2
  <1>8. <<from, Head(q), h[2]>> \in Step
    BY <1>1, <1>2, <1>7
  <1>9. Leads(t, h[2], to, States, Step)
    BY <1>3, <1>4, <1>5 DEF Leads
  <1>10. QED
    BY <1>6, <1>8, <1>9 DEF t
=============================================================================
