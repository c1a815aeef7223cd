----------------------------- MODULE QueueLemmas -----------------------------
(***************************************************************************)
(* What the proofs about KeyPool and about Scheduler need to know of the   *)
(* operators both are built from: minima and maxima, the removal of an     *)
(* element of a sequence, and queues whose tickets are matched one to one  *)
(* with the threads that wait.                                             *)
(***************************************************************************)
EXTENDS Integers, FiniteSets, Sequences, SequencesExt,
        FiniteSetTheorems, SequenceTheorems, WellFoundedInduction, TLAPS

-----------------------------------------------------------------------------
\* Minima and maxima

\* The smaller of two integers is one of them.
LEMMA MinPair ==
    ASSUME NEW a \in Int, NEW b \in Int
    PROVE  /\ Min({a, b}) \in {a, b}
           /\ Min({a, b}) <= a
           /\ Min({a, b}) <= b
<1>1. \E x \in {a, b} : \A y \in {a, b} : x =< y
  OBVIOUS
<1> QED
  BY <1>1 DEF Min

\* The larger of two integers is one of them.
LEMMA MaxPair ==
    ASSUME NEW a \in Int, NEW b \in Int
    PROVE  /\ Max({a, b}) \in {a, b}
           /\ Max({a, b}) >= a
           /\ Max({a, b}) >= b
<1>1. \E x \in {a, b} : \A y \in {a, b} : x >= y
  OBVIOUS
<1> QED
  BY <1>1 DEF Max

\* The smaller of two naturals is a natural.
LEMMA MinPairNat ==
    ASSUME NEW a \in Nat, NEW b \in Nat
    PROVE  Min({a, b}) \in Nat
<1>1. Min({a, b}) \in {a, b}
  BY MinPair
<1> QED
  BY <1>1

\* The larger of two integers is a natural when the first of them is.
LEMMA MaxPairNat ==
    ASSUME NEW a \in Nat, NEW b \in Int
    PROVE  Max({a, b}) \in Nat
<1>1. Max({a, b}) \in {a, b} /\ Max({a, b}) >= a
  BY MaxPair
<1> QED
  BY <1>1

\* A set of naturals that is not empty has a minimum.
LEMMA MinNat ==
    ASSUME NEW S \in SUBSET Nat, S # {}
    PROVE  /\ Min(S) \in S
           /\ \A y \in S : Min(S) <= y
<1> DEFINE Less == {ss \in Nat \X Nat : ss[1] < ss[2]}
<1>1. IsWellFoundedOn(Less, Nat)
  BY NatLessThanWellFounded DEF OpToRel
<1>2. PICK x \in S : \A y \in S : <<y, x>> \notin Less
  <2> HIDE DEF Less
  <2> QED
    BY <1>1, WFMin
<1>3. \A y \in S : x =< y
  <2> SUFFICES ASSUME NEW y \in S, y < x
               PROVE  FALSE
    OBVIOUS
  <2>1. <<y, x>> \in Less
    BY <<y, x>> \in Nat \X Nat
  <2> QED
    BY <2>1, <1>2
<1> QED
  BY <1>3 DEF Min

-----------------------------------------------------------------------------
\* Sequences

\* Taking one element out of a sequence leaves a shorter sequence.
LEMMA RemoveAtType ==
    ASSUME NEW S, NEW q \in Seq(S), NEW m \in 1 .. Len(q)
    PROVE  /\ RemoveAt(q, m) \in Seq(S)
           /\ Len(RemoveAt(q, m)) = Len(q) - 1
<1> DEFINE front == SubSeq(q, 1, m - 1)
           rest == SubSeq(q, m + 1, Len(q))
<1>1. /\ front \in Seq(S)
      /\ Len(front) = m - 1
  <2>1. Len(q) \in Nat
    OBVIOUS
  <2>2. \A i \in 1 .. m - 1 : q[i] \in S
    BY <2>1, ElementOfSeq
  <2>. QED
    BY <2>1, <2>2, SubSeqProperties
<1>2. /\ rest \in Seq(S)
      /\ Len(rest) = Len(q) - m
  <2>1. Len(q) \in Nat
    OBVIOUS
  <2>2. \A i \in m + 1 .. Len(q) : q[i] \in S
    BY <2>1, ElementOfSeq
  <2>. QED
    BY <2>1, <2>2, SubSeqProperties
<1>3. /\ front \o rest \in Seq(S)
      /\ Len(front \o rest) = Len(front) + Len(rest)
  BY <1>1, <1>2, ConcatProperties
<1>4. Len(front) + Len(rest) = Len(q) - 1
  <2> HIDE DEF front, rest
  <2>1. Len(q) \in Nat
    OBVIOUS
  <2> QED
    BY <1>1, <1>2, <2>1
<1>5. RemoveAt(q, m) = front \o rest
  BY DEF RemoveAt
<1> QED
  BY <1>3, <1>4, <1>5

\* The elements behind the one that is taken out move up by one.
LEMMA RemoveAtElement ==
    ASSUME NEW S, NEW q \in Seq(S), NEW m \in 1 .. Len(q)
    PROVE  \A i \in 1 .. Len(q) - 1 :
               RemoveAt(q, m)[i] = IF i < m THEN q[i] ELSE q[i + 1]
<1> DEFINE front == SubSeq(q, 1, m - 1)
           rest == SubSeq(q, m + 1, Len(q))
<1>1. Len(q) \in Nat /\ m \in Int
  OBVIOUS
<1>2. /\ front \in Seq(S) /\ Len(front) = m - 1
      /\ \A i \in 1 .. m - 1 : front[i] = q[i]
  <2>1. \A i \in 1 .. m - 1 : q[i] \in S
    BY <1>1, ElementOfSeq
  <2> QED
    BY <1>1, <2>1, SubSeqProperties
<1>3. /\ rest \in Seq(S) /\ Len(rest) = Len(q) - m
      /\ \A i \in 1 .. Len(q) - m : rest[i] = q[m + i]
  <2>1. \A i \in m + 1 .. Len(q) : q[i] \in S
    BY <1>1, ElementOfSeq
  <2>2. /\ rest \in Seq(S)
        /\ Len(rest) = IF m + 1 <= Len(q) THEN Len(q) - (m + 1) + 1 ELSE 0
        /\ \A i \in 1 .. Len(q) - (m + 1) + 1 : rest[i] = q[(m + 1) + i - 1]
    BY <1>1, <2>1, SubSeqProperties
  <2> QED
    BY <1>1, <2>2
<1>4. \A i \in 1 .. Len(front) + Len(rest) :
          (front \o rest)[i] = IF i <= Len(front) THEN front[i] ELSE rest[i - Len(front)]
  BY <1>2, <1>3, ConcatProperties
<1>5. RemoveAt(q, m) = front \o rest
  BY DEF RemoveAt
<1> HIDE DEF front, rest
<1>6. SUFFICES ASSUME NEW i \in 1 .. Len(q) - 1
               PROVE  (front \o rest)[i] = IF i < m THEN q[i] ELSE q[i + 1]
  BY <1>5
<1>7. Len(front) + Len(rest) = Len(q) - 1
  BY <1>1, <1>2, <1>3
<1>8. CASE i < m
  BY <1>1, <1>2, <1>4, <1>7, <1>8
<1>9. CASE i >= m
  <2>1. i - Len(front) \in 1 .. Len(q) - m /\ m + (i - Len(front)) = i + 1
    BY <1>1, <1>2, <1>9
  <2>2. (front \o rest)[i] = rest[i - Len(front)]
    BY <1>1, <1>2, <1>4, <1>7, <1>9
  <2>3. rest[i - Len(front)] = q[m + (i - Len(front))]
    BY <1>3, <2>1
  <2>4. ~(i < m)
    BY <1>1, <1>9
  <2> QED
    BY <2>1, <2>2, <2>3, <2>4
<1>10. i < m \/ i >= m
  BY <1>1
<1> QED
  BY <1>8, <1>9, <1>10

\* Where an index of the shorter sequence was in the longer one.
Origin(m, i) == IF i < m THEN i ELSE i + 1

\* All that there is to know of a sequence that has lost its element m.
LEMMA RemoveAtOrigin ==
    ASSUME NEW S, NEW q \in Seq(S), NEW m \in 1 .. Len(q)
    PROVE  /\ RemoveAt(q, m) \in Seq(S)
           /\ Len(RemoveAt(q, m)) = Len(q) - 1
           /\ DOMAIN RemoveAt(q, m) = 1 .. Len(q) - 1
           /\ \A i \in 1 .. Len(q) - 1 :
                  /\ Origin(m, i) \in 1 .. Len(q) /\ Origin(m, i) # m
                  /\ RemoveAt(q, m)[i] = q[Origin(m, i)]
           /\ \A i, j \in 1 .. Len(q) - 1 : Origin(m, i) = Origin(m, j) => i = j
           /\ \A j \in 1 .. Len(q) : j # m => \E i \in 1 .. Len(q) - 1 : j = Origin(m, i)
<1>1. Len(q) \in Nat /\ m \in Nat
  OBVIOUS
<1>2. /\ RemoveAt(q, m) \in Seq(S)
      /\ Len(RemoveAt(q, m)) = Len(q) - 1
  BY RemoveAtType
<1>3. DOMAIN RemoveAt(q, m) = 1 .. Len(q) - 1
  BY <1>2, LenProperties
<1>4. \A i \in 1 .. Len(q) - 1 :
          /\ Origin(m, i) \in 1 .. Len(q) /\ Origin(m, i) # m
          /\ RemoveAt(q, m)[i] = q[Origin(m, i)]
  BY <1>1, RemoveAtElement DEF Origin
<1>5. \A i, j \in 1 .. Len(q) - 1 : Origin(m, i) = Origin(m, j) => i = j
  BY <1>1 DEF Origin
<1>6. ASSUME NEW j \in 1 .. Len(q), j # m
      PROVE  \E i \in 1 .. Len(q) - 1 : j = Origin(m, i)
  <2>1. CASE j < m
    <3>1. j \in 1 .. Len(q) - 1 /\ j = Origin(m, j)
      BY <1>1, <2>1 DEF Origin
    <3> QED
      BY <3>1
  <2>2. CASE j > m
    <3>1. j - 1 \in 1 .. Len(q) - 1 /\ j = Origin(m, j - 1)
      BY <1>1, <2>2 DEF Origin
    <3> QED
      BY <3>1
  <2> QED
    BY <1>1, <1>6, <2>1, <2>2
<1> QED
  BY <1>2, <1>3, <1>4, <1>5, <1>6

\* To take the head out is to take the first element out.
LEMMA TailIsRemoveAt ==
    ASSUME NEW S, NEW q \in Seq(S), q # <<>>
    PROVE  /\ 1 \in 1 .. Len(q)
           /\ Tail(q) = RemoveAt(q, 1)
<1>1. Len(q) \in Nat /\ Len(q) > 0
  BY EmptySeq, LenProperties
<1>2. 1 \in 1 .. Len(q)
  BY <1>1
<1>3. /\ Tail(q) \in Seq(S) /\ Len(Tail(q)) = Len(q) - 1
      /\ \A i \in 1 .. Len(Tail(q)) : Tail(q)[i] = q[i + 1]
  BY HeadTailProperties
<1>4. /\ RemoveAt(q, 1) \in Seq(S) /\ Len(RemoveAt(q, 1)) = Len(q) - 1
      /\ \A i \in 1 .. Len(q) - 1 : RemoveAt(q, 1)[i] = q[i + 1]
  BY <1>1, <1>2, RemoveAtType, RemoveAtElement
<1> QED
  BY <1>2, <1>3, <1>4, SeqEqual

-----------------------------------------------------------------------------
\* Matchings.  deque.remove goes by the value of a ticket and not by its
\* identity, so a thread may take away the ticket of another; what is kept is
\* that the values in the queue are the values of the waiting threads' tickets.

\* The elements of v can be assigned one to one to the indices of w that have
\* the same value.
Assigns(f, v, w) ==
    /\ f \in [DOMAIN v -> DOMAIN w]
    /\ \A s \in DOMAIN w : \E i \in DOMAIN v : f[i] = s
    /\ \A i, j \in DOMAIN v : f[i] = f[j] => i = j
    /\ \A i \in DOMAIN v : v[i] = w[f[i]]

Matching(v, w) == \E f : Assigns(f, v, w)

\* Nothing is matched with nothing.
LEMMA MatchingEmpty ==
    ASSUME NEW v, NEW w, DOMAIN v = {}, DOMAIN w = {}
    PROVE  Matching(v, w)
<1> DEFINE f == [i \in DOMAIN v |-> 0]
<1>1. Assigns(f, v, w)
  BY DEF Assigns
<1> HIDE DEF f
<1> QED
  BY <1>1 DEF Matching

\* How many elements of f have the value x.
Count(f, x) == Cardinality({i \in DOMAIN f : f[i] = x})

\* A matched queue has every value as often as the threads' tickets have it.
LEMMA MatchingCounts ==
    ASSUME NEW S, NEW v \in Seq(S), NEW w, Matching(v, w)
    PROVE  /\ IsFiniteSet(DOMAIN w)
           /\ Len(v) = Cardinality(DOMAIN w)
           /\ \A x : Count(v, x) = Count(w, x)
<1>1. PICK f : Assigns(f, v, w)
  BY DEF Matching
<1>2. /\ DOMAIN v = 1 .. Len(v) /\ Len(v) \in Nat
      /\ IsFiniteSet(DOMAIN v) /\ Cardinality(DOMAIN v) = Len(v)
  <2>1. DOMAIN v = 1 .. Len(v) /\ Len(v) \in Nat
    BY LenProperties
  <2>2. IsFiniteSet(1 .. Len(v)) /\ Cardinality(1 .. Len(v)) = Len(v)
    BY <2>1, FS_Interval
  <2> QED
    BY <2>1, <2>2
<1>3. ExistsBijection(DOMAIN v, DOMAIN w)
  <2>1. f \in Bijection(DOMAIN v, DOMAIN w)
    BY <1>1 DEF Assigns, Bijection, Injection, Surjection, IsInjective
  <2> QED
    BY <2>1 DEF ExistsBijection
<1>4. IsFiniteSet(DOMAIN w) /\ Cardinality(DOMAIN w) = Cardinality(DOMAIN v)
  BY <1>2, <1>3, FS_Bijection
<1>5. ASSUME NEW x
      PROVE  Count(v, x) = Count(w, x)
  <2> DEFINE I == {i \in DOMAIN v : v[i] = x}
             T == {s \in DOMAIN w : w[s] = x}
             g == [i \in I |-> f[i]]
  <2>1. g \in [I -> T]
    BY <1>1 DEF Assigns
  <2>2. \A s \in T : \E i \in I : g[i] = s
    BY <1>1 DEF Assigns
  <2>3. \A i, j \in I : g[i] = g[j] => i = j
    BY <1>1 DEF Assigns
  <2>4. IsFiniteSet(I)
    BY <1>2, FS_Subset
  <2> HIDE DEF I, T, g
  <2>5. g \in Bijection(I, T)
    BY <2>1, <2>2, <2>3 DEF Bijection, Injection, Surjection, IsInjective
  <2>6. Cardinality(T) = Cardinality(I)
    BY <2>4, <2>5, FS_Bijection DEF ExistsBijection
  <2> QED
    BY <2>6 DEF I, T, Count
<1> QED
  BY <1>2, <1>4, <1>5

\* A ticket goes to the end of the queue and its thread joins the threads.
LEMMA MatchingAppend ==
    ASSUME NEW S, NEW v \in Seq(S), NEW w, Matching(v, w), NEW x \in S,
           NEW u, NEW s \in DOMAIN u, DOMAIN w = DOMAIN u \ {s}, u[s] = x,
           \A t \in DOMAIN w : u[t] = w[t]
    PROVE  Matching(Append(v, x), u)
<1>1. PICK f : Assigns(f, v, w)
  BY DEF Matching
<1> DEFINE n == Len(v) + 1
           g == [i \in 1 .. n |-> IF i = n THEN s ELSE f[i]]
<1>2. /\ DOMAIN v = 1 .. Len(v) /\ Len(v) \in Nat
      /\ DOMAIN Append(v, x) = 1 .. n
      /\ Append(v, x)[n] = x
      /\ \A i \in 1 .. Len(v) : Append(v, x)[i] = v[i]
  BY AppendProperties, LenProperties
<1>3. \A i \in 1 .. Len(v) : i \in 1 .. n /\ i # n /\ g[i] = f[i] /\ f[i] \in DOMAIN w
  BY <1>1, <1>2 DEF Assigns
<1>4. n \in 1 .. n /\ g[n] = s /\ \A i \in 1 .. n : i = n \/ i \in 1 .. Len(v)
  BY <1>2
<1>5. g \in [1 .. n -> DOMAIN u]
  BY <1>3, <1>4
<1> HIDE DEF g, n
<1>6. \A t \in DOMAIN u : \E i \in 1 .. n : g[i] = t
  BY <1>1, <1>2, <1>3, <1>4 DEF Assigns
<1>7. \A i, j \in 1 .. n : g[i] = g[j] => i = j
  BY <1>1, <1>2, <1>3, <1>4 DEF Assigns
<1>8. \A i \in 1 .. n : Append(v, x)[i] = u[g[i]]
  BY <1>1, <1>2, <1>3, <1>4 DEF Assigns
<1>9. Assigns(g, Append(v, x), u)
  BY <1>2, <1>5, <1>6, <1>7, <1>8 DEF Assigns
<1> QED
  BY <1>9 DEF Matching

\* A thread takes away some ticket with the value of its own: the thread whose
\* ticket that was is left with the ticket of the first.
LEMMA MatchingRemove ==
    ASSUME NEW S, NEW v \in Seq(S), NEW w, Matching(v, w),
           NEW s \in DOMAIN w, NEW m \in 1 .. Len(v), v[m] = w[s],
           NEW u, DOMAIN u = DOMAIN w \ {s}, \A t \in DOMAIN u : u[t] = w[t]
    PROVE  Matching(RemoveAt(v, m), u)
<1>1. PICK f : Assigns(f, v, w)
  BY DEF Matching
<1>2. DOMAIN v = 1 .. Len(v)
  BY LenProperties
<1> DEFINE h == [i \in 1 .. Len(v) |-> IF f[i] = s THEN f[m] ELSE f[i]]
           D == 1 .. Len(v) - 1
           g == [i \in D |-> h[Origin(m, i)]]
<1>3. /\ DOMAIN RemoveAt(v, m) = D
      /\ \A i \in D :
             /\ Origin(m, i) \in 1 .. Len(v) /\ Origin(m, i) # m
             /\ RemoveAt(v, m)[i] = v[Origin(m, i)]
      /\ \A i, j \in D : Origin(m, i) = Origin(m, j) => i = j
      /\ \A j \in 1 .. Len(v) : j # m => \E i \in D : j = Origin(m, i)
  <2> HIDE DEF h, g
  <2>1. DOMAIN RemoveAt(v, m) = D
    BY RemoveAtOrigin
  <2>2. \A i \in D :
            /\ Origin(m, i) \in 1 .. Len(v) /\ Origin(m, i) # m
            /\ RemoveAt(v, m)[i] = v[Origin(m, i)]
    BY RemoveAtOrigin
  <2>3. \A i, j \in D : Origin(m, i) = Origin(m, j) => i = j
    BY RemoveAtOrigin
  <2>4. \A j \in 1 .. Len(v) : j # m => \E i \in D : j = Origin(m, i)
    BY RemoveAtOrigin
  <2> QED
    BY <2>1, <2>2, <2>3, <2>4
<1>4. \A i \in 1 .. Len(v) : i # m => h[i] \in DOMAIN u /\ v[i] = u[h[i]]
  BY <1>1, <1>2 DEF Assigns
<1>5. \A i, j \in 1 .. Len(v) : i # m /\ j # m /\ h[i] = h[j] => i = j
  BY <1>1, <1>2 DEF Assigns
<1>6. \A t \in DOMAIN u : \E i \in 1 .. Len(v) : i # m /\ h[i] = t
  <2> SUFFICES ASSUME NEW t \in DOMAIN u
               PROVE  \E i \in 1 .. Len(v) : i # m /\ h[i] = t
    OBVIOUS
  <2>1. PICK i \in 1 .. Len(v) : f[i] = t
    BY <1>1, <1>2 DEF Assigns
  <2>2. PICK j \in 1 .. Len(v) : f[j] = s
    BY <1>1, <1>2 DEF Assigns
  <2>3. CASE i # m
    BY <2>1, <2>3
  <2>4. CASE i = m
    BY <2>1, <2>2, <2>4
  <2> QED
    BY <2>3, <2>4
<1> HIDE DEF h, D
<1>7. Assigns(g, RemoveAt(v, m), u)
  <2>1. g \in [D -> DOMAIN u]
    BY <1>3, <1>4
  <2>2. \A t \in DOMAIN u : \E i \in D : g[i] = t
    <3> SUFFICES ASSUME NEW t \in DOMAIN u
                 PROVE  \E i \in D : g[i] = t
      OBVIOUS
    <3>1. PICK j \in 1 .. Len(v) : j # m /\ h[j] = t
      BY <1>6
    <3>2. PICK i \in D : j = Origin(m, i)
      BY <1>3, <3>1
    <3> QED
      BY <3>1, <3>2
  <2>3. \A i, j \in D : g[i] = g[j] => i = j
    BY <1>3, <1>5
  <2>4. \A i \in D : RemoveAt(v, m)[i] = u[g[i]]
    BY <1>3, <1>4
  <2> HIDE DEF g
  <2> QED
    BY <1>3, <2>1, <2>2, <2>3, <2>4 DEF Assigns
<1> HIDE DEF g
<1> QED
  BY <1>7 DEF Matching
=============================================================================
