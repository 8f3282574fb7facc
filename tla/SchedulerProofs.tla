--------------------------- MODULE SchedulerProofs ---------------------------
(***************************************************************************)
(* What holds of the scheduler for any number of tasks and sockets and     *)
(* whatever the delays: its delay queue keeps the times it was given, no   *)
(* task is early, none is slept through, and select() is told of the       *)
(* sockets that have a handler.                                            *)
(***************************************************************************)
EXTENDS Scheduler, SequenceFacts, FiniteSetTheorems

-----------------------------------------------------------------------------
(* The times in a delay queue: the sums of its deltas.                      *)

Queues == Seq(Tasks \X Nat)

\* f sums up the deltas of q.
Sums(q, f) ==
    /\ f[0] = 0
    /\ \A i \in 1 .. Len(q) : f[i] = f[i - 1] + q[i][2]

\* There is only one such function.
LEMMA SumsUnique ==
    ASSUME NEW q \in Queues, NEW f, NEW g, Sums(q, f), Sums(q, g)
    PROVE  \A i \in 0 .. Len(q) : f[i] = g[i]
<1> DEFINE Bad == {i \in 0 .. Len(q) : f[i] # g[i]}
<1>1. Len(q) \in Nat
  BY LenProperties DEF Queues
<1>2. SUFFICES ASSUME Bad # {} PROVE FALSE
  OBVIOUS
<1>3. Bad \subseteq Nat
  BY <1>1
<1> HIDE DEF Bad
<1>4. PICK m \in Bad : \A k \in Bad : m <= k
  BY <1>2, <1>3, LeastOf
<1> USE DEF Bad
<1>5. m \in 1 .. Len(q) /\ m - 1 \in 0 .. Len(q) /\ m - 1 \notin Bad
  BY <1>1, <1>4 DEF Sums
<1>6. f[m] = f[m - 1] + q[m][2] /\ g[m] = g[m - 1] + q[m][2] /\ f[m - 1] = g[m - 1]
  BY <1>5 DEF Sums
<1> QED BY <1>4, <1>6

\* There is one.
LEMMA SumsExist ==
    ASSUME NEW q \in Queues
    PROVE  \E f \in [0 .. Len(q) -> Nat] : Sums(q, f)
<1> DEFINE UpTo(k) == {f \in [0 .. k -> Nat] :
                          f[0] = 0 /\ \A i \in 1 .. k : f[i] = f[i - 1] + q[i][2]}
           Bad == {k \in 0 .. Len(q) : UpTo(k) = {}}
<1>1. Len(q) \in Nat /\ \A i \in 1 .. Len(q) : q[i][2] \in Nat
  BY LenProperties, ElementOfSeq DEF Queues
<1>2. ASSUME Bad # {} PROVE FALSE
  <2>1. Bad \subseteq Nat
    BY <1>1
  <2> HIDE DEF Bad
  <2>2. PICK m \in Bad : \A k \in Bad : m <= k
    BY <1>2, <2>1, LeastOf
  <2> USE DEF Bad
  <2>3. m # 0
    <3>1. [i \in 0 .. 0 |-> 0] \in UpTo(0)
      OBVIOUS
    <3> QED BY <2>2, <3>1
  <2>4. m \in 1 .. Len(q) /\ m - 1 \in 0 .. Len(q) /\ m - 1 \notin Bad
    <3>1. m \in 0 .. Len(q)
      BY <2>2
    <3>2. m \in 1 .. Len(q) /\ m - 1 \in 0 .. Len(q) /\ ~(m <= m - 1)
      BY <1>1, <2>3, <3>1
    <3> HIDE DEF Bad
    <3> QED BY <2>2, <3>2
  <2>5. PICK f \in UpTo(m - 1) : TRUE
    BY <2>4
  <2> DEFINE g == [i \in 0 .. m |-> IF i = m THEN f[m - 1] + q[m][2] ELSE f[i]]
  <2>6. f[m - 1] \in Nat /\ q[m][2] \in Nat
    BY <1>1, <2>4, <2>5
  <2>7. g \in [0 .. m -> Nat]
    BY <2>4, <2>5, <2>6
  <2>8. g[0] = 0 /\ \A i \in 1 .. m : g[i] = g[i - 1] + q[i][2]
    <3>1. g[0] = f[0] /\ f[0] = 0
      BY <2>4, <2>5
    <3>2. ASSUME NEW i \in 1 .. m PROVE g[i] = g[i - 1] + q[i][2]
      <4>1. i - 1 \in 0 .. m /\ i \in 0 .. m /\ i - 1 # m
        BY <2>4
      <4>2. g[i - 1] = f[i - 1] /\ g[i] = IF i = m THEN f[m - 1] + q[m][2] ELSE f[i]
        BY <4>1
      <4>3. i # m => i \in 1 .. m - 1
        BY <2>4
      <4>4. i # m => f[i] = f[i - 1] + q[i][2]
        BY <2>5, <4>3
      <4> QED BY <4>2, <4>4
    <3> QED BY <3>1, <3>2
  <2>9. g \in UpTo(m)
    BY <2>7, <2>8
  <2> QED BY <2>2, <2>9
<1>3. UpTo(Len(q)) # {}
  BY <1>1, <1>2
<1> QED BY <1>3 DEF Sums

\* DueIn is that function.
LEMMA DueFacts ==
    ASSUME NEW q \in Queues
    PROVE  DueIn(q) \in [0 .. Len(q) -> Nat] /\ Sums(q, DueIn(q))
<1> DEFINE Step(g) == [i \in 0 .. Len(q) |-> IF i = 0 THEN 0 ELSE g[i - 1] + q[i][2]]
           d == DueIn(q)
<1>1. PICK f \in [0 .. Len(q) -> Nat] : Sums(q, f)
  BY SumsExist
<1>2. Len(q) \in Nat
  BY LenProperties DEF Queues
<1>3. f = Step(f)
  BY <1>1, <1>2 DEF Sums
<1>4. d = CHOOSE g : g = Step(g)
  BY DEF DueIn
<1> HIDE DEF d
<1>5. d = Step(d)
  BY <1>3, <1>4
<1>6. Sums(q, d)
  BY <1>2, <1>5 DEF Sums
<1>7. \A i \in 0 .. Len(q) : d[i] = f[i]
  BY <1>1, <1>6, SumsUnique
<1>8. d \in [0 .. Len(q) -> Nat]
  BY <1>5, <1>7
<1> QED BY <1>6, <1>8 DEF d

LEMMA DueSteps ==
    ASSUME NEW q \in Queues
    PROVE  /\ DueIn(q)[0] = 0
           /\ \A i \in 1 .. Len(q) :
                 /\ DueIn(q)[i] \in Nat /\ DueIn(q)[i - 1] \in Nat /\ q[i][2] \in Nat
                 /\ DueIn(q)[i] = DueIn(q)[i - 1] + q[i][2]
<1>1. Len(q) \in Nat
  BY LenProperties DEF Queues
<1>2. DueIn(q) \in [0 .. Len(q) -> Nat] /\ Sums(q, DueIn(q))
  BY DueFacts
<1>3. ASSUME NEW i \in 1 .. Len(q)
      PROVE  /\ DueIn(q)[i] \in Nat /\ DueIn(q)[i - 1] \in Nat /\ q[i][2] \in Nat
             /\ DueIn(q)[i] = DueIn(q)[i - 1] + q[i][2]
  <2>1. i \in 0 .. Len(q) /\ i - 1 \in 0 .. Len(q)
    BY <1>1
  <2>2. q[i] \in Tasks \X Nat
    BY ElementOfSeq DEF Queues
  <2> HIDE DEF Queues
  <2> QED BY <1>2, <2>1, <2>2 DEF Sums
<1> QED BY <1>2, <1>3 DEF Sums

\* What sums up the deltas is DueIn.
LEMMA DueUnique ==
    ASSUME NEW q \in Queues, NEW f, Sums(q, f)
    PROVE  \A i \in 0 .. Len(q) : DueIn(q)[i] = f[i]
  BY DueFacts, SumsUnique

\* Later entries are not due earlier.
LEMMA DueMonotonic ==
    ASSUME NEW q \in Queues, NEW i \in 0 .. Len(q), NEW j \in i .. Len(q)
    PROVE  DueIn(q)[i] <= DueIn(q)[j]
<1> DEFINE d == DueIn(q)
           Bad == {k \in i .. Len(q) : ~(d[i] <= d[k])}
<1>1. Len(q) \in Nat /\ \A k \in 1 .. Len(q) : q[k][2] \in Nat
  BY LenProperties, ElementOfSeq DEF Queues
<1>2. d \in [0 .. Len(q) -> Nat] /\ Sums(q, d)
  BY DueFacts
<1>3. SUFFICES ASSUME Bad # {} PROVE FALSE
  BY <1>1
<1>4. Bad \subseteq Nat
  BY <1>1
<1> HIDE DEF Bad, d
<1>5. PICK m \in Bad : \A k \in Bad : m <= k
  BY <1>3, <1>4, LeastOf
<1> USE DEF Bad
<1>6. m # i
  BY <1>1, <1>2, <1>5
<1>7. m - 1 \in i .. Len(q) /\ m \in 1 .. Len(q) /\ m - 1 \notin Bad
  BY <1>1, <1>5, <1>6
<1>8. d[m] = d[m - 1] + q[m][2] /\ q[m][2] \in Nat /\ d[i] <= d[m - 1]
  BY <1>1, <1>2, <1>7 DEF Sums
<1>9. d[m - 1] \in Nat /\ d[i] \in Nat
  BY <1>1, <1>2, <1>7
<1> QED BY <1>5, <1>8, <1>9

-----------------------------------------------------------------------------
(* The operations of the delay queue.                                       *)

\* A function on the numbers up to n is a sequence of that length.
LEMMA FunctionIsSeq ==
    ASSUME NEW S, NEW n \in Nat, NEW f \in [1 .. n -> S]
    PROVE  f \in Seq(S) /\ Len(f) = n
  OBVIOUS

\* Synchronising takes the time that has passed from what is left.
LEMMA SynchronizedFacts ==
    ASSUME NEW q \in Queues, NEW e \in Nat
    PROVE  LET s == Synchronized(q, e) IN
           /\ s \in Queues /\ Len(s) = Len(q)
           /\ \A i \in 1 .. Len(q) :
                 /\ s[i][1] = q[i][1]
                 /\ DueIn(s)[i] = IF DueIn(q)[i] <= e THEN 0 ELSE DueIn(q)[i] - e
<1> DEFINE d == DueIn(q)
           s == Synchronized(q, e)
           new(i) == IF d[i] <= e THEN 0 ELSE IF d[i - 1] <= e THEN d[i] - e ELSE q[i][2]
           f == [i \in 0 .. Len(q) |-> IF d[i] <= e THEN 0 ELSE d[i] - e]
<1>1. Len(q) \in Nat /\ DOMAIN q = 1 .. Len(q)
  BY LenProperties DEF Queues
<1>2. \A i \in 1 .. Len(q) : q[i][1] \in Tasks /\ q[i][2] \in Nat
  BY ElementOfSeq DEF Queues
<1>3. d \in [0 .. Len(q) -> Nat] /\ Sums(q, d)
  BY DueFacts
<1>4. \A i \in 1 .. Len(q) : i - 1 \in 0 .. Len(q) /\ i \in 0 .. Len(q) /\ i \in (i - 1) .. Len(q)
  BY <1>1
<1>5. \A i \in 1 .. Len(q) : d[i - 1] <= d[i]
  BY <1>4, DueMonotonic
<1>6. s = [i \in 1 .. Len(q) |-> <<q[i][1], new(i)>>]
  BY <1>1 DEF Synchronized
<1> HIDE DEF d, s
<1>7. \A i \in 1 .. Len(q) : d[i] \in Nat /\ d[i - 1] \in Nat /\ d[i] = d[i - 1] + q[i][2]
  BY <1>3, <1>4 DEF Sums
<1>8. \A i \in 1 .. Len(q) : new(i) \in Nat
  BY <1>2, <1>7
<1>9. s \in Queues /\ Len(s) = Len(q)
  <2>1. s \in [1 .. Len(q) -> Tasks \X Nat]
    <3> HIDE DEF new
    <3> QED BY <1>2, <1>6, <1>8
  <2> QED BY <1>1, <2>1, FunctionIsSeq DEF Queues
<1>10. \A i \in 1 .. Len(q) : s[i][1] = q[i][1] /\ s[i][2] = new(i)
  BY <1>6
<1>11. Sums(s, f)
  <2>1. f[0] = 0
    BY <1>1, <1>3 DEF Sums
  <2>2. ASSUME NEW i \in 1 .. Len(q) PROVE f[i] = f[i - 1] + s[i][2]
    <3>1. /\ f[i] = IF d[i] <= e THEN 0 ELSE d[i] - e
          /\ f[i - 1] = IF d[i - 1] <= e THEN 0 ELSE d[i - 1] - e
      BY <1>4
    <3>2. s[i][2] = IF d[i] <= e THEN 0 ELSE IF d[i - 1] <= e THEN d[i] - e ELSE q[i][2]
      BY <1>10
    <3>3. /\ d[i] \in Nat /\ d[i - 1] \in Nat /\ q[i][2] \in Nat
          /\ d[i] = d[i - 1] + q[i][2] /\ d[i - 1] <= d[i]
      BY <1>2, <1>5, <1>7
    <3> HIDE DEF f
    <3> QED BY <3>1, <3>2, <3>3
  <2> QED BY <1>9, <2>1, <2>2 DEF Sums
<1>12. \A i \in 1 .. Len(q) : DueIn(s)[i] = f[i]
  BY <1>4, <1>9, <1>11, DueUnique
<1> QED BY <1>4, <1>9, <1>10, <1>12 DEF d, s

\* A task without its neighbours' times.
LEMMA PairExcept ==
    ASSUME NEW p \in Tasks \X Nat, NEW n
    PROVE  [p EXCEPT ![2] = n] = <<p[1], n>>
  OBVIOUS

\* The entries due within d are the first ones.
LEMMA PlaceFacts ==
    ASSUME NEW q \in Queues, NEW d \in Nat
    PROVE  /\ Place(q, d) \in 0 .. Len(q)
           /\ \A i \in 1 .. Len(q) : DueIn(q)[i] <= d <=> i <= Place(q, d)
<1> DEFINE Within == {i \in DOMAIN q : DueIn(q)[i] <= d}
           Beyond == {i \in 1 .. Len(q) : DueIn(q)[i] > d} \cup {Len(q) + 1}
<1>1. Len(q) \in Nat /\ DOMAIN q = 1 .. Len(q)
  BY LenProperties DEF Queues
<1>2. \A i \in 1 .. Len(q) : DueIn(q)[i] \in Nat
  BY <1>1, DueFacts
<1>3. Beyond \subseteq Nat /\ Beyond # {}
  BY <1>1
<1>4. PICK m \in Beyond : \A j \in Beyond : m <= j
  <2> HIDE DEF Beyond
  <2> QED BY <1>3, LeastOf
<1>5. m \in 1 .. Len(q) + 1
  BY <1>1, <1>4
<1>6. ASSUME NEW i \in 1 .. Len(q) PROVE DueIn(q)[i] <= d <=> i <= m - 1
  <2>1. CASE i < m
    BY <1>2, <1>4, <1>5, <2>1
  <2>2. CASE ~(i < m)
    <3>1. m \in 1 .. Len(q) /\ i \in m .. Len(q) /\ m \in 0 .. Len(q)
      BY <1>1, <1>5, <2>2
    <3>2. DueIn(q)[m] > d
      BY <1>1, <1>4, <3>1
    <3>3. DueIn(q)[m] <= DueIn(q)[i]
      BY <3>1, DueMonotonic
    <3> QED BY <1>2, <1>5, <2>2, <3>1, <3>2, <3>3
  <2> QED BY <2>1, <2>2
<1>7. Within = 1 .. m - 1
  BY <1>1, <1>5, <1>6
<1>8. Cardinality(1 .. m - 1) = m - 1
  BY <1>5, FS_Interval
<1>9. Place(q, d) = m - 1
  BY <1>7, <1>8 DEF Place
<1> QED BY <1>1, <1>5, <1>6, <1>9

\* What is removed leaves a gap that is closed.
LEMMA RemoveAtFacts ==
    ASSUME NEW S, NEW s \in Seq(S), NEW k \in 1 .. Len(s)
    PROVE  LET r == RemoveAt(s, k) IN
           /\ r \in Seq(S) /\ Len(r) = Len(s) - 1
           /\ \A i \in 1 .. Len(s) - 1 : r[i] = s[IF i < k THEN i ELSE i + 1]
<1> DEFINE a == SubSeq(s, 1, k - 1)
           b == SubSeq(s, k + 1, Len(s))
           r == RemoveAt(s, k)
<1>1. Len(s) \in Nat /\ k \in Nat \ {0} /\ k <= Len(s)
  BY LenProperties
<1>2. \A i \in 1 .. Len(s) : s[i] \in S
  BY ElementOfSeq
<1>3. a \in Seq(S) /\ Len(a) = k - 1 /\ \A i \in 1 .. k - 1 : a[i] = s[i]
  BY <1>1, <1>2, SubSeqProperties
<1>4. /\ b \in Seq(S) /\ Len(b) = Len(s) - k
      /\ \A i \in 1 .. Len(s) - k : b[i] = s[k + i]
  BY <1>1, <1>2, SubSeqProperties
<1>5. r = a \o b
  BY DEF RemoveAt
<1> HIDE DEF a, b, r
<1>6. r \in Seq(S) /\ Len(r) = Len(s) - 1
  <2>1. r \in Seq(S) /\ Len(r) = Len(a) + Len(b)
    BY <1>3, <1>4, <1>5, ConcatProperties
  <2> QED BY <1>1, <1>3, <1>4, <2>1
<1>7. ASSUME NEW i \in 1 .. Len(s) - 1 PROVE r[i] = s[IF i < k THEN i ELSE i + 1]
  <2>1. r[i] = IF i <= k - 1 THEN a[i] ELSE b[i - (k - 1)]
    BY <1>1, <1>3, <1>4, <1>5, ConcatProperties
  <2>2. CASE i < k
    <3>1. i <= k - 1 /\ i \in 1 .. k - 1
      BY <1>1, <2>2
    <3> QED BY <1>3, <2>1, <2>2, <3>1
  <2>3. CASE ~(i < k)
    <3>1. ~(i <= k - 1) /\ i - (k - 1) \in 1 .. Len(s) - k /\ k + (i - (k - 1)) = i + 1
      BY <1>1, <2>3
    <3>2. b[i - (k - 1)] = s[k + (i - (k - 1))]
      BY <1>4, <3>1
    <3> QED BY <2>1, <2>3, <3>1, <3>2
  <2> QED BY <2>2, <2>3
<1> QED BY <1>6, <1>7 DEF r

\* Removing an entry leaves the others due when they were.
LEMMA RemovedFacts ==
    ASSUME NEW q \in Queues, NEW k \in 1 .. Len(q)
    PROVE  LET s == Removed(q, k) IN
           /\ s \in Queues /\ Len(s) = Len(q) - 1
           /\ \A i \in 1 .. Len(q) - 1 : LET j == IF i < k THEN i ELSE i + 1 IN
                 s[i][1] = q[j][1] /\ DueIn(s)[i] = DueIn(q)[j]
<1> DEFINE d == DueIn(q)
           r == RemoveAt(q, k)
           s == Removed(q, k)
           f == [i \in 0 .. Len(q) - 1 |-> IF i < k THEN d[i] ELSE d[i + 1]]
<1>1. Len(q) \in Nat /\ k \in Nat \ {0} /\ k <= Len(q)
  BY LenProperties DEF Queues
<1>2. \A i \in 1 .. Len(q) : q[i] \in Tasks \X Nat /\ q[i][2] \in Nat
  BY ElementOfSeq DEF Queues
<1>3. /\ r \in Queues /\ Len(r) = Len(q) - 1
      /\ \A i \in 1 .. Len(q) - 1 : r[i] = q[IF i < k THEN i ELSE i + 1]
  BY RemoveAtFacts DEF Queues
<1>4. d[0] = 0 /\ \A i \in 1 .. Len(q) : d[i] = d[i - 1] + q[i][2] /\ d[i] \in Nat /\ d[i - 1] \in Nat
  BY DueSteps
<1> HIDE DEF d, r
<1>5. /\ s \in Queues /\ Len(s) = Len(q) - 1
      /\ \A i \in 1 .. Len(q) - 1 :
            /\ s[i][1] = r[i][1]
            /\ s[i][2] = IF i = k THEN r[i][2] + q[k][2] ELSE r[i][2]
  <2>1. CASE k > Len(r)
    <3>1. s = r
      BY <2>1 DEF Removed, r
    <3> QED BY <1>1, <1>3, <2>1, <3>1
  <2>2. CASE ~(k > Len(r))
    <3>1. k \in 1 .. Len(r) /\ r[k] \in Tasks \X Nat
      BY <1>1, <1>3, <2>2, ElementOfSeq DEF Queues
    <3>2. r[k][1] \in Tasks /\ r[k][2] + q[k][2] \in Nat
      BY <1>2, <3>1
    <3> DEFINE p == <<r[k][1], r[k][2] + q[k][2]>>
    <3>3. p \in Tasks \X Nat /\ [r[k] EXCEPT ![2] = @ + q[k][2]] = p
      BY <3>1, <3>2, PairExcept
    <3>4. s = [r EXCEPT ![k] = [r[k] EXCEPT ![2] = @ + q[k][2]]]
      BY <2>2 DEF Removed, r
    <3>5. p[1] = r[k][1] /\ p[2] = r[k][2] + q[k][2]
      OBVIOUS
    <3> HIDE DEF p
    <3>6. s = [r EXCEPT ![k] = p]
      BY <3>3, <3>4
    <3> HIDE DEF s
    <3>7. /\ s \in Queues /\ Len(s) = Len(r)
          /\ \A i \in 1 .. Len(r) : s[i] = IF i = k THEN p ELSE r[i]
      <4>1. r \in Seq(Tasks \X Nat)
        BY <1>3 DEF Queues
      <4>2. /\ [r EXCEPT ![k] = p] \in Seq(Tasks \X Nat)
            /\ Len([r EXCEPT ![k] = p]) = Len(r)
            /\ \A i \in 1 .. Len(r) : [r EXCEPT ![k] = p][i] = IF i = k THEN p ELSE r[i]
        BY <3>1, <3>3, <4>1, ExceptSeq
      <4> QED BY <3>6, <4>2 DEF Queues
    <3> QED BY <1>3, <3>5, <3>7
  <2> QED BY <2>1, <2>2
<1> HIDE DEF s
<1>6. Sums(s, f)
  <2>1. f[0] = 0
    BY <1>1, <1>4
  <2>2. ASSUME NEW i \in 1 .. Len(q) - 1 PROVE f[i] = f[i - 1] + s[i][2]
    <3>1. i \in 0 .. Len(q) - 1 /\ i - 1 \in 0 .. Len(q) - 1 /\ i \in 1 .. Len(q)
          /\ i + 1 \in 1 .. Len(q) /\ (i - 1) + 1 = i /\ (i + 1) - 1 = i
      BY <1>1
    <3>2. /\ f[i] = IF i < k THEN d[i] ELSE d[i + 1]
          /\ f[i - 1] = IF i - 1 < k THEN d[i - 1] ELSE d[i]
      BY <3>1
    <3>3. d[i] = d[i - 1] + q[i][2] /\ d[i + 1] = d[i] + q[i + 1][2]
          /\ d[i] \in Nat /\ d[i - 1] \in Nat /\ d[i + 1] \in Nat
      BY <1>4, <3>1
    <3>4. s[i][2] = IF i = k THEN q[i + 1][2] + q[k][2]
                    ELSE IF i < k THEN q[i][2] ELSE q[i + 1][2]
      BY <1>3, <1>5
    <3>5. q[i][2] \in Nat /\ q[i + 1][2] \in Nat
      BY <1>2, <3>1
    <3> HIDE DEF f
    <3>6. CASE i < k
      BY <1>1, <3>2, <3>3, <3>4, <3>6
    <3>7. CASE i = k
      BY <1>1, <3>2, <3>3, <3>4, <3>5, <3>7
    <3>8. CASE i > k
      BY <1>1, <3>2, <3>3, <3>4, <3>8
    <3> QED BY <1>1, <3>6, <3>7, <3>8
  <2> QED BY <1>5, <2>1, <2>2 DEF Sums
<1>7. \A i \in 0 .. Len(q) - 1 : DueIn(s)[i] = f[i]
  BY <1>5, <1>6, DueUnique
<1>8. ASSUME NEW i \in 1 .. Len(q) - 1
      PROVE  LET j == IF i < k THEN i ELSE i + 1 IN s[i][1] = q[j][1] /\ DueIn(s)[i] = d[j]
  <2>1. i \in 0 .. Len(q) - 1
    BY <1>1
  <2>2. s[i][1] = q[IF i < k THEN i ELSE i + 1][1]
    BY <1>3, <1>5
  <2>3. DueIn(s)[i] = IF i < k THEN d[i] ELSE d[i + 1]
    BY <1>7, <2>1
  <2> QED BY <2>2, <2>3
<1> QED BY <1>5, <1>8 DEF d, s

\* An entry is added behind those due no later, and no other is moved in time.
LEMMA AddedFacts ==
    ASSUME NEW q \in Queues, NEW t \in Tasks, NEW x \in Nat
    PROVE  LET s == Added(q, t, x)
               k == Place(q, x)
           IN
           /\ s \in Queues /\ Len(s) = Len(q) + 1
           /\ s[k + 1][1] = t /\ DueIn(s)[k + 1] = x
           /\ \A i \in 1 .. k : s[i][1] = q[i][1] /\ DueIn(s)[i] = DueIn(q)[i]
           /\ \A i \in k + 1 .. Len(q) :
                 s[i + 1][1] = q[i][1] /\ DueIn(s)[i + 1] = DueIn(q)[i]
<1> DEFINE d == DueIn(q)
           k == Place(q, x)
           delta == x - d[k]
           a == SubSeq(q, 1, k)
           e == <<t, delta>>
           b == SubSeq(q, k + 1, Len(q))
           c == IF b = <<>> THEN <<>> ELSE [b EXCEPT ![1][2] = @ - delta]
           s == Added(q, t, x)
           f == [i \in 0 .. Len(q) + 1 |-> IF i <= k THEN d[i] ELSE IF i = k + 1 THEN x ELSE d[i - 1]]
<1>1. Len(q) \in Nat /\ k \in Nat /\ k <= Len(q)
  <2>1. Len(q) \in Nat
    BY LenProperties DEF Queues
  <2>2. k \in 0 .. Len(q)
    BY PlaceFacts
  <2> HIDE DEF k
  <2> QED BY <2>1, <2>2
<1>2. \A i \in 1 .. Len(q) : q[i] \in Tasks \X Nat /\ q[i][1] \in Tasks /\ q[i][2] \in Nat
  BY ElementOfSeq DEF Queues
<1>3. d[0] = 0 /\ \A i \in 1 .. Len(q) : d[i] = d[i - 1] + q[i][2] /\ d[i] \in Nat /\ d[i - 1] \in Nat
  BY DueSteps
<1>4. \A i \in 1 .. Len(q) : d[i] <= x <=> i <= k
  BY PlaceFacts
<1> HIDE DEF d, k
<1>5. d[k] \in Nat /\ d[k] <= x
  BY <1>1, <1>3, <1>4
<1>6. delta \in Nat /\ e \in Tasks \X Nat /\ e[1] = t /\ e[2] = delta
  BY <1>5
<1>7. a \in Queues /\ Len(a) = k /\ \A i \in 1 .. k : a[i] = q[i]
  <2>1. \A i \in 1 .. k : q[i] \in Tasks \X Nat
    BY <1>1, <1>2
  <2>2. /\ a \in Seq(Tasks \X Nat) /\ Len(a) = IF 1 <= k THEN k - 1 + 1 ELSE 0
        /\ \A i \in 1 .. k - 1 + 1 : a[i] = q[1 + i - 1]
    BY <1>1, <2>1, SubSeqProperties
  <2> HIDE DEF a
  <2> QED BY <1>1, <2>2 DEF Queues
<1>8. b \in Queues /\ Len(b) = Len(q) - k /\ \A i \in 1 .. Len(q) - k : b[i] = q[k + i]
  <2>1. \A i \in k + 1 .. Len(q) : q[i] \in Tasks \X Nat
    BY <1>1, <1>2
  <2>2. /\ b \in Seq(Tasks \X Nat)
        /\ Len(b) = IF k + 1 <= Len(q) THEN Len(q) - (k + 1) + 1 ELSE 0
        /\ \A i \in 1 .. Len(q) - (k + 1) + 1 : b[i] = q[(k + 1) + i - 1]
    BY <1>1, <2>1, SubSeqProperties
  <2> HIDE DEF b
  <2> QED BY <1>1, <2>2 DEF Queues
<1>9. s = (a \o <<e>>) \o c
  BY DEF Added, d, k
<1> HIDE DEF a, b, s, delta, e
<1>10. /\ c \in Queues /\ Len(c) = Len(q) - k
       /\ \A i \in 1 .. Len(q) - k :
             /\ c[i][1] = q[k + i][1]
             /\ c[i][2] = IF i = 1 THEN q[k + i][2] - delta ELSE q[k + i][2]
  <2>1. CASE b = <<>>
    <3>1. c = <<>> /\ Len(b) = 0
      BY <2>1
    <3> QED BY <1>1, <1>8, <2>1, <3>1 DEF Queues
  <2>2. CASE b # <<>>
    <3>1. Len(b) \in Nat \ {0}
      BY <1>8, <2>2, EmptySeq DEF Queues
    <3>2. 1 \in 1 .. Len(b) /\ k + 1 \in 1 .. Len(q) /\ b[1] = q[k + 1]
      BY <1>1, <1>8, <3>1
    <3>3. b[1] \in Tasks \X Nat /\ b[1][1] \in Tasks /\ b[1][2] \in Nat
      BY <1>2, <3>2
    <3>4. b[1][2] - delta \in Nat
      <4>1. ~(d[k + 1] <= x) /\ d[k + 1] = d[(k + 1) - 1] + q[k + 1][2]
            /\ (k + 1) - 1 = k /\ d[k + 1] \in Nat
        BY <1>1, <1>3, <1>4, <3>2
      <4> QED BY <1>5, <3>2, <3>3, <4>1 DEF delta
    <3> DEFINE p == <<b[1][1], b[1][2] - delta>>
    <3>5. p \in Tasks \X Nat /\ [b[1] EXCEPT ![2] = @ - delta] = p
      BY <3>3, <3>4, PairExcept
    <3>6. p[1] = b[1][1] /\ p[2] = b[1][2] - delta
      OBVIOUS
    <3>7. c = [b EXCEPT ![1] = [b[1] EXCEPT ![2] = @ - delta]]
      BY <2>2
    <3> HIDE DEF p, c
    <3>8. b \in Seq(Tasks \X Nat)
      BY <1>8 DEF Queues
    <3>9. /\ [b EXCEPT ![1] = p] \in Seq(Tasks \X Nat)
          /\ Len([b EXCEPT ![1] = p]) = Len(b)
          /\ \A i \in 1 .. Len(b) : [b EXCEPT ![1] = p][i] = IF i = 1 THEN p ELSE b[i]
      BY <3>2, <3>5, <3>8, ExceptSeq
    <3>10. /\ c \in Queues /\ Len(c) = Len(q) - k
           /\ \A i \in 1 .. Len(q) - k : c[i] = IF i = 1 THEN p ELSE q[k + i]
      BY <1>8, <3>5, <3>7, <3>9 DEF Queues
    <3> QED BY <3>2, <3>6, <3>10
  <2> QED BY <2>1, <2>2
<1> HIDE DEF c
<1>11. /\ s \in Queues /\ Len(s) = Len(q) + 1
       /\ \A i \in 1 .. Len(q) + 1 :
             s[i] = IF i <= k THEN q[i] ELSE IF i = k + 1 THEN e ELSE c[i - (k + 1)]
  <2> DEFINE h == a \o <<e>>
  <2>1. <<e>> \in Queues /\ Len(<<e>>) = 1 /\ <<e>>[1] = e
    BY <1>6 DEF Queues
  <2>2. /\ h \in Queues /\ Len(h) = Len(a) + Len(<<e>>)
        /\ \A i \in 1 .. Len(a) + Len(<<e>>) :
              h[i] = IF i <= Len(a) THEN a[i] ELSE <<e>>[i - Len(a)]
    BY <1>7, <2>1, ConcatProperties DEF Queues
  <2> HIDE DEF h
  <2>3. /\ s \in Queues /\ Len(s) = Len(h) + Len(c)
        /\ \A i \in 1 .. Len(h) + Len(c) : s[i] = IF i <= Len(h) THEN h[i] ELSE c[i - Len(h)]
    BY <1>9, <1>10, <2>2, ConcatProperties DEF Queues, h
  <2>4. Len(h) = k + 1 /\ Len(s) = Len(q) + 1 /\ Len(h) + Len(c) = Len(q) + 1
    BY <1>1, <1>7, <1>10, <2>1, <2>2, <2>3
  <2>5. ASSUME NEW i \in 1 .. Len(q) + 1
        PROVE  s[i] = IF i <= k THEN q[i] ELSE IF i = k + 1 THEN e ELSE c[i - (k + 1)]
    <3>1. CASE i <= k
      <4>1. i \in 1 .. k /\ i \in 1 .. k + 1 /\ i <= k + 1
        BY <1>1, <3>1
      <4> QED BY <1>7, <2>1, <2>2, <2>3, <2>4, <3>1, <4>1
    <3>2. CASE i = k + 1
      <4>1. ~(i <= k) /\ i <= k + 1 /\ i - k = 1 /\ i \in 1 .. k + 1
        BY <1>1, <3>2
      <4> QED BY <1>7, <2>1, <2>2, <2>3, <2>4, <3>2, <4>1
    <3>3. CASE i > k + 1
      <4>1. ~(i <= k) /\ ~(i <= k + 1) /\ i # k + 1
        BY <1>1, <3>3
      <4> QED BY <2>3, <2>4, <4>1
    <3> QED BY <1>1, <3>1, <3>2, <3>3
  <2> QED BY <2>3, <2>4, <2>5
<1>12. Sums(s, f)
  <2>1. f[0] = 0
    BY <1>1, <1>3
  <2>2. ASSUME NEW i \in 1 .. Len(q) + 1 PROVE f[i] = f[i - 1] + s[i][2]
    <3>1. /\ i \in 0 .. Len(q) + 1 /\ i - 1 \in 0 .. Len(q) + 1
          /\ f[i] = IF i <= k THEN d[i] ELSE IF i = k + 1 THEN x ELSE d[i - 1]
          /\ f[i - 1] = IF i - 1 <= k THEN d[i - 1]
                        ELSE IF i - 1 = k + 1 THEN x ELSE d[(i - 1) - 1]
      BY <1>1
    <3>2. s[i] = IF i <= k THEN q[i] ELSE IF i = k + 1 THEN e ELSE c[i - (k + 1)]
      BY <1>11
    <3> HIDE DEF f
    <3>3. CASE i <= k
      <4>1. i \in 1 .. Len(q) /\ i - 1 <= k
        BY <1>1, <3>3
      <4> QED BY <1>3, <3>1, <3>2, <3>3, <4>1
    <3>4. CASE i = k + 1
      <4>1. ~(i <= k) /\ i - 1 <= k /\ i - 1 = k
        BY <1>1, <3>4
      <4>2. f[i] = x /\ f[i - 1] = d[k] /\ s[i][2] = delta
        BY <1>6, <3>1, <3>2, <3>4, <4>1
      <4> QED BY <1>5, <4>2 DEF delta
    <3>5. CASE i > k + 1
      <4> DEFINE j == i - (k + 1)
      <4>1. /\ ~(i <= k) /\ i # k + 1 /\ ~(i - 1 <= k) /\ j \in 1 .. Len(q) - k
            /\ i - 1 \in 1 .. Len(q) /\ k + j = i - 1
        BY <1>1, <3>5
      <4>2. c[j][2] = IF j = 1 THEN q[i - 1][2] - delta ELSE q[i - 1][2]
        BY <1>10, <4>1
      <4>3. d[i - 1] = d[(i - 1) - 1] + q[i - 1][2] /\ d[i - 1] \in Nat
            /\ d[(i - 1) - 1] \in Nat /\ q[i - 1][2] \in Nat
        BY <1>2, <1>3, <4>1
      <4>4. f[i] = d[i - 1] /\ s[i][2] = c[j][2]
            /\ f[i - 1] = IF i - 1 = k + 1 THEN x ELSE d[(i - 1) - 1]
        BY <3>1, <3>2, <4>1
      <4>5. CASE j = 1
        <5>1. i - 1 = k + 1 /\ (i - 1) - 1 = k
          BY <1>1, <4>1, <4>5
        <5> QED BY <1>5, <4>2, <4>3, <4>4, <4>5, <5>1 DEF delta
      <4>6. CASE j # 1
        <5>1. i - 1 # k + 1
          BY <1>1, <4>1, <4>6
        <5> QED BY <4>2, <4>3, <4>4, <4>6, <5>1
      <4> QED BY <4>5, <4>6
    <3> QED BY <1>1, <3>3, <3>4, <3>5
  <2> QED BY <1>11, <2>1, <2>2 DEF Sums
<1>13. \A i \in 0 .. Len(q) + 1 : DueIn(s)[i] = f[i]
  BY <1>11, <1>12, DueUnique
<1>14. s[k + 1][1] = t /\ DueIn(s)[k + 1] = x
  <2>1. k + 1 \in 1 .. Len(q) + 1 /\ k + 1 \in 0 .. Len(q) + 1 /\ ~(k + 1 <= k)
    BY <1>1
  <2> QED BY <1>6, <1>11, <1>13, <2>1
<1>15. ASSUME NEW i \in 1 .. k PROVE s[i][1] = q[i][1] /\ DueIn(s)[i] = d[i]
  <2>1. i \in 1 .. Len(q) + 1 /\ i \in 0 .. Len(q) + 1 /\ i <= k
    BY <1>1
  <2> QED BY <1>11, <1>13, <2>1
<1>16. ASSUME NEW i \in k + 1 .. Len(q) PROVE s[i + 1][1] = q[i][1] /\ DueIn(s)[i + 1] = d[i]
  <2>1. /\ i + 1 \in 1 .. Len(q) + 1 /\ i + 1 \in 0 .. Len(q) + 1 /\ ~(i + 1 <= k)
        /\ i + 1 # k + 1 /\ (i + 1) - 1 = i /\ (i + 1) - (k + 1) \in 1 .. Len(q) - k
        /\ k + ((i + 1) - (k + 1)) = i
    BY <1>1
  <2>2. s[i + 1] = c[(i + 1) - (k + 1)]
    BY <1>11, <2>1
  <2> QED BY <1>10, <1>13, <2>1, <2>2
<1> QED BY <1>11, <1>14, <1>15, <1>16 DEF d, k, s

-----------------------------------------------------------------------------
(* The inductive invariant.                                                 *)

\* What synchronize will take off, and what it will leave of the i-th entry.
Late == IF unsynced > 0 THEN unsynced ELSE 0
Rest(i) == IF DueIn(queue)[i] > Late THEN DueIn(queue)[i] - Late ELSE 0

\* The list gives each task at least the time that it has left, and exactly
\* that time if the clock was never set back.
LeftAsListed ==
    \A i \in 1 .. Len(queue) :
        /\ DueIn(queue)[i] <= MaxDelay
        /\ left[queue[i][1]] <= Rest(i)
        /\ jumps = 0 => left[queue[i][1]] = Rest(i)

OneEntryEach == \A i, j \in 1 .. Len(queue) : queue[i][1] = queue[j][1] => i = j

\* The list, and what it says of the tasks.
ListInv ==
    /\ queue \in Queues /\ OneEntryEach
    /\ unsynced \in (-MaxBack .. MaxBusy) \cup (-MaxBack .. Eternity)
    /\ jumps \in 0 .. MaxJumps
    /\ jumps = 0 => unsynced >= 0
    /\ left \in [Pending -> Delays]
    /\ before \subseteq Tasks \X Tasks
    /\ LeftAsListed /\ DueInOrder

\* What select() waits for.
TimerInv ==
    /\ pc \in PCs /\ timeout \in Nat
    /\ pc = "select" => timeout = 0 \/ unsynced + timeout <= Eternity
    /\ WakesInTime

\* The numbers of sockets are below the limit that select() is told.
SocketInv ==
    /\ handlers \in Seq(Sockets)
    /\ \A i, j \in 1 .. Len(handlers) : handlers[i] = handlers[j] => i = j
    /\ watched = ToSet(handlers)
    /\ \A s \in watched : s < maxNum
    /\ maxNum \in 0 .. NumSockets
    /\ last \in Sockets \cup {NoSocket}
    /\ ready \subseteq Sockets /\ readySet \subseteq Sockets
    /\ regs \in 0 .. MaxRegs

IInv == ListInv /\ TimerInv /\ SocketInv

LEMMA BoundsFacts ==
    /\ NumSockets \in Nat /\ MaxDelay \in Nat /\ MaxBusy \in Nat /\ MaxBack \in Nat
    /\ MaxJumps \in Nat /\ MaxRegs \in Nat /\ Eternity = MaxDelay + 1
  BY BoundsAssumption DEF Eternity

LEMMA QueueFacts ==
    ASSUME ListInv
    PROVE  /\ Len(queue) \in Nat /\ DOMAIN queue = 1 .. Len(queue)
           /\ \A i \in 1 .. Len(queue) :
                 /\ queue[i] \in Tasks \X Nat /\ queue[i][1] \in Tasks /\ queue[i][2] \in Nat
                 /\ queue[i][1] \in Pending /\ left[queue[i][1]] \in Nat
                 /\ left[queue[i][1]] <= MaxDelay
                 /\ DueIn(queue)[i] \in Nat /\ DueIn(queue)[i] <= MaxDelay
                 /\ Rest(i) \in Nat
           /\ unsynced \in Int /\ Late \in Nat
           /\ Pending \subseteq Tasks
<1>1. queue \in Seq(Tasks \X Nat) /\ queue \in Queues
  BY DEF ListInv, Queues
<1>2. Len(queue) \in Nat /\ DOMAIN queue = 1 .. Len(queue)
  BY <1>1, LenProperties
<1>3. unsynced \in Int /\ Late \in Nat
  BY BoundsFacts DEF ListInv, Late
<1>4. ASSUME NEW i \in 1 .. Len(queue)
      PROVE  /\ queue[i] \in Tasks \X Nat /\ queue[i][1] \in Tasks /\ queue[i][2] \in Nat
             /\ queue[i][1] \in Pending /\ left[queue[i][1]] \in Nat
             /\ left[queue[i][1]] <= MaxDelay
             /\ DueIn(queue)[i] \in Nat /\ DueIn(queue)[i] <= MaxDelay
             /\ Rest(i) \in Nat
  <2>1. queue[i] \in Tasks \X Nat
    BY <1>1, ElementOfSeq
  <2>2. queue[i][1] \in Pending
    BY <1>2 DEF Pending
  <2>3. left[queue[i][1]] \in Delays
    BY <2>2 DEF ListInv
  <2>4. DueIn(queue)[i] \in Nat /\ DueIn(queue)[i] <= MaxDelay
    BY <1>1, DueSteps DEF ListInv, LeftAsListed
  <2> QED BY <1>3, <2>1, <2>2, <2>3, <2>4, BoundsFacts DEF Delays, Rest
<1>5. Pending \subseteq Tasks
  BY <1>2, <1>4 DEF Pending
<1> QED BY <1>2, <1>3, <1>4, <1>5

\* No delta is larger than the largest delay.
LEMMA DeltasAreDelays ==
    ASSUME NEW q \in Queues, \A i \in 1 .. Len(q) : DueIn(q)[i] <= MaxDelay
    PROVE  q \in Seq(Tasks \X Delays)
<1>1. q \in Seq(Tasks \X Nat) /\ Len(q) \in Nat /\ DOMAIN q = 1 .. Len(q)
  BY LenProperties DEF Queues
<1>2. ASSUME NEW i \in 1 .. Len(q) PROVE q[i] \in Tasks \X Delays
  <2>1. q[i] \in Tasks \X Nat
    BY <1>1, ElementOfSeq
  <2>2. /\ DueIn(q)[i] \in Nat /\ DueIn(q)[i - 1] \in Nat /\ q[i][2] \in Nat
        /\ DueIn(q)[i] = DueIn(q)[i - 1] + q[i][2] /\ DueIn(q)[i] <= MaxDelay
    BY DueSteps
  <2>3. q[i][2] \in 0 .. MaxDelay
    BY <2>2, BoundsFacts
  <2> QED BY <2>1, <2>3 DEF Delays
<1>3. q \in [1 .. Len(q) -> Tasks \X Delays]
  BY <1>1, <1>2, LenProperties
<1> QED BY <1>1, <1>3, FunctionIsSeq

\* As many values as places, if none comes twice.
LEMMA DistinctCount ==
    ASSUME NEW n \in Nat, NEW v, DOMAIN v = 1 .. n,
           \A i, j \in 1 .. n : v[i] = v[j] => i = j
    PROVE  Cardinality({v[i] : i \in 1 .. n}) = n
<1> DEFINE T == {v[i] : i \in 1 .. n}
           f == [i \in 1 .. n |-> v[i]]
<1>1. IsFiniteSet(1 .. n) /\ Cardinality(1 .. n) = n
  BY FS_Interval
<1>2. f \in Bijection(1 .. n, T)
  BY DEF Bijection, Injection, Surjection, IsInjective
<1>3. Cardinality(T) = Cardinality(1 .. n)
  BY <1>1, <1>2, FS_Bijection DEF ExistsBijection
<1> QED BY <1>1, <1>3

LEMMA InvIsSound == IInv => Sound
<1> SUFFICES ASSUME IInv PROVE Sound
  OBVIOUS
<1>1. queue \in Seq(Tasks \X Delays)
  BY DeltasAreDelays DEF IInv, ListInv, LeftAsListed
<1>2. Cardinality(Pending) = Len(queue)
  <2> DEFINE v == [i \in 1 .. Len(queue) |-> queue[i][1]]
  <2>1. Len(queue) \in Nat /\ DOMAIN queue = 1 .. Len(queue)
    BY QueueFacts DEF IInv
  <2>2. Pending = {v[i] : i \in 1 .. Len(queue)}
    BY <2>1 DEF Pending
  <2>3. \A i, j \in 1 .. Len(queue) : v[i] = v[j] => i = j
    BY DEF IInv, ListInv, OneEntryEach
  <2>4. DOMAIN v = 1 .. Len(queue)
    OBVIOUS
  <2> HIDE DEF v
  <2> QED BY <2>1, <2>2, <2>3, <2>4, DistinctCount
<1>3. TypeOK
  <2>1. \A s \in ToSet(handlers) : s \in Sockets
    BY ElementOfSeq, LenProperties DEF IInv, SocketInv, ToSet
  <2> QED BY <1>1, <1>2, <2>1 DEF IInv, ListInv, TimerInv, SocketInv, TypeOK
<1>4. AllWatched
  <2>1. Len(handlers) \in Nat /\ DOMAIN handlers = 1 .. Len(handlers)
    BY LenProperties DEF IInv, SocketInv
  <2>2. Cardinality({handlers[i] : i \in 1 .. Len(handlers)}) = Len(handlers)
    BY <2>1, DistinctCount DEF IInv, SocketInv
  <2> QED BY <2>1, <2>2 DEF IInv, SocketInv, AllWatched, ToSet
<1> QED BY <1>3, <1>4 DEF Sound

-----------------------------------------------------------------------------
(* Steps keep the list.                                                     *)

LEMMA UpToDateFacts ==
    ASSUME ListInv
    PROVE  /\ UpToDate \in Queues /\ Len(UpToDate) = Len(queue)
           /\ \A i \in 1 .. Len(queue) :
                 UpToDate[i][1] = queue[i][1] /\ DueIn(UpToDate)[i] = Rest(i)
<1>1. queue \in Queues /\ unsynced \in Int
  BY QueueFacts DEF ListInv
<1>2. \A i \in 1 .. Len(queue) : DueIn(queue)[i] \in Nat
  BY QueueFacts
<1>3. CASE unsynced < 0
  BY <1>1, <1>2, <1>3 DEF UpToDate, Rest, Late
<1>4. CASE ~(unsynced < 0)
  <2> DEFINE s == Synchronized(queue, unsynced)
  <2>1. unsynced \in Nat /\ UpToDate = s
    BY <1>1, <1>4 DEF UpToDate
  <2>2. /\ s \in Queues /\ Len(s) = Len(queue)
        /\ \A i \in 1 .. Len(queue) :
              /\ s[i][1] = queue[i][1]
              /\ DueIn(s)[i] = IF DueIn(queue)[i] <= unsynced THEN 0 ELSE DueIn(queue)[i] - unsynced
    BY <1>1, <2>1, SynchronizedFacts
  <2>3. Late = unsynced
    BY <2>1 DEF Late
  <2> HIDE DEF s
  <2>4. ASSUME NEW i \in 1 .. Len(queue) PROVE DueIn(s)[i] = Rest(i)
    BY <1>2, <2>1, <2>2, <2>3 DEF Rest
  <2> QED BY <2>1, <2>2, <2>4
<1> QED BY <1>3, <1>4

\* q lists the same tasks, with what Rest says when e is late.
SameTimes(q, e) ==
    /\ q \in Queues /\ Len(q) = Len(queue)
    /\ \A i \in 1 .. Len(queue) :
          /\ q[i][1] = queue[i][1]
          /\ DueIn(q)[i] \in Nat /\ DueIn(q)[i] <= MaxDelay
          /\ (IF DueIn(q)[i] > e THEN DueIn(q)[i] - e ELSE 0) = Rest(i)

LEMMA QueueSameTimes ==
    ASSUME ListInv
    PROVE  SameTimes(queue, Late)
<1>1. queue \in Queues
  BY DEF ListInv
<1>2. \A i \in 1 .. Len(queue) : DueIn(queue)[i] \in Nat /\ DueIn(queue)[i] <= MaxDelay
  BY QueueFacts
<1> QED BY <1>1, <1>2 DEF SameTimes, Rest

LEMMA UpToDateSameTimes ==
    ASSUME ListInv
    PROVE  SameTimes(UpToDate, 0)
<1>1. ASSUME NEW i \in 1 .. Len(queue) PROVE Rest(i) \in Nat /\ Rest(i) <= MaxDelay
  <2>1. DueIn(queue)[i] \in Nat /\ DueIn(queue)[i] <= MaxDelay /\ Late \in Nat
    BY QueueFacts
  <2> QED BY <2>1, BoundsFacts DEF Rest
<1>2. ASSUME NEW i \in 1 .. Len(queue)
      PROVE  (IF DueIn(UpToDate)[i] > 0 THEN DueIn(UpToDate)[i] - 0 ELSE 0) = Rest(i)
  BY <1>1, UpToDateFacts
<1> QED BY <1>1, <1>2, UpToDateFacts DEF SameTimes

\* Bringing the list up to date, or leaving it, changes nothing for the tasks.
LEMMA RelistKeeps ==
    ASSUME ListInv, SameTimes(queue', Late'),
           unsynced' \in (-MaxBack .. MaxBusy) \cup (-MaxBack .. Eternity),
           jumps = 0 => unsynced' >= 0,
           UNCHANGED <<jumps, historyVars>>
    PROVE  ListInv' /\ Pending' = Pending
<1>1. /\ Len(queue) \in Nat /\ DOMAIN queue = 1 .. Len(queue)
      /\ DOMAIN queue' = 1 .. Len(queue) /\ Len(queue') = Len(queue)
  BY QueueFacts, LenProperties DEF SameTimes, Queues
<1>2. \A i \in 1 .. Len(queue) : queue'[i][1] = queue[i][1] /\ Rest(i)' = Rest(i)
                                 /\ DueIn(queue')[i] <= MaxDelay
  BY DEF SameTimes, Rest
<1>3. Pending' = Pending
  BY <1>1, <1>2 DEF Pending
<1>4. OneEntryEach' /\ DueInOrder' /\ LeftAsListed'
  <2>1. OneEntryEach'
    BY <1>1, <1>2 DEF ListInv, OneEntryEach
  <2>2. DueInOrder'
    BY <1>1, <1>2 DEF ListInv, DueInOrder, historyVars
  <2>3. LeftAsListed'
    BY <1>1, <1>2 DEF ListInv, LeftAsListed, historyVars
  <2> QED BY <2>1, <2>2, <2>3
<1> QED BY <1>3, <1>4 DEF ListInv, SameTimes, historyVars

\* Removing a task from the list, up to date or not.
LEMMA ForgetKeeps ==
    ASSUME ListInv, NEW q, SameTimes(q, Late'), NEW k \in 1 .. Len(queue),
           queue' = Removed(q, k), Forget(queue[k][1]), UNCHANGED jumps,
           unsynced' \in (-MaxBack .. MaxBusy) \cup (-MaxBack .. Eternity),
           jumps = 0 => unsynced' >= 0
    PROVE  ListInv' /\ Pending' = Pending \ {queue[k][1]}
<1> DEFINE n == Len(queue)
           t == queue[k][1]
           old(i) == IF i < k THEN i ELSE i + 1
<1>1. /\ n \in Nat /\ DOMAIN queue = 1 .. n /\ k \in Nat /\ k >= 1 /\ k <= n
      /\ q \in Queues /\ Len(q) = n
  BY QueueFacts DEF SameTimes
<1>2. /\ queue' \in Queues /\ Len(queue') = n - 1
      /\ \A i \in 1 .. n - 1 :
            queue'[i][1] = q[old(i)][1] /\ DueIn(queue')[i] = DueIn(q)[old(i)]
  <2> DEFINE r == Removed(q, k)
  <2>1. k \in 1 .. Len(q)
    BY <1>1
  <2>2. /\ r \in Queues /\ Len(r) = Len(q) - 1
        /\ \A i \in 1 .. Len(q) - 1 : LET j == IF i < k THEN i ELSE i + 1 IN
              r[i][1] = q[j][1] /\ DueIn(r)[i] = DueIn(q)[j]
    BY <1>1, <2>1, RemovedFacts
  <2>3. queue' = r
    OBVIOUS
  <2> HIDE DEF r
  <2>4. ASSUME NEW i \in 1 .. n - 1
        PROVE  queue'[i][1] = q[old(i)][1] /\ DueIn(queue')[i] = DueIn(q)[old(i)]
    BY <1>1, <2>2, <2>3
  <2> QED BY <1>1, <2>2, <2>3, <2>4
<1>3. DOMAIN queue' = 1 .. n - 1
  BY <1>2, LenProperties DEF Queues
<1>4. \A i \in 1 .. n - 1 : old(i) \in 1 .. n /\ old(i) # k
  BY <1>1
<1>5. \A i, j \in 1 .. n - 1 : (old(i) = old(j) => i = j) /\ (i < j => old(i) < old(j))
  BY <1>1
<1>6. \A j \in 1 .. n : j # k => \E i \in 1 .. n - 1 : old(i) = j
  <2> TAKE j \in 1 .. n
  <2>1. CASE j < k
    <3>1. j \in 1 .. n - 1 /\ old(j) = j
      BY <1>1, <2>1
    <3> QED BY <3>1
  <2>2. CASE j > k
    <3>1. j - 1 \in 1 .. n - 1 /\ old(j - 1) = j
      BY <1>1, <2>2
    <3> QED BY <3>1
  <2> QED BY <1>1, <2>1, <2>2
<1>7. ASSUME NEW i \in 1 .. n - 1
      PROVE  queue'[i][1] = queue[old(i)][1] /\ Rest(i)' = Rest(old(i))
             /\ DueIn(queue')[i] <= MaxDelay
  <2>1. queue'[i][1] = q[old(i)][1] /\ DueIn(queue')[i] = DueIn(q)[old(i)]
    BY <1>2
  <2>2. /\ q[old(i)][1] = queue[old(i)][1] /\ DueIn(q)[old(i)] <= MaxDelay
        /\ (IF DueIn(q)[old(i)] > Late' THEN DueIn(q)[old(i)] - Late' ELSE 0) = Rest(old(i))
    BY <1>4 DEF SameTimes
  <2> HIDE DEF old
  <2> QED BY <2>1, <2>2 DEF Rest
<1> HIDE DEF old
<1>8. \A j \in 1 .. n : j # k <=> queue[j][1] # t
  BY <1>1 DEF ListInv, OneEntryEach
<1>9. Pending' = Pending \ {t}
  <2>1. Pending' = {queue'[i][1] : i \in 1 .. n - 1} /\ Pending = {queue[j][1] : j \in 1 .. n}
    BY <1>1, <1>3 DEF Pending
  <2>2. ASSUME NEW u \in Pending' PROVE u \in Pending \ {t}
    <3>1. PICK i \in 1 .. n - 1 : u = queue'[i][1]
      BY <2>1
    <3>2. old(i) \in 1 .. n /\ old(i) # k /\ u = queue[old(i)][1]
      BY <1>4, <1>7, <3>1
    <3> QED BY <1>8, <2>1, <3>2
  <2>3. ASSUME NEW u \in Pending \ {t} PROVE u \in Pending'
    <3>1. PICK j \in 1 .. n : u = queue[j][1]
      BY <2>1
    <3>2. PICK i \in 1 .. n - 1 : old(i) = j
      BY <1>6, <1>8, <3>1
    <3> QED BY <1>7, <2>1, <3>1, <3>2
  <2> QED BY <2>2, <2>3
<1>10. /\ left' = [u \in Pending \ {t} |-> left[u]]
       /\ before' = {p \in before : t \notin {p[1], p[2]}}
  BY DEF Forget
<1>11. left' \in [Pending' -> Delays] /\ before' \subseteq Tasks \X Tasks
  BY <1>9, <1>10 DEF ListInv
<1>12. OneEntryEach'
  <2>1. \A i, j \in 1 .. n : queue[i][1] = queue[j][1] => i = j
    BY DEF ListInv, OneEntryEach
  <2> SUFFICES ASSUME NEW i \in 1 .. n - 1, NEW j \in 1 .. n - 1, queue'[i][1] = queue'[j][1]
               PROVE  i = j
    BY <1>2 DEF OneEntryEach
  <2>2. old(i) \in 1 .. n /\ old(j) \in 1 .. n
    BY <1>4
  <2>3. queue[old(i)][1] = queue[old(j)][1]
    BY <1>7
  <2>4. old(i) = old(j)
    BY <2>1, <2>2, <2>3
  <2> QED BY <1>5, <2>4
<1>13. ASSUME NEW i \in 1 .. n - 1
       PROVE  left'[queue'[i][1]] = left[queue[old(i)][1]] /\ queue'[i][1] # t
  <2>1. old(i) \in 1 .. n /\ queue[old(i)][1] \in Pending \ {t}
    BY <1>4, <1>8, QueueFacts
  <2> QED BY <1>7, <1>10, <2>1
<1>14. LeftAsListed'
  <2>1. ASSUME NEW i \in 1 .. n - 1
        PROVE  /\ DueIn(queue')[i] <= MaxDelay
               /\ left'[queue'[i][1]] <= Rest(i)'
               /\ jumps' = 0 => left'[queue'[i][1]] = Rest(i)'
    BY <1>4, <1>7, <1>13 DEF ListInv, LeftAsListed
  <2> QED BY <1>2, <2>1 DEF LeftAsListed
<1>15. DueInOrder'
  <2> SUFFICES ASSUME jumps = 0, NEW i \in 1 .. n - 1, NEW j \in 1 .. n - 1, i < j
               PROVE  <<queue'[i][1], queue'[j][1]>> \in before'
    BY <1>3 DEF DueInOrder
  <2>1. <<queue[old(i)][1], queue[old(j)][1]>> \in before
    BY <1>1, <1>4, <1>5 DEF ListInv, DueInOrder
  <2> QED BY <2>1, <1>7, <1>10, <1>13
<1> QED BY <1>2, <1>9, <1>11, <1>12, <1>14, <1>15 DEF ListInv

\* A task that is scheduled takes its place in the list.
LEMMA ScheduleKeeps ==
    ASSUME ListInv, NEW t \in Tasks, NEW d \in Delays, Schedule(t, d)
    PROVE  ListInv'
<1> DEFINE n == Len(queue)
           q == UpToDate
           k == Place(q, d)
<1>1. n \in Nat /\ DOMAIN queue = 1 .. n /\ d \in Nat /\ d <= MaxDelay
  BY QueueFacts, BoundsFacts DEF Delays
<1>2. /\ q \in Queues /\ Len(q) = n
      /\ \A i \in 1 .. n : q[i][1] = queue[i][1] /\ DueIn(q)[i] = Rest(i)
  BY UpToDateFacts
<1>3. queue' = Added(q, t, d) /\ unsynced' = 0 /\ t \notin Pending /\ UNCHANGED jumps
  BY DEF Schedule
<1>4. /\ left' = [u \in Pending \cup {t} |-> IF u = t THEN d ELSE left[u]]
      /\ before' = before \cup {<<u, t>> : u \in {v \in Pending : left[v] <= d}}
                          \cup {<<t, u>> : u \in {v \in Pending : left[v] > d}}
  BY DEF Schedule
<1> HIDE DEF q
<1>5. k \in 0 .. n /\ \A i \in 1 .. n : DueIn(q)[i] <= d <=> i <= k
  BY <1>1, <1>2, PlaceFacts
<1>6. /\ queue' \in Queues /\ Len(queue') = n + 1
      /\ queue'[k + 1][1] = t /\ DueIn(queue')[k + 1] = d
      /\ \A i \in 1 .. k : queue'[i][1] = q[i][1] /\ DueIn(queue')[i] = DueIn(q)[i]
      /\ \A i \in k + 1 .. n :
            queue'[i + 1][1] = q[i][1] /\ DueIn(queue')[i + 1] = DueIn(q)[i]
  <2> DEFINE r == Added(q, t, d)
  <2>1. /\ r \in Queues /\ Len(r) = Len(q) + 1
        /\ r[k + 1][1] = t /\ DueIn(r)[k + 1] = d
        /\ \A i \in 1 .. k : r[i][1] = q[i][1] /\ DueIn(r)[i] = DueIn(q)[i]
        /\ \A i \in k + 1 .. Len(q) :
              r[i + 1][1] = q[i][1] /\ DueIn(r)[i + 1] = DueIn(q)[i]
    BY <1>1, <1>2, AddedFacts
  <2>2. queue' = r
    BY <1>3
  <2> HIDE DEF r, k
  <2> QED BY <1>2, <2>1, <2>2
<1> HIDE DEF k
<1> DEFINE old(i) == IF i <= k THEN i ELSE i - 1
<1>7. DOMAIN queue' = 1 .. n + 1 /\ Late' = 0
  BY <1>3, <1>6, LenProperties DEF Queues, Late
<1>8. \A i \in 1 .. n + 1 : i # k + 1 => old(i) \in 1 .. n
  BY <1>1, <1>5
<1>9. \A i, j \in 1 .. n + 1 : i # k + 1 /\ j # k + 1 =>
         (old(i) = old(j) => i = j) /\ (i < j => old(i) < old(j))
  BY <1>1, <1>5
<1>10. \A j \in 1 .. n : \E i \in 1 .. n + 1 : i # k + 1 /\ old(i) = j
  <2> TAKE j \in 1 .. n
  <2>1. CASE j <= k
    <3>1. j \in 1 .. n + 1 /\ j # k + 1 /\ old(j) = j
      BY <1>1, <1>5, <2>1
    <3> QED BY <3>1
  <2>2. CASE j > k
    <3>1. j + 1 \in 1 .. n + 1 /\ j + 1 # k + 1 /\ old(j + 1) = j
      BY <1>1, <1>5, <2>2
    <3> QED BY <3>1
  <2> QED BY <1>1, <1>5, <2>1, <2>2
<1>11. ASSUME NEW i \in 1 .. n + 1, i # k + 1
       PROVE  queue'[i][1] = queue[old(i)][1] /\ DueIn(queue')[i] = Rest(old(i))
  <2>1. CASE i <= k
    <3>1. i \in 1 .. k /\ i \in 1 .. n
      BY <1>1, <1>5, <2>1
    <3> QED BY <1>2, <1>6, <2>1, <3>1
  <2>2. CASE i > k
    <3>1. i - 1 \in k + 1 .. n /\ i - 1 \in 1 .. n /\ (i - 1) + 1 = i /\ ~(i <= k)
      BY <1>1, <1>5, <1>11, <2>2
    <3>2. queue'[(i - 1) + 1][1] = q[i - 1][1] /\ DueIn(queue')[(i - 1) + 1] = DueIn(q)[i - 1]
      BY <1>6, <3>1
    <3> QED BY <1>2, <3>1, <3>2
  <2> QED BY <1>1, <1>5, <2>1, <2>2
<1>12. ASSUME NEW i \in 1 .. n + 1, i # k + 1
       PROVE  old(i) <= k <=> i <= k
  BY <1>1, <1>5, <1>12
<1> HIDE DEF old
<1>13. Pending' = Pending \cup {t}
  <2>1. Pending' = {queue'[i][1] : i \in 1 .. n + 1} /\ Pending = {queue[j][1] : j \in 1 .. n}
    BY <1>1, <1>7 DEF Pending
  <2>2. k + 1 \in 1 .. n + 1
    BY <1>1, <1>5
  <2>3. ASSUME NEW u \in Pending' PROVE u \in Pending \cup {t}
    <3>1. PICK i \in 1 .. n + 1 : u = queue'[i][1]
      BY <2>1
    <3>2. i # k + 1 => old(i) \in 1 .. n /\ u = queue[old(i)][1]
      BY <1>8, <1>11, <3>1
    <3> QED BY <1>6, <2>1, <3>1, <3>2
  <2>4. ASSUME NEW u \in Pending \cup {t} PROVE u \in Pending'
    <3>1. CASE u \in Pending
      <4>1. PICK j \in 1 .. n : u = queue[j][1]
        BY <2>1, <3>1
      <4>2. PICK i \in 1 .. n + 1 : i # k + 1 /\ old(i) = j
        BY <1>10
      <4> QED BY <1>11, <2>1, <4>1, <4>2
    <3> QED BY <1>6, <2>1, <2>2, <3>1
  <2> QED BY <2>3, <2>4
<1>14. left' \in [Pending' -> Delays] /\ before' \subseteq Tasks \X Tasks
  BY <1>4, <1>13, QueueFacts DEF ListInv
<1>15. ASSUME NEW i \in 1 .. n + 1, i # k + 1
       PROVE  /\ queue'[i][1] # t /\ queue'[i][1] \in Pending
              /\ left'[queue'[i][1]] = left[queue[old(i)][1]]
  BY <1>3, <1>4, <1>8, <1>11, <1>15, QueueFacts
<1>16. OneEntryEach'
  <2> SUFFICES ASSUME NEW i \in 1 .. n + 1, NEW j \in 1 .. n + 1, queue'[i][1] = queue'[j][1]
               PROVE  i = j
    BY <1>6 DEF OneEntryEach
  <2>1. \A l, m \in 1 .. n : queue[l][1] = queue[m][1] => l = m
    BY DEF ListInv, OneEntryEach
  <2> QED BY <1>6, <1>8, <1>9, <1>11, <1>15, <2>1
<1>17. \A i \in 1 .. n : Rest(i) \in Nat /\ Rest(i) <= MaxDelay
  <2> TAKE i \in 1 .. n
  <2>1. DueIn(queue)[i] \in Nat /\ DueIn(queue)[i] <= MaxDelay /\ Late \in Nat
    BY QueueFacts
  <2> QED BY <2>1, BoundsFacts DEF Rest
<1>18. LeftAsListed'
  <2>1. ASSUME NEW i \in 1 .. n + 1
        PROVE  /\ DueIn(queue')[i] <= MaxDelay
               /\ left'[queue'[i][1]] <= Rest(i)'
               /\ jumps' = 0 => left'[queue'[i][1]] = Rest(i)'
    <3>1. CASE i = k + 1
      <4>1. left'[t] = d /\ queue'[i][1] = t /\ DueIn(queue')[i] = d
        BY <1>4, <1>6, <3>1
      <4>2. Rest(i)' = d
        BY <1>1, <1>7, <4>1 DEF Rest
      <4> QED BY <1>1, <4>1, <4>2
    <3>2. CASE i # k + 1
      <4>1. old(i) \in 1 .. n
        BY <1>8, <3>2
      <4>2. DueIn(queue')[i] = Rest(old(i)) /\ Rest(old(i)) \in Nat /\ Rest(old(i)) <= MaxDelay
        BY <1>11, <1>17, <3>2, <4>1
      <4>3. Rest(i)' = Rest(old(i))
        BY <1>7, <4>2 DEF Rest
      <4> QED BY <1>3, <1>15, <3>2, <4>1, <4>2, <4>3 DEF ListInv, LeftAsListed
    <3> QED BY <3>1, <3>2
  <2> QED BY <1>6, <2>1 DEF LeftAsListed
<1>19. DueInOrder'
  <2> SUFFICES ASSUME jumps = 0, NEW i \in 1 .. n + 1, NEW j \in 1 .. n + 1, i < j
               PROVE  <<queue'[i][1], queue'[j][1]>> \in before'
    BY <1>3, <1>7 DEF DueInOrder
  <2>1. \A m \in 1 .. n : left[queue[m][1]] = DueIn(q)[m] /\ queue[m][1] \in Pending
                          /\ DueIn(q)[m] \in Nat
    BY <1>2, <1>17, QueueFacts DEF ListInv, LeftAsListed
  <2>2. CASE i # k + 1 /\ j # k + 1
    <3>1. <<queue[old(i)][1], queue[old(j)][1]>> \in before
      BY <1>1, <1>8, <1>9, <2>2 DEF ListInv, DueInOrder
    <3> QED BY <1>4, <1>11, <2>2, <3>1
  <2>3. CASE i = k + 1
    <3>1. j # k + 1 /\ ~(j <= k)
      BY <1>1, <1>5, <2>3
    <3>2. old(j) \in 1 .. n /\ ~(old(j) <= k)
      BY <1>8, <1>12, <3>1
    <3>3. left[queue[old(j)][1]] > d /\ queue[old(j)][1] \in Pending
      BY <1>1, <1>5, <2>1, <3>2
    <3>4. queue'[i][1] = t /\ queue'[j][1] = queue[old(j)][1]
      BY <1>6, <1>11, <2>3, <3>1
    <3> QED BY <1>4, <3>3, <3>4
  <2>4. CASE j = k + 1
    <3>1. i # k + 1 /\ i <= k
      BY <1>1, <1>5, <2>4
    <3>2. old(i) \in 1 .. n /\ old(i) <= k
      BY <1>8, <1>12, <3>1
    <3>3. left[queue[old(i)][1]] <= d /\ queue[old(i)][1] \in Pending
      BY <1>1, <1>5, <2>1, <3>2
    <3>4. queue'[j][1] = t /\ queue'[i][1] = queue[old(i)][1]
      BY <1>6, <1>11, <2>4, <3>1
    <3> QED BY <1>4, <3>3, <3>4
  <2> QED BY <2>2, <2>3, <2>4
<1>20. unsynced' \in -MaxBack .. MaxBusy
  BY <1>3, BoundsFacts
<1> QED BY <1>3, <1>6, <1>14, <1>16, <1>18, <1>19, <1>20 DEF ListInv

\* Steps that leave the list and the clock alone.
LEMMA ListFrame ==
    ASSUME ListInv, UNCHANGED <<queueVars, jumps, historyVars>>
    PROVE  ListInv' /\ Pending' = Pending
<1>1. Late' = Late
  BY DEF Late, queueVars
<1>2. SameTimes(queue', Late')
  BY <1>1, QueueSameTimes DEF queueVars
<1> QED BY <1>2, RelistKeeps DEF ListInv, queueVars

\* The first entry's delta is its time.
LEMMA HeadDue ==
    ASSUME NEW q \in Queues, q # <<>>
    PROVE  1 \in 1 .. Len(q) /\ Head(q) = q[1] /\ DueIn(q)[1] = Head(q)[2]
<1>1. q \in Seq(Tasks \X Nat) /\ Len(q) \in Nat \ {0}
  BY LenProperties, EmptySeq DEF Queues
<1>2. 1 \in 1 .. Len(q) /\ Head(q) = q[1]
  BY <1>1
<1>3. DueIn(q)[1] = DueIn(q)[1 - 1] + q[1][2] /\ DueIn(q)[0] = 0 /\ q[1][2] \in Nat
  BY <1>2, DueSteps
<1> QED BY <1>2, <1>3

\* The first one is due now: its task has no time left.
LEMMA DueHasNoTimeLeft ==
    ASSUME ListInv, NEW q, NEW e \in Nat, SameTimes(q, e), HeadIsDue(q)
    PROVE  /\ 1 \in 1 .. Len(queue) /\ Head(q)[1] = queue[1][1]
           /\ queue[1][1] \in Pending /\ left[queue[1][1]] = 0
<1>1. q \in Queues /\ q # <<>> /\ Len(q) = Len(queue) /\ Head(q)[2] = 0
  BY DEF SameTimes, HeadIsDue
<1>2. 1 \in 1 .. Len(queue) /\ Head(q) = q[1] /\ DueIn(q)[1] = 0
  BY <1>1, HeadDue
<1>3. q[1][1] = queue[1][1] /\ Rest(1) = 0
  BY <1>2 DEF SameTimes
<1>4. queue[1][1] \in Pending /\ left[queue[1][1]] \in Nat /\ left[queue[1][1]] <= Rest(1)
  BY <1>2, QueueFacts DEF ListInv, LeftAsListed
<1> QED BY <1>2, <1>3, <1>4

\* A list that is up to date has nothing to take off.
LEMMA UnsyncedZero == 0 \in -MaxBack .. MaxBusy
  BY BoundsFacts

-----------------------------------------------------------------------------
(* Each action keeps the list.                                              *)

LEMMA UnscheduleKeeps ==
    ASSUME ListInv, NEW t \in Tasks, Unschedule(t)
    PROVE  ListInv'
<1>1. PICK i \in DOMAIN queue : queue[i][1] = t /\ queue' = Removed(queue, i)
  BY DEF Unschedule
<1>2. i \in 1 .. Len(queue)
  BY <1>1, QueueFacts
<1>3. UNCHANGED <<unsynced, jumps>> /\ Forget(queue[i][1])
  BY <1>1 DEF Unschedule
<1>4. SameTimes(queue, Late')
  BY <1>3, QueueSameTimes DEF Late
<1> QED BY <1>1, <1>2, <1>3, <1>4, ForgetKeeps DEF ListInv

LEMMA HandleAlarmKeeps ==
    ASSUME ListInv, HandleAlarm
    PROVE  ListInv' /\ \A t \in Pending : t \notin Pending' => left[t] = 0
<1> DEFINE q == IF HeadIsDue(queue) THEN queue ELSE UpToDate
<1>1. /\ unsynced' = IF HeadIsDue(queue) THEN unsynced ELSE 0
      /\ IF HeadIsDue(q)
         THEN queue' = Removed(q, 1) /\ Forget(Head(q)[1])
         ELSE queue' = q /\ UNCHANGED historyVars
      /\ UNCHANGED jumps
  BY DEF HandleAlarm
<1>2. SameTimes(q, Late') /\ Late' \in Nat
  <2>1. CASE HeadIsDue(queue)
    <3>1. Late' = Late /\ q = queue
      BY <1>1, <2>1 DEF Late
    <3> QED BY <3>1, QueueSameTimes, QueueFacts
  <2>2. CASE ~HeadIsDue(queue)
    <3>1. Late' = 0 /\ q = UpToDate
      BY <1>1, <2>2 DEF Late
    <3> QED BY <3>1, UpToDateSameTimes
  <2> QED BY <2>1, <2>2
<1>3. /\ unsynced' \in (-MaxBack .. MaxBusy) \cup (-MaxBack .. Eternity)
      /\ jumps = 0 => unsynced' >= 0
  BY <1>1, UnsyncedZero DEF ListInv
<1> HIDE DEF q
<1>4. CASE HeadIsDue(q)
  <2>1. /\ 1 \in 1 .. Len(queue) /\ Head(q)[1] = queue[1][1]
        /\ queue[1][1] \in Pending /\ left[queue[1][1]] = 0
    BY <1>2, <1>4, DueHasNoTimeLeft
  <2>2. queue' = Removed(q, 1) /\ Forget(queue[1][1])
    BY <1>1, <1>4, <2>1
  <2>3. ListInv' /\ Pending' = Pending \ {queue[1][1]}
    BY <1>1, <1>2, <1>3, <2>1, <2>2, ForgetKeeps
  <2> QED BY <2>1, <2>3
<1>5. CASE ~HeadIsDue(q)
  <2>1. SameTimes(queue', Late')
    BY <1>1, <1>2, <1>5
  <2> QED BY <1>1, <1>3, <1>5, <2>1, RelistKeeps
<1> QED BY <1>4, <1>5

LEMMA CallSelectKeeps ==
    ASSUME ListInv, CallSelect
    PROVE  ListInv' /\ TimerInv'
<1>1. TimeToNextAlarm /\ pc' = "select" /\ UNCHANGED <<jumps, historyVars>>
  BY DEF CallSelect
<1>2. CASE /\ queue # <<>> /\ Head(queue)[2] = 0
           /\ timeout' = 0
           /\ UNCHANGED queueVars
  <2>1. ListInv'
    BY <1>1, <1>2, ListFrame
  <2>2. \A t \in Pending' : left'[t] \in Nat
    BY <2>1, BoundsFacts DEF ListInv, Delays
  <2> QED BY <1>1, <1>2, <2>1, <2>2 DEF TimerInv, WakesInTime, PCs
<1>3. CASE /\ queue' = UpToDate /\ unsynced' = 0
           /\ timeout' = IF queue = <<>> THEN Eternity ELSE Head(queue')[2]
  <2>1. Late' = 0 /\ SameTimes(queue', Late')
    BY <1>3, UpToDateSameTimes DEF Late
  <2>2. ListInv' /\ Pending' = Pending
    BY <1>1, <1>3, <2>1, RelistKeeps, UnsyncedZero
  <2>3. CASE queue = <<>>
    <3>1. Pending' = {} /\ timeout' = Eternity
      <4>1. DOMAIN queue = {}
        BY <2>3
      <4>2. Pending = {}
        BY <4>1 DEF Pending
      <4> QED BY <1>3, <2>2, <2>3, <4>2
    <3> QED BY <1>1, <1>3, <2>2, <3>1, BoundsFacts DEF TimerInv, WakesInTime, PCs
  <2>4. CASE queue # <<>>
    <3>1. queue' \in Queues /\ queue' # <<>>
      <4>1. queue \in Queues /\ queue' \in Queues /\ Len(queue') = Len(queue)
        BY <2>1 DEF ListInv, SameTimes
      <4> QED BY <2>4, <4>1, EmptySeq DEF Queues
    <3>2. /\ 1 \in 1 .. Len(queue') /\ Len(queue') \in Nat
          /\ DueIn(queue')[1] = timeout'
      BY <1>3, <2>4, <3>1, HeadDue, LenProperties DEF Queues
    <3>3. \A i \in 1 .. Len(queue') : DueIn(queue')[i] \in Nat /\ DueIn(queue')[i] <= MaxDelay
      BY <2>2, <3>1, DueSteps DEF ListInv, LeftAsListed
    <3>4. ASSUME jumps' = 0, NEW t \in Pending' PROVE timeout' <= left'[t]
      <4>1. PICK i \in 1 .. Len(queue') : t = queue'[i][1]
        BY <3>1, LenProperties DEF Pending, Queues
      <4>2. left'[t] = Rest(i)'
        BY <2>2, <3>4, <4>1 DEF ListInv, LeftAsListed
      <4>3. Rest(i)' = DueIn(queue')[i]
        BY <2>1, <3>3, <4>1 DEF Rest
      <4>4. i \in 1 .. Len(queue') /\ 1 \in 0 .. Len(queue')
        BY <3>2, <4>1
      <4>5. DueIn(queue')[1] <= DueIn(queue')[i]
        BY <3>1, <4>4, DueMonotonic
      <4> QED BY <3>2, <4>2, <4>3, <4>5
    <3>5. timeout' \in Nat /\ unsynced' + timeout' <= Eternity
      BY <1>3, <3>2, <3>3, BoundsFacts
    <3> QED BY <1>1, <2>2, <3>4, <3>5 DEF TimerInv, WakesInTime, PCs
  <2> QED BY <2>3, <2>4
<1> QED BY <1>1, <1>2, <1>3 DEF TimeToNextAlarm
LEMMA TickKeeps ==
    ASSUME ListInv, TimerInv, Tick
    PROVE  ListInv' /\ TimerInv'
<1>1. /\ unsynced' = unsynced + 1
      /\ left' = [t \in Pending |-> IF left[t] = 0 THEN 0 ELSE left[t] - 1]
      /\ UNCHANGED <<queue, pc, jumps, before>>
      /\ \/ pc = "select" /\ timeout > 0 /\ timeout' = timeout - 1
         \/ InUser /\ unsynced < MaxBusy /\ UNCHANGED timeout
  BY DEF Tick
<1>2. unsynced \in Int /\ Late \in Nat
  BY QueueFacts
<1>3. unsynced' \in (-MaxBack .. MaxBusy) \cup (-MaxBack .. Eternity)
  <2>1. CASE pc = "select" /\ timeout > 0 /\ timeout' = timeout - 1
    BY <1>1, <1>2, <2>1, BoundsFacts DEF ListInv, TimerInv
  <2>2. CASE InUser /\ unsynced < MaxBusy /\ UNCHANGED timeout
    BY <1>1, <1>2, <2>2, BoundsFacts DEF ListInv
  <2> QED BY <1>1, <2>1, <2>2
<1>4. Pending' = Pending
  BY <1>1 DEF Pending
<1>5. \A t \in Pending : left[t] \in Nat /\ left[t] <= MaxDelay
  BY BoundsFacts DEF ListInv, Delays
<1>6. left' \in [Pending' -> Delays]
  BY <1>1, <1>4, <1>5, BoundsFacts DEF Delays
<1>7. LeftAsListed'
  <2>1. ASSUME NEW i \in 1 .. Len(queue)
        PROVE  /\ DueIn(queue')[i] <= MaxDelay
               /\ left'[queue'[i][1]] <= Rest(i)'
               /\ jumps' = 0 => left'[queue'[i][1]] = Rest(i)'
    <3>1. /\ DueIn(queue)[i] \in Nat /\ DueIn(queue)[i] <= MaxDelay
          /\ queue[i][1] \in Pending /\ left[queue[i][1]] \in Nat
          /\ left[queue[i][1]] <= Rest(i)
          /\ jumps = 0 => left[queue[i][1]] = Rest(i) /\ unsynced >= 0
      BY QueueFacts DEF ListInv, LeftAsListed
    <3>2. left'[queue[i][1]] = IF left[queue[i][1]] = 0 THEN 0 ELSE left[queue[i][1]] - 1
      BY <1>1, <3>1
    <3>3. Rest(i)' = IF DueIn(queue)[i] > Late' THEN DueIn(queue)[i] - Late' ELSE 0
      BY <1>1 DEF Rest
    <3>4. CASE unsynced >= 0
      <4>1. Late' = Late + 1
        BY <1>1, <1>2, <3>4 DEF Late
      <4>2. Rest(i)' = IF Rest(i) = 0 THEN 0 ELSE Rest(i) - 1
        BY <1>2, <3>1, <3>3, <4>1 DEF Rest
      <4>3. Rest(i) \in Nat
        BY QueueFacts
      <4> QED BY <1>1, <3>1, <3>2, <4>2, <4>3
    <3>5. CASE unsynced < 0
      <4>1. Late' = 0 /\ Late = 0
        BY <1>1, <1>2, <3>5 DEF Late
      <4>2. Rest(i)' = Rest(i)
        BY <3>3, <4>1 DEF Rest
      <4>3. Rest(i) \in Nat /\ jumps # 0
        BY <1>2, <3>1, <3>5, QueueFacts
      <4> QED BY <1>1, <3>1, <3>2, <4>2, <4>3
    <3> QED BY <1>2, <3>4, <3>5
  <2> QED BY <1>1, <2>1 DEF LeftAsListed
<1>8. ListInv'
  <2>1. OneEntryEach' /\ DueInOrder'
    BY <1>1 DEF ListInv, OneEntryEach, DueInOrder
  <2>2. jumps = 0 => unsynced' >= 0
    BY <1>1, <1>2 DEF ListInv
  <2> QED BY <1>1, <1>3, <1>4, <1>6, <1>7, <2>1, <2>2 DEF ListInv
<1>9. TimerInv'
  <2>1. CASE pc = "select" /\ timeout > 0 /\ timeout' = timeout - 1
    <3>1. timeout' \in Nat /\ unsynced' + timeout' <= Eternity
      BY <1>1, <1>2, <2>1, BoundsFacts DEF TimerInv
    <3>2. ASSUME jumps = 0, NEW t \in Pending PROVE timeout' <= left'[t]
      BY <1>1, <1>5, <2>1, <3>2 DEF TimerInv, WakesInTime
    <3> QED BY <1>1, <1>4, <3>1, <3>2 DEF TimerInv, WakesInTime
  <2>2. CASE InUser /\ unsynced < MaxBusy /\ UNCHANGED timeout
    BY <1>1, <2>2 DEF TimerInv, WakesInTime, InUser
  <2> QED BY <1>1, <2>1, <2>2
<1> QED BY <1>8, <1>9

LEMMA SetBackKeeps ==
    ASSUME ListInv, TimerInv, SetBack
    PROVE  ListInv' /\ TimerInv'
<1>1. /\ jumps < MaxJumps /\ jumps' = jumps + 1
      /\ UNCHANGED <<queue, pc, timeout, left, before>>
  BY DEF SetBack, stepVars, historyVars
<1>2. PICK d \in 1 .. MaxBack : unsynced - d >= -MaxBack /\ unsynced' = unsynced - d
  BY DEF SetBack
<1>3. unsynced \in Int /\ d \in Nat /\ d >= 1 /\ jumps \in Nat /\ jumps' # 0
      /\ jumps' \in 0 .. MaxJumps
  BY <1>1, <1>2, QueueFacts, BoundsFacts DEF ListInv
<1>4. unsynced' \in (-MaxBack .. MaxBusy) \cup (-MaxBack .. Eternity)
  BY <1>2, <1>3, BoundsFacts DEF ListInv
<1>5. Late' \in Nat /\ Late' <= Late
  BY <1>2, <1>3 DEF Late
<1>6. Pending' = Pending
  BY <1>1 DEF Pending
<1>7. LeftAsListed'
  <2>1. ASSUME NEW i \in 1 .. Len(queue)
        PROVE  DueIn(queue)[i] <= MaxDelay /\ left[queue[i][1]] <= Rest(i)'
    <3>1. /\ DueIn(queue)[i] \in Nat /\ DueIn(queue)[i] <= MaxDelay
          /\ left[queue[i][1]] \in Nat /\ left[queue[i][1]] <= Rest(i) /\ Late \in Nat
      BY QueueFacts DEF ListInv, LeftAsListed
    <3>2. Rest(i)' = IF DueIn(queue)[i] > Late' THEN DueIn(queue)[i] - Late' ELSE 0
      BY <1>1 DEF Rest
    <3>3. Rest(i) <= Rest(i)' /\ Rest(i) \in Nat /\ Rest(i)' \in Nat
      BY <1>5, <3>1, <3>2 DEF Rest
    <3> QED BY <3>1, <3>3
  <2> QED BY <1>1, <1>3, <2>1 DEF LeftAsListed
<1>8. ListInv'
  <2>1. OneEntryEach' /\ DueInOrder'
    BY <1>1, <1>3 DEF ListInv, OneEntryEach, DueInOrder
  <2> QED BY <1>1, <1>3, <1>4, <1>6, <1>7, <2>1 DEF ListInv
<1>9. TimerInv'
  <2>1. pc = "select" => timeout = 0 \/ unsynced' + timeout <= Eternity
    BY <1>2, <1>3, BoundsFacts DEF TimerInv
  <2> QED BY <1>1, <1>3, <2>1 DEF TimerInv, WakesInTime
<1> QED BY <1>8, <1>9

\* What select() waits for only matters while it waits.
LEMMA NotWaiting ==
    ASSUME pc' \in PCs \ {"select"}, timeout' \in Nat
    PROVE  TimerInv'
  BY DEF TimerInv, WakesInTime

-----------------------------------------------------------------------------
(* Each action keeps the sockets.                                           *)

LEMMA RegisterKeeps ==
    ASSUME SocketInv, NEW s \in Sockets, Register(s)
    PROVE  SocketInv'
<1> DEFINE n == Len(handlers)
<1>1. /\ handlers \in Seq(Sockets) /\ n \in Nat /\ DOMAIN handlers = 1 .. n
      /\ <<s>> \in Seq(Sockets) /\ Len(<<s>>) = 1 /\ <<s>>[1] = s
  BY LenProperties DEF SocketInv
<1>2. /\ s \notin ToSet(handlers) /\ handlers' = <<s>> \o handlers
      /\ watched' = watched \cup {s} /\ regs < MaxRegs /\ regs' = regs + 1
      /\ maxNum' = IF s + 1 > maxNum THEN s + 1 ELSE maxNum
      /\ UNCHANGED <<last, ready, readySet>>
  BY DEF Register, stepVars
<1>3. /\ handlers' \in Seq(Sockets) /\ Len(handlers') = n + 1
      /\ \A i \in 1 .. n + 1 : handlers'[i] = IF i = 1 THEN s ELSE handlers[i - 1]
  <2>1. /\ handlers' \in Seq(Sockets) /\ Len(handlers') = Len(<<s>>) + n
        /\ \A i \in 1 .. Len(<<s>>) + n :
              handlers'[i] = IF i <= Len(<<s>>) THEN <<s>>[i] ELSE handlers[i - Len(<<s>>)]
    BY <1>1, <1>2, ConcatProperties
  <2> QED BY <1>1, <2>1
<1>4. ToSet(handlers) = {handlers[i] : i \in 1 .. n}
  BY <1>1 DEF ToSet
<1>5. DOMAIN handlers' = 1 .. n + 1
  BY <1>3, LenProperties
<1>6. ToSet(handlers') = watched'
  <2>1. ToSet(handlers') = {handlers'[i] : i \in 1 .. n + 1}
    BY <1>5 DEF ToSet
  <2>2. ASSUME NEW i \in 1 .. n + 1 PROVE handlers'[i] \in watched'
    BY <1>1, <1>2, <1>3, <1>4 DEF SocketInv
  <2>3. ASSUME NEW u \in watched' PROVE \E i \in 1 .. n + 1 : u = handlers'[i]
    <3>1. CASE u = s
      BY <1>1, <1>3, <3>1
    <3>2. CASE u # s
      <4>1. PICK j \in 1 .. n : u = handlers[j]
        BY <1>2, <1>4, <3>2 DEF SocketInv
      <4>2. j + 1 \in 1 .. n + 1 /\ j + 1 # 1 /\ (j + 1) - 1 = j
        BY <1>1
      <4> QED BY <1>3, <4>1, <4>2
    <3> QED BY <3>1, <3>2
  <2> QED BY <2>1, <2>2, <2>3
<1>7. \A i, j \in 1 .. Len(handlers') : handlers'[i] = handlers'[j] => i = j
  <2> SUFFICES ASSUME NEW i \in 1 .. n + 1, NEW j \in 1 .. n + 1, handlers'[i] = handlers'[j]
               PROVE  i = j
    BY <1>3
  <2>1. \A l \in 1 .. n : handlers[l] # s
    BY <1>2, <1>4
  <2>2. (i # 1 => i - 1 \in 1 .. n) /\ (j # 1 => j - 1 \in 1 .. n)
    BY <1>1
  <2> QED BY <1>1, <1>3, <2>1, <2>2 DEF SocketInv
<1>8. maxNum' \in 0 .. NumSockets /\ \A u \in watched' : u < maxNum'
  <2>1. \A u \in watched : u \in Nat /\ u < maxNum
    <3>1. \A i \in 1 .. n : handlers[i] \in Sockets
      BY <1>1, ElementOfSeq
    <3> QED BY <1>4, <3>1 DEF SocketInv, Sockets
  <2>2. s \in Nat /\ s < NumSockets /\ maxNum \in 0 .. NumSockets
    BY BoundsFacts DEF Sockets, SocketInv
  <2> QED BY <1>2, <2>1, <2>2, BoundsFacts
<1>9. regs' \in 0 .. MaxRegs
  BY <1>2, BoundsFacts DEF SocketInv
<1> QED BY <1>2, <1>3, <1>6, <1>7, <1>8, <1>9 DEF SocketInv

LEMMA ClearKeeps ==
    ASSUME SocketInv, NEW s \in Sockets, Clear(s)
    PROVE  SocketInv'
<1> DEFINE n == Len(handlers)
<1>1. handlers \in Seq(Sockets) /\ n \in Nat /\ DOMAIN handlers = 1 .. n
  BY LenProperties DEF SocketInv
<1>2. /\ watched' = watched \ {s}
      /\ maxNum' = IF s + 1 = maxNum THEN maxNum - 1 ELSE maxNum
      /\ UNCHANGED <<last, ready, readySet, regs>>
  BY DEF Clear, stepVars
<1>3. watched = {handlers[i] : i \in 1 .. n}
  BY <1>1 DEF ToSet, SocketInv
<1>4. /\ handlers' \in Seq(Sockets) /\ ToSet(handlers') = watched'
      /\ \A i, j \in 1 .. Len(handlers') : handlers'[i] = handlers'[j] => i = j
  <2>1. CASE s \notin ToSet(handlers) /\ UNCHANGED handlers
    BY <1>2, <2>1 DEF SocketInv
  <2>2. CASE \E k \in DOMAIN handlers : handlers[k] = s /\ handlers' = RemoveAt(handlers, k)
    <3> PICK k \in DOMAIN handlers : handlers[k] = s /\ handlers' = RemoveAt(handlers, k)
      BY <2>2
    <3> DEFINE old(i) == IF i < k THEN i ELSE i + 1
    <3>1. /\ k \in 1 .. n /\ handlers' \in Seq(Sockets) /\ Len(handlers') = n - 1
          /\ \A i \in 1 .. n - 1 : handlers'[i] = handlers[old(i)]
      BY <1>1, RemoveAtFacts
    <3>2. \A i \in 1 .. n - 1 : old(i) \in 1 .. n /\ old(i) # k
      BY <1>1, <3>1
    <3>3. \A i, j \in 1 .. n - 1 : old(i) = old(j) => i = j
      BY <1>1, <3>1
    <3>4. ASSUME NEW j \in 1 .. n, j # k PROVE \E i \in 1 .. n - 1 : old(i) = j
      <4>1. CASE j < k
        <5>1. j \in 1 .. n - 1 /\ old(j) = j
          BY <1>1, <3>1, <4>1
        <5> QED BY <5>1
      <4>2. CASE j > k
        <5>1. j - 1 \in 1 .. n - 1 /\ old(j - 1) = j
          BY <1>1, <3>1, <4>2
        <5> QED BY <5>1
      <4> QED BY <1>1, <3>1, <3>4, <4>1, <4>2
    <3> HIDE DEF old
    <3>5. \A i, j \in 1 .. n : handlers[i] = handlers[j] => i = j
      BY DEF SocketInv
    <3>6. ToSet(handlers') = {handlers'[i] : i \in 1 .. n - 1}
      BY <3>1, LenProperties DEF ToSet
    <3>7. ASSUME NEW i \in 1 .. n - 1 PROVE handlers'[i] \in watched'
      BY <1>2, <1>3, <3>1, <3>2, <3>5
    <3>8. ASSUME NEW u \in watched' PROVE \E i \in 1 .. n - 1 : u = handlers'[i]
      <4>1. PICK j \in 1 .. n : u = handlers[j]
        BY <1>2, <1>3
      <4>2. j # k
        BY <1>2, <4>1
      <4> QED BY <3>1, <3>4, <4>1, <4>2
    <3>9. ASSUME NEW i \in 1 .. n - 1, NEW j \in 1 .. n - 1, handlers'[i] = handlers'[j]
          PROVE  i = j
      BY <3>1, <3>2, <3>3, <3>5, <3>9
    <3> QED BY <3>1, <3>6, <3>7, <3>8, <3>9
  <2> QED BY <2>1, <2>2 DEF Clear
<1>5. maxNum' \in 0 .. NumSockets /\ \A u \in watched' : u < maxNum'
  <2>1. \A u \in watched : u \in Sockets
    BY <1>1, <1>3, ElementOfSeq
  <2> QED BY <1>2, <2>1, BoundsFacts DEF SocketInv, Sockets
<1> QED BY <1>2, <1>4, <1>5 DEF SocketInv

LEMMA MoveKeeps ==
    ASSUME SocketInv, NEW s \in Sockets, NEW to \in Sockets, Move(s, to)
    PROVE  SocketInv'
<1> DEFINE n == Len(handlers)
<1>1. handlers \in Seq(Sockets) /\ n \in Nat /\ DOMAIN handlers = 1 .. n
  BY LenProperties DEF SocketInv
<1>2. /\ s \in ToSet(handlers) /\ to \notin ToSet(handlers)
      /\ handlers' = [i \in 1 .. n |-> IF handlers[i] = s THEN to ELSE handlers[i]]
      /\ watched' = (watched \ {s}) \cup {to}
      /\ maxNum' = LET lower == IF s + 1 = maxNum THEN maxNum - 1 ELSE maxNum IN
                       IF to + 1 > lower THEN to + 1 ELSE lower
      /\ regs < MaxRegs /\ regs' = regs + 1
      /\ UNCHANGED <<last, ready, readySet>>
  BY <1>1 DEF Move, stepVars
<1>3. watched = {handlers[i] : i \in 1 .. n}
  BY <1>1 DEF ToSet, SocketInv
<1>4. \A i \in 1 .. n : handlers[i] \in Sockets
  BY <1>1, ElementOfSeq
<1>5. handlers' \in Seq(Sockets) /\ Len(handlers') = n
  <2>1. handlers' \in [1 .. n -> Sockets]
    BY <1>2, <1>4
  <2> QED BY <1>1, <2>1, FunctionIsSeq
<1>6. \A i \in 1 .. n : handlers'[i] = IF handlers[i] = s THEN to ELSE handlers[i]
  BY <1>2
<1>7. ToSet(handlers') = watched'
  <2>1. ToSet(handlers') = {handlers'[i] : i \in 1 .. n}
    BY <1>5, LenProperties DEF ToSet
  <2>2. ASSUME NEW i \in 1 .. n PROVE handlers'[i] \in watched'
    BY <1>2, <1>3, <1>6
  <2>3. ASSUME NEW u \in watched' PROVE \E i \in 1 .. n : u = handlers'[i]
    <3>1. CASE u = to
      <4>1. PICK j \in 1 .. n : handlers[j] = s
        BY <1>1, <1>2 DEF ToSet
      <4> QED BY <1>6, <3>1, <4>1
    <3>2. CASE u # to
      <4>1. PICK j \in 1 .. n : u = handlers[j] /\ handlers[j] # s
        BY <1>2, <1>3, <3>2
      <4> QED BY <1>6, <4>1
    <3> QED BY <3>1, <3>2
  <2> QED BY <2>1, <2>2, <2>3
<1>8. \A i, j \in 1 .. Len(handlers') : handlers'[i] = handlers'[j] => i = j
  <2>1. \A i \in 1 .. n : handlers[i] # to
    BY <1>1, <1>2 DEF ToSet
  <2>2. \A i, j \in 1 .. n : handlers[i] = handlers[j] => i = j
    BY DEF SocketInv
  <2> QED BY <1>5, <1>6, <2>1, <2>2
<1>9. maxNum' \in 0 .. NumSockets /\ \A u \in watched' : u < maxNum'
  <2>1. \A u \in watched : u \in Nat /\ u < maxNum
    BY <1>3, <1>4 DEF SocketInv, Sockets
  <2>2. s \in Nat /\ to \in Nat /\ to < NumSockets /\ maxNum \in Nat /\ s \in watched
    BY <1>2, BoundsFacts DEF Sockets, SocketInv
  <2> QED BY <1>2, <2>1, <2>2, BoundsFacts DEF SocketInv
<1>10. regs' \in 0 .. MaxRegs
  BY <1>2, BoundsFacts DEF SocketInv
<1> QED BY <1>2, <1>5, <1>7, <1>8, <1>9, <1>10 DEF SocketInv

LEMMA HandleSocketKeeps ==
    ASSUME SocketInv, HandleSocket
    PROVE  SocketInv'
<1>1. /\ readySet' = {} /\ UNCHANGED <<handlers, watched, maxNum, regs>>
      /\ last' \in Sockets \cup {NoSocket} /\ ready' \subseteq Sockets
  BY DEF HandleSocket, SocketInv
<1> QED BY <1>1 DEF SocketInv
-----------------------------------------------------------------------------
(* The invariant.                                                           *)

LEMMA InitIInv == Init => IInv
<1> SUFFICES ASSUME Init PROVE IInv
  OBVIOUS
<1>1. /\ queue = <<>> /\ queue \in Queues /\ Len(queue) = 0 /\ DOMAIN queue = {}
      /\ Pending = {}
  <2>1. queue = <<>>
    BY DEF Init
  <2>2. queue \in Queues /\ Len(queue) = 0 /\ DOMAIN queue = {}
    BY <2>1 DEF Queues
  <2> QED BY <2>1, <2>2 DEF Pending
<1>2. ListInv
  <2>1. OneEntryEach /\ LeftAsListed /\ DueInOrder
    BY <1>1 DEF OneEntryEach, LeftAsListed, DueInOrder
  <2>2. left = [t \in {} |-> 0] /\ before = {}
    BY DEF Init
  <2>3. left \in [Pending -> Delays]
    BY <1>1, <2>2
  <2>4. unsynced = 0 /\ jumps = 0
    BY DEF Init
  <2>5. unsynced \in -MaxBack .. MaxBusy /\ unsynced >= 0 /\ jumps \in 0 .. MaxJumps
    BY <2>4, BoundsFacts
  <2> QED BY <1>1, <2>1, <2>2, <2>3, <2>5 DEF ListInv
<1>3. TimerInv
  BY DEF Init, TimerInv, WakesInTime, PCs
<1>4. SocketInv
  <2>1. handlers = <<>>
    BY DEF Init
  <2>2. handlers \in Seq(Sockets) /\ Len(handlers) = 0 /\ DOMAIN handlers = {}
    BY <2>1
  <2>3. ToSet(handlers) = {}
    BY <2>2 DEF ToSet
  <2>4. maxNum = 0 /\ regs = 0 /\ watched = {} /\ last = NoSocket /\ ready = {} /\ readySet = {}
    BY DEF Init
  <2>5. maxNum \in 0 .. NumSockets /\ regs \in 0 .. MaxRegs
    BY <2>4, BoundsFacts
  <2> QED BY <2>2, <2>3, <2>4, <2>5 DEF SocketInv
<1> QED BY <1>2, <1>3, <1>4 DEF IInv

LEMMA StepKeepsIInv == IInv /\ [Next]_vars => IInv'
<1> SUFFICES ASSUME IInv, [Next]_vars PROVE IInv'
  OBVIOUS
<1>1. ListInv /\ TimerInv /\ SocketInv /\ timeout \in Nat
  BY DEF IInv, TimerInv
<1>2. ASSUME NEW t \in Tasks, Unschedule(t) PROVE IInv'
  <2>1. UNCHANGED <<socketVars, stepVars, ready, regs>> /\ InUser
    BY <1>2 DEF Unschedule
  <2>2. TimerInv'
    BY <1>1, <2>1, NotWaiting DEF InUser, PCs, stepVars
  <2>3. SocketInv'
    BY <1>1, <2>1 DEF SocketInv, socketVars, stepVars
  <2> QED BY <1>1, <1>2, <2>2, <2>3, UnscheduleKeeps DEF IInv
<1>3. ASSUME NEW t \in Tasks, NEW d \in Delays, Schedule(t, d) PROVE IInv'
  <2>1. UNCHANGED <<socketVars, stepVars, ready, regs>> /\ InUser
    BY <1>3 DEF Schedule
  <2>2. TimerInv'
    BY <1>1, <2>1, NotWaiting DEF InUser, PCs, stepVars
  <2>3. SocketInv'
    BY <1>1, <2>1 DEF SocketInv, socketVars, stepVars
  <2> QED BY <1>1, <1>3, <2>2, <2>3, ScheduleKeeps DEF IInv
<1>4. ASSUME NEW s \in Sockets, Register(s) PROVE IInv'
  <2>1. UNCHANGED <<queueVars, stepVars, jumps, historyVars>> /\ InUser
    BY <1>4 DEF Register
  <2>2. TimerInv'
    BY <1>1, <2>1, NotWaiting DEF InUser, PCs, stepVars
  <2> QED BY <1>1, <1>4, <2>1, <2>2, ListFrame, RegisterKeeps DEF IInv
<1>5. ASSUME NEW s \in Sockets, Clear(s) PROVE IInv'
  <2>1. UNCHANGED <<queueVars, stepVars, jumps, historyVars>> /\ InUser
    BY <1>5 DEF Clear
  <2>2. TimerInv'
    BY <1>1, <2>1, NotWaiting DEF InUser, PCs, stepVars
  <2> QED BY <1>1, <1>5, <2>1, <2>2, ListFrame, ClearKeeps DEF IInv
<1>6. ASSUME NEW s \in Sockets, NEW to \in Sockets, Move(s, to) PROVE IInv'
  <2>1. UNCHANGED <<queueVars, stepVars, jumps, historyVars>> /\ InUser
    BY <1>6 DEF Move
  <2>2. TimerInv'
    BY <1>1, <2>1, NotWaiting DEF InUser, PCs, stepVars
  <2> QED BY <1>1, <1>6, <2>1, <2>2, ListFrame, MoveKeeps DEF IInv
<1>7. CASE UserReturns
  <2>1. /\ UNCHANGED <<queueVars, socketVars, readySet, timeout, ready, jumps, regs, historyVars>>
        /\ pc' \in {"alarm", "top"}
    BY <1>7 DEF UserReturns
  <2>2. TimerInv'
    BY <1>1, <2>1, NotWaiting DEF PCs
  <2>3. SocketInv'
    BY <1>1, <2>1 DEF SocketInv, socketVars
  <2> QED BY <1>1, <2>1, <2>2, <2>3, ListFrame DEF IInv
<1>8. CASE CallSelect
  <2>1. UNCHANGED <<socketVars, readySet, ready, regs>>
    BY <1>8 DEF CallSelect
  <2>2. SocketInv'
    BY <1>1, <2>1 DEF SocketInv, socketVars
  <2> QED BY <1>1, <1>8, <2>2, CallSelectKeeps DEF IInv
<1>9. CASE SelectReturns
  <2>1. /\ UNCHANGED <<queueVars, socketVars, ready, jumps, regs, historyVars>>
        /\ pc' = "sockets" /\ timeout' = 0
    BY <1>9 DEF SelectReturns
  <2>2. TimerInv'
    BY <2>1, NotWaiting DEF PCs
  <2>3. SocketInv'
    <3>1. watched \subseteq Sockets
      BY <1>1, LenProperties, ElementOfSeq DEF SocketInv, ToSet
    <3>2. readySet' \subseteq Sockets
      BY <1>9, <3>1 DEF SelectReturns
    <3> QED BY <1>1, <2>1, <3>2 DEF SocketInv, socketVars
  <2> QED BY <1>1, <2>1, <2>2, <2>3, ListFrame DEF IInv
<1>10. CASE HandleSocket
  <2>1. /\ UNCHANGED <<queueVars, timeout, jumps, historyVars>>
        /\ pc' \in {"alarm", "user socket"}
    BY <1>10 DEF HandleSocket
  <2>2. TimerInv'
    BY <1>1, <2>1, NotWaiting DEF PCs
  <2> QED BY <1>1, <1>10, <2>1, <2>2, ListFrame, HandleSocketKeeps DEF IInv
<1>11. CASE HandleAlarm
  <2>1. /\ UNCHANGED <<socketVars, readySet, timeout, ready, regs>>
        /\ pc' \in {"user alarm", "top"}
    BY <1>11 DEF HandleAlarm
  <2>2. TimerInv'
    BY <1>1, <2>1, NotWaiting DEF PCs
  <2>3. SocketInv'
    BY <1>1, <2>1 DEF SocketInv, socketVars
  <2> QED BY <1>1, <1>11, <2>2, <2>3, HandleAlarmKeeps DEF IInv
<1>12. CASE Tick
  <2>1. UNCHANGED <<socketVars, readySet, ready, regs>>
    BY <1>12 DEF Tick
  <2>2. SocketInv'
    BY <1>1, <2>1 DEF SocketInv, socketVars
  <2> QED BY <1>1, <1>12, <2>2, TickKeeps DEF IInv
<1>13. CASE SetBack
  <2>1. UNCHANGED <<socketVars, readySet, ready, regs>>
    BY <1>13 DEF SetBack, stepVars
  <2>2. SocketInv'
    BY <1>1, <2>1 DEF SocketInv, socketVars
  <2> QED BY <1>1, <1>13, <2>2, SetBackKeeps DEF IInv
<1>14. ASSUME NEW s \in Sockets, SocketReady(s) PROVE IInv'
  <2>1. /\ UNCHANGED <<queueVars, socketVars, stepVars, jumps, regs, historyVars>>
        /\ ready' = ready \cup {s}
    BY <1>14 DEF SocketReady
  <2>2. ListInv' /\ Pending' = Pending
    BY <1>1, <2>1, ListFrame
  <2>3. TimerInv'
    BY <1>1, <2>1, <2>2 DEF TimerInv, WakesInTime, stepVars, queueVars, historyVars
  <2>4. SocketInv'
    BY <1>1, <2>1 DEF SocketInv, socketVars, stepVars
  <2> QED BY <2>2, <2>3, <2>4 DEF IInv
<1>15. CASE UNCHANGED vars
  <2>1. UNCHANGED <<queueVars, socketVars, stepVars, ready, jumps, regs, historyVars>>
    BY <1>15 DEF vars
  <2>2. ListInv' /\ Pending' = Pending
    BY <1>1, <2>1, ListFrame
  <2>3. TimerInv'
    BY <1>1, <2>1, <2>2 DEF TimerInv, WakesInTime, stepVars, queueVars, historyVars
  <2>4. SocketInv'
    BY <1>1, <2>1 DEF SocketInv, socketVars, stepVars
  <2> QED BY <2>2, <2>3, <2>4 DEF IInv
<1> QED BY <1>2, <1>3, <1>4, <1>5, <1>6, <1>7, <1>8, <1>9, <1>10, <1>11, <1>12, <1>13,
           <1>14, <1>15 DEF Next, LoopStep

LEMMA IInvAlways == Spec => []IInv
  BY InitIInv, StepKeepsIInv, PTL DEF Spec

-----------------------------------------------------------------------------
(* The results.                                                             *)

\* However many tasks and sockets there are and whatever handlers do: each
\* pending task has one entry, select() is told of the sockets that have a
\* handler, each once, and of a limit above their numbers.
THEOREM SchedulerSound == Spec => []Sound
  BY IInvAlways, InvIsSound, PTL

\* Unless the clock is set back, addEntry, removeEntry and synchronize keep the
\* tasks in the order they are due in, and first come first.
THEOREM DueInOrderAlways == Spec => []DueInOrder
<1>1. IInv => DueInOrder
  BY DEF IInv, ListInv
<1> QED BY <1>1, IInvAlways, PTL

\* The time that timeToNextAlarm gives to select() ends before any task is due.
THEOREM WakesInTimeAlways == Spec => []WakesInTime
<1>1. IInv => WakesInTime
  BY DEF IInv, TimerInv
<1> QED BY <1>1, IInvAlways, PTL

\* No task runs before its delay has passed, even if the clock is set back.
THEOREM NeverEarlyAlways == Spec => NeverEarly
<1>1. IInv /\ [Next]_vars
        => [\A t \in Pending : HandleAlarm /\ t \notin Pending' => left[t] = 0]_vars
  BY HandleAlarmKeeps DEF IInv
<1> QED BY <1>1, IInvAlways, PTL DEF Spec, NeverEarly
=============================================================================
