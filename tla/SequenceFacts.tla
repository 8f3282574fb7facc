---------------------------- MODULE SequenceFacts ----------------------------
(* Facts about queues kept as sequences and about sets of numbers, used by  *)
(* the proofs of several components.                                        *)
EXTENDS Sequences, Integers, SequenceTheorems, WellFoundedInduction, TLAPS

\* A set of natural numbers has a least one.
LEMMA LeastOf ==
    ASSUME NEW T, T \subseteq Nat, T # {}
    PROVE  \E m \in T : \A k \in T : m <= k
<1> DEFINE R == {ss \in Nat \X Nat : ss[1] < ss[2]}
<1>1. IsWellFoundedOn(R, Nat)
  BY NatLessThanWellFounded, Zenon DEF OpToRel
<1>2. PICK m \in T : \A k \in T : <<k, m>> \notin R
  BY <1>1, WFMin, Zenon
<1>3. \A k \in T : m <= k
  <2> SUFFICES ASSUME NEW k \in T, ~(m <= k) PROVE FALSE
    OBVIOUS
  <2>1. k \in Nat /\ m \in Nat /\ k < m
    OBVIOUS
  <2>2. <<k, m>> \in R
    BY <2>1
  <2> QED BY <1>2, <2>2
<1> QED BY <1>3

\* Moving the head of the middle sequence to the end of the first one leaves
\* the concatenation as it was.
LEMMA MoveHead ==
    ASSUME NEW S, NEW d \in Seq(S), NEW b \in Seq(S), NEW f \in Seq(S),
           b # <<>>
    PROVE  Append(d, Head(b)) \o (Tail(b) \o f) = d \o (b \o f)
<1> DEFINE h == Head(b)
           l == Append(d, h) \o (Tail(b) \o f)
           r == d \o (b \o f)
<1>1. h \in S /\ Tail(b) \in Seq(S) /\ Len(Tail(b)) = Len(b) - 1
      /\ \A i \in 1 .. Len(Tail(b)) : Tail(b)[i] = b[i + 1]
  BY HeadTailProperties
<1>2. h = b[1] /\ Len(b) \in Nat \ {0}
  BY EmptySeq
<1>3. <<h>> \in Seq(S) /\ Append(d, h) = d \o <<h>>
  BY <1>1, AppendIsConcat
<1>4. Tail(b) \o f \in Seq(S)
  BY <1>1, ConcatProperties
<1>5. l = d \o (<<h>> \o (Tail(b) \o f))
  BY <1>3, <1>4, ConcatAssociative
<1>6. <<h>> \o (Tail(b) \o f) = (<<h>> \o Tail(b)) \o f
  BY <1>1, <1>3, ConcatAssociative
<1>7. <<h>> \o Tail(b) = b
  <2>1. /\ <<h>> \o Tail(b) \in Seq(S)
        /\ Len(<<h>> \o Tail(b)) = 1 + Len(Tail(b))
        /\ \A i \in 1 .. 1 + Len(Tail(b)) :
              (<<h>> \o Tail(b))[i] = IF i <= 1 THEN <<h>>[i] ELSE Tail(b)[i - 1]
    <3>1. Len(<<h>>) = 1
      OBVIOUS
    <3> QED BY <3>1, <1>1, <1>3, ConcatProperties
  <2>2. ASSUME NEW i \in 1 .. Len(b)
        PROVE  (<<h>> \o Tail(b))[i] = b[i]
    <3>1. CASE i = 1
      BY <3>1, <2>1, <1>1, <1>2
    <3>2. CASE i # 1
      <4>1. i - 1 \in 1 .. Len(Tail(b)) /\ ~(i <= 1) /\ i \in 1 .. 1 + Len(Tail(b))
        BY <3>2, <1>1, <1>2
      <4>2. Tail(b)[i - 1] = b[(i - 1) + 1]
        BY <4>1, <1>1
      <4>3. (i - 1) + 1 = i
        BY <1>2
      <4> QED BY <4>1, <4>2, <4>3, <2>1
    <3> QED BY <3>1, <3>2
  <2>3. Len(<<h>> \o Tail(b)) = Len(b)
    BY <2>1, <1>1, <1>2
  <2> QED BY <2>1, <2>2, <2>3, SeqEqual
<1> QED BY <1>5, <1>6, <1>7

\* Appending at the end of the last sequence appends to the concatenation.
LEMMA AppendLast ==
    ASSUME NEW S, NEW d \in Seq(S), NEW f \in Seq(S), NEW t \in S
    PROVE  d \o Append(f, t) = Append(d \o f, t)
<1>1. <<t>> \in Seq(S) /\ Append(f, t) = f \o <<t>>
  BY AppendIsConcat
<1>2. d \o f \in Seq(S)
  BY ConcatProperties
<1>3. Append(d \o f, t) = (d \o f) \o <<t>>
  BY <1>2, AppendIsConcat
<1> QED BY <1>1, <1>3, ConcatAssociative

\* Taking the head of the queue and delivering it leaves the whole as it was.
LEMMA Dequeue ==
    ASSUME NEW S, NEW d \in Seq(S), NEW b \in Seq(S), b # <<>>
    PROVE  Append(d, Head(b)) \o Tail(b) = d \o b
<1>1. Tail(b) \in Seq(S) /\ <<>> \in Seq(S)
  BY HeadTailProperties, EmptySeq
<1>2. Append(d, Head(b)) \o (Tail(b) \o <<>>) = d \o (b \o <<>>)
  BY <1>1, MoveHead
<1>3. Tail(b) \o <<>> = Tail(b) /\ b \o <<>> = b
  BY <1>1, ConcatEmptySeq
<1> QED BY <1>2, <1>3

\* The head and the tail of a sequence built from an element and a sequence.
LEMMA HeadTailCons ==
    ASSUME NEW S, NEW h \in S, NEW q \in Seq(S)
    PROVE  /\ <<h>> \o q # <<>>
           /\ Head(<<h>> \o q) = h
           /\ Tail(<<h>> \o q) = q
<1> DEFINE c == <<h>> \o q
<1>1. <<h>> \in Seq(S) /\ Len(<<h>>) = 1 /\ <<h>>[1] = h
  OBVIOUS
<1>2. /\ c \in Seq(S)
      /\ Len(c) = 1 + Len(q)
      /\ \A i \in 1 .. 1 + Len(q) : c[i] = IF i <= 1 THEN <<h>>[i] ELSE q[i - 1]
  BY <1>1, ConcatProperties
<1>3. Len(q) \in Nat
  BY LenProperties
<1>4. c # <<>> /\ c[1] = h
  BY <1>1, <1>2, <1>3, EmptySeq
<1>5. Head(c) = h
  BY <1>4, <1>2
<1>6. /\ Tail(c) \in Seq(S) /\ Len(Tail(c)) = Len(q)
      /\ \A i \in 1 .. Len(Tail(c)) : Tail(c)[i] = c[i + 1]
  BY <1>2, <1>3, <1>4, HeadTailProperties
<1>7. ASSUME NEW i \in 1 .. Len(q) PROVE Tail(c)[i] = q[i]
  <2>1. i + 1 \in 1 .. 1 + Len(q) /\ ~(i + 1 <= 1) /\ (i + 1) - 1 = i
    BY <1>3
  <2> QED BY <2>1, <1>2, <1>6
<1>8. Tail(c) = q
  BY <1>6, <1>7, SeqEqual
<1> QED BY <1>4, <1>5, <1>8
=============================================================================
