--------------------------- MODULE RtpSourceProofs ---------------------------
(***************************************************************************)
(* The RTP source keeps its descriptors, and frames come in order, for any *)
(* size of the sequence numbers, the 2^16 of RTP among them.               *)
(***************************************************************************)
EXTENDS RtpSource, SequenceFacts, FiniteSetTheorems

-----------------------------------------------------------------------------
(* Sequence numbers.  The packets there are, and the one after the last,   *)
(* are less than half of the numbers apart.                                *)

Positions == 1 .. MaxPackets + 1

\* One wrap at most.
LEMMA ModOnce ==
    ASSUME NEW x \in Nat, x < NumSeqNos + NumSeqNos
    PROVE  x % NumSeqNos = IF x < NumSeqNos THEN x ELSE x - NumSeqNos
  BY SeqAssumption

LEMMA BoundsFacts ==
    /\ NumSeqNos \in Nat \ {0} /\ FirstSeq \in Nat /\ FirstSeq < NumSeqNos
    /\ NumSeqNos \div 2 \in Nat /\ 2 * (NumSeqNos \div 2) <= NumSeqNos
    /\ MaxPackets \in Nat \ {0} /\ MaxPackets + 1 <= NumSeqNos \div 2
    /\ MaxSize \in Nat \ {0} /\ MaxCopies \in Nat \ {0}
  BY SeqAssumption, BoundsAssumption

LEMMA SeqNoValue ==
    ASSUME NEW n \in Positions
    PROVE  /\ SeqNo(n) = IF FirstSeq + n < NumSeqNos THEN FirstSeq + n
                         ELSE FirstSeq + n - NumSeqNos
           /\ SeqNo(n) \in 0 .. NumSeqNos - 1
<1> DEFINE x == FirstSeq + n
<1>1. x \in Nat /\ x < NumSeqNos + NumSeqNos /\ NumSeqNos \in Nat \ {0}
  BY BoundsFacts DEF Positions
<1>2. SeqNo(n) = x % NumSeqNos
  BY DEF SeqNo
<1> HIDE DEF x
<1>3. x % NumSeqNos = IF x < NumSeqNos THEN x ELSE x - NumSeqNos
  BY <1>1, ModOnce
<1>4. SeqNo(n) \in 0 .. NumSeqNos - 1
  BY <1>1, <1>2, <1>3
<1>5. x = FirstSeq + n
  BY DEF x
<1>6. SeqNo(n) = IF x < NumSeqNos THEN x ELSE x - NumSeqNos
  BY <1>2, <1>3
<1> QED BY <1>1, <1>4, <1>5, <1>6, BoundsFacts DEF Positions

\* The order of the numbers is that of the packets.
LEMMA SeqNumOrder ==
    ASSUME NEW a \in Positions, NEW b \in Positions
    PROVE  /\ SeqNumLT(SeqNo(a), SeqNo(b)) <=> a < b
           /\ SeqNo(a) = SeqNo(b) <=> a = b
  BY SeqNoValue, BoundsFacts DEF Positions, SeqNumLT

LEMMA SeqNoNext ==
    ASSUME NEW n \in Packets
    PROVE  (SeqNo(n) + 1) % NumSeqNos = SeqNo(n + 1) /\ n + 1 \in Positions
<1> DEFINE x == SeqNo(n) + 1
<1>1. n \in Positions /\ n + 1 \in Positions
  BY BoundsFacts DEF Packets, Positions
<1>2. x \in Nat /\ x < NumSeqNos + NumSeqNos
  BY <1>1, SeqNoValue, BoundsFacts
<1> HIDE DEF x
<1>3. x % NumSeqNos = IF x < NumSeqNos THEN x ELSE x - NumSeqNos
  BY <1>2, ModOnce
<1>4. n + 1 \in Nat /\ n \in Nat
  BY DEF Packets
<1>5. SeqNo(n + 1) = IF FirstSeq + (n + 1) < NumSeqNos THEN FirstSeq + (n + 1)
                     ELSE FirstSeq + (n + 1) - NumSeqNos
  BY <1>1, SeqNoValue
<1>6. SeqNo(n) = IF FirstSeq + n < NumSeqNos THEN FirstSeq + n
                 ELSE FirstSeq + n - NumSeqNos
  BY <1>1, SeqNoValue
<1>7. x = SeqNo(n) + 1
  BY DEF x
<1>8. (IF x < NumSeqNos THEN x ELSE x - NumSeqNos) = SeqNo(n + 1)
  BY <1>1, <1>4, <1>5, <1>6, <1>7, BoundsFacts DEF Positions
<1>9. x % NumSeqNos = SeqNo(n + 1)
  BY <1>3, <1>8
<1> QED BY <1>1, <1>9 DEF x

-----------------------------------------------------------------------------
(* The list.                                                               *)

\* What is inserted has the rest of the sequence before and behind it.
LEMMA InsertAtFacts ==
    ASSUME NEW S, NEW s \in Seq(S), NEW i \in 1 .. Len(s) + 1, NEW e \in S
    PROVE  LET t == InsertAt(s, i, e) IN
           /\ t \in Seq(S) /\ Len(t) = Len(s) + 1
           /\ \A j \in 1 .. i - 1 : t[j] = s[j]
           /\ t[i] = e
           /\ \A j \in i + 1 .. Len(s) + 1 : t[j] = s[j - 1]
<1> DEFINE f == SubSeq(s, 1, i - 1)
           g == SubSeq(s, i, Len(s))
           t == InsertAt(s, i, e)
<1>1. i \in Nat \ {0} /\ Len(s) \in Nat /\ i <= Len(s) + 1
  BY LenProperties
<1>2. /\ f \in Seq(S) /\ Len(f) = i - 1
      /\ \A j \in 1 .. i - 1 : f[j] = s[j]
  BY <1>1, SubSeqProperties
<1>3. /\ g \in Seq(S) /\ Len(g) = Len(s) - i + 1
      /\ \A j \in 1 .. Len(s) - i + 1 : g[j] = s[i + j - 1]
  BY <1>1, SubSeqProperties
<1>4. <<e>> \in Seq(S) /\ Len(<<e>>) = 1 /\ <<e>>[1] = e
  OBVIOUS
<1> DEFINE h == f \o <<e>>
<1>5. /\ h \in Seq(S) /\ Len(h) = i
      /\ \A j \in 1 .. i - 1 : h[j] = s[j]
      /\ h[i] = e
  <2>1. /\ h \in Seq(S) /\ Len(h) = Len(f) + Len(<<e>>)
        /\ \A j \in 1 .. Len(f) + Len(<<e>>) :
              h[j] = IF j <= Len(f) THEN f[j] ELSE <<e>>[j - Len(f)]
    BY <1>2, <1>4, ConcatProperties
  <2> HIDE DEF f, h
  <2> QED BY <1>1, <1>2, <1>4, <2>1
<1>6. t = h \o g
  BY DEF InsertAt
<1> HIDE DEF f, g, h, t
<1>7. /\ h \o g \in Seq(S) /\ Len(h \o g) = Len(h) + Len(g)
      /\ \A j \in 1 .. Len(h) + Len(g) :
            (h \o g)[j] = IF j <= Len(h) THEN h[j] ELSE g[j - Len(h)]
  BY <1>3, <1>5, ConcatProperties
<1>8. \A j \in i + 1 .. Len(s) + 1 : t[j] = s[j - 1]
  <2> TAKE j \in i + 1 .. Len(s) + 1
  <2>1. /\ j \in 1 .. Len(h) + Len(g) /\ ~(j <= Len(h))
        /\ j - i \in 1 .. Len(s) - i + 1 /\ i + (j - i) - 1 = j - 1
    BY <1>1, <1>3, <1>5
  <2>2. t[j] = g[j - i]
    BY <1>5, <1>6, <1>7, <2>1
  <2>3. g[j - i] = s[i + (j - i) - 1]
    BY <1>3, <2>1
  <2> QED BY <2>1, <2>2, <2>3
<1>9. t \in Seq(S) /\ Len(t) = Len(s) + 1
  BY <1>1, <1>3, <1>5, <1>6, <1>7
<1>10. (\A j \in 1 .. i - 1 : t[j] = s[j]) /\ t[i] = e
  BY <1>1, <1>3, <1>5, <1>6, <1>7
<1> QED BY <1>8, <1>9, <1>10 DEF t

-----------------------------------------------------------------------------
(* The inductive invariant.                                                *)

EndOf(s) == s[Len(s)]

\* The reader has asked for a frame and not got it yet.
Asked == needDelivery \/ scheduled

\* The first unit of the head of the list has been copied, the second has not.
HeadUsed == list # <<>> /\ list[1].uses = 1

\* The part p is of a packet before x, or the first unit of x, of which only
\* that is used.
Behind(p, x, used) == p[1] < x \/ (p[1] = x /\ p[2] = 1 /\ used)

\* The list is sorted, and a packet in use is its first.
Sorted ==
    /\ \A i, j \in DOMAIN list : i < j => list[i].n < list[j].n
    /\ \A i \in DOMAIN list : list[i].uses = 1 => i = 1

\* The packet x is the next one expected: what the reader got is behind it,
\* and what is in the list is not.
Upto(x) ==
    /\ expected = SeqNo(x)
    /\ \A i \in DOMAIN list : x <= list[i].n
    /\ HeadUsed => list[1].n = x
    /\ \A i \in DOMAIN frames : Behind(EndOf(frames[i].parts), x, HeadUsed)
    /\ Asked /\ frame # <<>> => Behind(EndOf(frame), x, HeadUsed)

Placed ==
    /\ seen => \E x \in Positions : Upto(x)
    /\ ~seen => /\ list = <<>> /\ frames = <<>> /\ ~scheduled
                /\ needDelivery => frame = <<>>

FramesApart ==
    /\ \A i \in DOMAIN frames : frames[i].parts # <<>>
    /\ \A i, j \in DOMAIN frames :
          i < j => Earlier(EndOf(frames[i].parts), frames[j].parts[1])
    /\ Asked /\ frame # <<>> =>
          \A i \in DOMAIN frames : Earlier(EndOf(frames[i].parts), frame[1])
    /\ scheduled => frame # <<>>

\* The saved descriptor is taken exactly when one place has it.
Held ==
    /\ \A i, j \in DOMAIN list : list[i].in = "saved" /\ list[j].in = "saved" => i = j
    /\ inProgress = "saved" => \A i \in DOMAIN list : list[i].in # "saved"
    /\ inProgress # "none" => savedMade
    /\ savedMade /\ ~savedFree <=>
          (inProgress = "saved" \/ \E i \in DOMAIN list : list[i].in = "saved")

\* While a frame is on its way, or the reader looks at one, it asks for none.
OneAtATime == (inReader \/ scheduled) => ~needDelivery

IInv == TypeOK /\ Held /\ OneAtATime /\ ReaderServed /\ Sorted /\ Placed /\ FramesApart

LEMMA InitIInv == Init => IInv
<1> SUFFICES ASSUME Init PROVE IInv
  OBVIOUS
<1> USE DEF Init
<1>1. TypeOK
  <2>1. kind \in Seq(Kinds) /\ Len(kind) <= MaxPackets
    BY BoundsFacts
  <2>2. copies \in [Packets -> 0 .. MaxCopies]
    BY BoundsFacts
  <2>3. frame \in Seq(FrameParts) /\ Len(frame) <= MaxSize
    BY BoundsFacts
  <2>4. expected \in 0 .. NumSeqNos - 1
    BY BoundsFacts
  <2>5. list \in Seq(Entries) /\ frames \in Seq([parts : Seq(FrameParts), truncated : BOOLEAN])
    OBVIOUS
  <2> QED BY <2>1, <2>2, <2>3, <2>4, <2>5 DEF TypeOK, Descriptors
<1>2. DOMAIN list = {} /\ DOMAIN frames = {}
  OBVIOUS
<1>3. Held /\ OneAtATime /\ ReaderServed /\ Sorted
  BY <1>2 DEF Held, OneAtATime, ReaderServed, Sorted
<1>4. Placed /\ FramesApart
  BY <1>2 DEF Placed, FramesApart, Asked
<1> QED BY <1>1, <1>3, <1>4 DEF IInv

-----------------------------------------------------------------------------
(* Steps that leave the list and the frames alone.                         *)

LEMMA OrderKept ==
    ASSUME IInv, UNCHANGED <<list, seen, expected, frame, frames, needDelivery, scheduled>>
    PROVE  Sorted' /\ Placed' /\ FramesApart'
  BY DEF IInv, Sorted, Placed, Upto, HeadUsed, Behind, FramesApart, Asked, EndOf, Earlier

LEMMA SendKeeps == ASSUME IInv, NEW k \in Kinds, Send(k) PROVE IInv'
<1> USE DEF Send, bufferVars, frameVars
<1>1. kind' \in Seq(Kinds) /\ Len(kind') <= MaxPackets
  <2>1. kind \in Seq(Kinds) /\ Len(kind) < MaxPackets /\ Len(kind) \in Nat
    BY DEF IInv, TypeOK
  <2>2. kind' \in Seq(Kinds) /\ Len(kind') = Len(kind) + 1
    BY <2>1
  <2> QED BY <2>1, <2>2, BoundsFacts
<1>2. TypeOK'
  BY <1>1 DEF IInv, TypeOK
<1>3. Held' /\ OneAtATime' /\ ReaderServed'
  BY DEF IInv, Held, OneAtATime, ReaderServed, Idle, Gap, Next1
<1> QED BY <1>2, <1>3, OrderKept DEF IInv

LEMMA ReadPartKeeps == ASSUME IInv, ReadPart PROVE IInv'
<1> USE DEF ReadPart, netVars, frameVars
<1>1. TypeOK'
  BY DEF IInv, TypeOK, FreePacket, Descriptors
<1>2. Held'
  BY DEF IInv, Held, FreePacket
<1>3. OneAtATime' /\ ReaderServed'
  BY DEF IInv, OneAtATime, ReaderServed, Idle, Gap, Next1
<1> QED BY <1>1, <1>2, <1>3, OrderKept DEF IInv

LEMMA ReadBadKeeps == ASSUME IInv, ReadBad PROVE IInv'
<1> USE DEF ReadBad, netVars, frameVars
<1>1. TypeOK'
  BY DEF IInv, TypeOK, Descriptors
<1>2. Held'
  BY DEF IInv, Held, ReadInto, FreePacket, TypeOK, Descriptors
<1>3. OneAtATime' /\ ReaderServed'
  BY DEF IInv, OneAtATime, ReaderServed, Idle
<1> QED BY <1>1, <1>2, <1>3, OrderKept DEF IInv

LEMMA LoopEndsKeeps == ASSUME IInv, LoopEnds PROVE IInv'
<1> USE DEF LoopEnds, netVars, bufferVars, frameVars
<1>1. TypeOK'
  BY DEF IInv, TypeOK
<1>2. Held' /\ OneAtATime' /\ ReaderServed'
  BY DEF IInv, Held, OneAtATime, ReaderServed, Idle, Gap, Next1
<1> QED BY <1>1, <1>2, OrderKept DEF IInv

LEMMA ReaderReturnsKeeps == ASSUME IInv, ReaderReturns PROVE IInv'
<1> USE DEF ReaderReturns, netVars, bufferVars, frameVars
<1>1. TypeOK'
  BY DEF IInv, TypeOK
<1>2. Held' /\ OneAtATime' /\ ReaderServed'
  BY DEF IInv, Held, OneAtATime, ReaderServed, Idle, Gap, Next1
<1> QED BY <1>1, <1>2, OrderKept DEF IInv

\* A new request: nothing is copied yet.
LEMMA GetNextFrameKeeps == ASSUME IInv, GetNextFrame PROVE IInv'
<1> USE DEF GetNextFrame, netVars, bufferVars
<1>1. TypeOK'
  <2>1. frame' \in Seq(FrameParts) /\ Len(frame') <= MaxSize
    BY BoundsFacts
  <2> QED BY <2>1 DEF IInv, TypeOK
<1>2. Held' /\ OneAtATime' /\ ReaderServed' /\ Sorted'
  BY DEF IInv, Held, OneAtATime, ReaderServed, Idle, Sorted
<1>3. Placed'
  BY DEF IInv, Placed, Upto, HeadUsed, Behind, EndOf
<1>4. FramesApart'
  BY DEF IInv, FramesApart, EndOf, Earlier
<1> QED BY <1>1, <1>2, <1>3, <1>4 DEF IInv

\* The stream ends, and the buffer is as it was at the beginning.
LEMMA StopGettingFramesKeeps == ASSUME IInv, StopGettingFrames PROVE IInv'
<1> USE DEF StopGettingFrames, netVars
<1>1. TypeOK'
  <2>1. list' \in Seq(Entries)
        /\ frames' \in Seq([parts : Seq(FrameParts), truncated : BOOLEAN])
    OBVIOUS
  <2> QED BY <2>1 DEF IInv, TypeOK, Descriptors
<1>2. DOMAIN list' = {} /\ DOMAIN frames' = {} /\ ~Asked'
  BY DEF Asked
<1>3. Held' /\ OneAtATime' /\ ReaderServed' /\ Sorted'
  BY <1>2 DEF Held, OneAtATime, ReaderServed, Sorted
<1>4. Placed' /\ FramesApart'
  BY <1>2 DEF Placed, FramesApart
<1> QED BY <1>1, <1>3, <1>4 DEF IInv

-----------------------------------------------------------------------------
(* A frame is delivered.                                                   *)

FrameRecords == [parts : Seq(FrameParts), truncated : BOOLEAN]

LEMMA DeliverFacts ==
    ASSUME IInv, Deliver, frame' \in Seq(FrameParts), truncated' \in BOOLEAN
    PROVE  /\ frames' \in Seq(FrameRecords)
           /\ DOMAIN frames = 1 .. Len(frames) /\ Len(frames) \in Nat
           /\ DOMAIN frames' = 1 .. Len(frames) + 1
           /\ \A i \in DOMAIN frames : frames'[i] = frames[i]
           /\ frames'[Len(frames) + 1].parts = frame'
<1> DEFINE r == [parts |-> frame', truncated |-> truncated']
<1>1. frames \in Seq(FrameRecords) /\ r \in FrameRecords
  BY DEF IInv, TypeOK, FrameRecords
<1>2. frames' = Append(frames, r) /\ r.parts = frame'
  BY DEF Deliver
<1> HIDE DEF r
<1>3. /\ frames' \in Seq(FrameRecords) /\ Len(frames') = Len(frames) + 1
      /\ \A i \in 1 .. Len(frames) : frames'[i] = frames[i]
      /\ frames'[Len(frames) + 1] = r
  BY <1>1, <1>2, AppendProperties
<1>4. DOMAIN frames = 1 .. Len(frames) /\ Len(frames) \in Nat
      /\ DOMAIN frames' = 1 .. Len(frames')
  BY <1>1, <1>3, LenProperties
<1> QED BY <1>2, <1>3, <1>4

\* What is delivered comes after all that was.
LEMMA DeliverKeepsApart ==
    ASSUME IInv, Deliver, frame' \in Seq(FrameParts), truncated' \in BOOLEAN,
           frame' # <<>>, ~Asked',
           \A i \in DOMAIN frames : Earlier(EndOf(frames[i].parts), frame'[1])
    PROVE  FramesApart'
<1>1. ~scheduled'
  BY DEF Asked
<1>2. \A i \in DOMAIN frames' : frames'[i].parts # <<>>
  BY DeliverFacts DEF IInv, FramesApart
<1>3. ASSUME NEW i \in DOMAIN frames', NEW j \in DOMAIN frames', i < j
      PROVE  Earlier(EndOf(frames'[i].parts), frames'[j].parts[1])
  <2>1. i \in DOMAIN frames
    BY <1>3, DeliverFacts
  <2>2. CASE j \in DOMAIN frames
    <3>1. Earlier(EndOf(frames[i].parts), frames[j].parts[1])
      BY <1>3, <2>1, <2>2 DEF IInv, FramesApart
    <3> QED BY <2>1, <2>2, <3>1, DeliverFacts
  <2>3. CASE j = Len(frames) + 1
    BY <2>1, <2>3, DeliverFacts
  <2> QED BY <2>2, <2>3, DeliverFacts
<1> QED BY <1>1, <1>2, <1>3 DEF FramesApart, EndOf, Earlier

LEMMA RunTaskKeeps == ASSUME IInv, RunTask PROVE IInv'
<1> USE DEF RunTask, netVars, bufferVars, frameVars
<1>1. /\ frame' = frame /\ truncated' = truncated /\ scheduled
      /\ frame' \in Seq(FrameParts) /\ truncated' \in BOOLEAN /\ Deliver
  BY DEF IInv, TypeOK
<1>2. ~needDelivery /\ frame # <<>> /\ Asked /\ ~Asked'
  BY <1>1 DEF IInv, OneAtATime, FramesApart, Asked
<1>3. TypeOK'
  BY <1>1, DeliverFacts DEF IInv, TypeOK, FrameRecords, Deliver
<1>4. Held' /\ OneAtATime' /\ ReaderServed' /\ Sorted'
  BY <1>1, <1>2 DEF IInv, Held, OneAtATime, ReaderServed, Idle, Deliver, Sorted
<1>5. FramesApart'
  BY <1>1, <1>2, DeliverKeepsApart DEF IInv, FramesApart
<1>6. Placed'
  <2>1. seen
    BY <1>1 DEF IInv, Placed
  <2>2. PICK x \in Positions : Upto(x)
    BY <2>1 DEF IInv, Placed
  <2>3. HeadUsed' = HeadUsed
    BY DEF HeadUsed
  <2>4. ASSUME NEW i \in DOMAIN frames'
        PROVE  Behind(EndOf(frames'[i].parts), x, HeadUsed')
    <3>1. CASE i \in DOMAIN frames
      BY <1>1, <2>2, <2>3, <3>1, DeliverFacts DEF Upto
    <3>2. CASE i = Len(frames) + 1
      BY <1>1, <1>2, <2>2, <2>3, <3>2, DeliverFacts DEF Upto
    <3> QED BY <1>1, <3>1, <3>2, DeliverFacts
  <2>5. Upto(x)'
    BY <1>1, <1>2, <2>2, <2>3, <2>4 DEF Upto, Behind, EndOf
  <2> QED BY <2>1, <2>5 DEF Placed
<1> QED BY <1>3, <1>4, <1>5, <1>6 DEF IInv

-----------------------------------------------------------------------------
(* The head of the list is released, or kept for its second unit.          *)

LEMMA ReleaseFacts ==
    ASSUME IInv, list # <<>>, Release, inProgress' = inProgress
    PROVE  LET n == list[1].n IN
           /\ list' \in Seq(Entries) /\ expected' = SeqNo(n + 1)
           /\ n \in Packets /\ n + 1 \in Positions /\ seen' /\ seen
           /\ expected' \in 0 .. NumSeqNos - 1 /\ savedMade' = savedMade
           /\ savedFree' \in BOOLEAN
           /\ \A i \in DOMAIN list' : n + 1 <= list'[i].n /\ list'[i].uses # 1
           /\ Held' /\ Sorted' /\ ~HeadUsed'
<1> DEFINE n == list[1].n
<1>1. /\ list \in Seq(Entries) /\ Len(list) \in Nat \ {0}
      /\ DOMAIN list = 1 .. Len(list) /\ Head(list) = list[1]
      /\ list' = Tail(list)
  BY EmptySeq, LenProperties DEF IInv, TypeOK, Release
<1>2. /\ list' \in Seq(Entries) /\ DOMAIN list' = 1 .. Len(list) - 1
      /\ \A i \in DOMAIN list' : i + 1 \in DOMAIN list /\ list'[i] = list[i + 1]
  <2>1. /\ list' \in Seq(Entries) /\ Len(list') = Len(list) - 1
        /\ \A i \in 1 .. Len(list') : list'[i] = list[i + 1]
    BY <1>1, HeadTailProperties
  <2> QED BY <1>1, <2>1, LenProperties
<1>3. list[1] \in Entries /\ 1 \in DOMAIN list
  BY <1>1, ElementOfSeq
<1>4. n \in Packets
  BY <1>3 DEF Entries
<1>5. expected' = SeqNo(n + 1) /\ n + 1 \in Positions
  BY <1>1, <1>4, SeqNoNext DEF Release, Next1
<1>6. ASSUME NEW i \in DOMAIN list'
      PROVE  n + 1 <= list'[i].n /\ list'[i].uses # 1
  <2>1. list'[i] = list[i + 1] /\ i + 1 \in DOMAIN list /\ 1 < i + 1
    BY <1>2
  <2>2. n < list[i + 1].n /\ list[i + 1].uses # 1
    BY <1>3, <2>1 DEF IInv, Sorted
  <2>3. list[i + 1] \in Entries
    BY <1>1, <2>1, ElementOfSeq
  <2>4. list[i + 1].n \in Nat
    BY <2>3 DEF Entries, Packets
  <2>5. n \in Nat
    BY <1>4 DEF Packets
  <2> HIDE DEF n
  <2>6. n + 1 <= list[i + 1].n
    <3>1. n < list[i + 1].n
      BY <2>2 DEF n
    <3> QED BY <2>4, <2>5, <3>1
  <2> QED BY <2>1, <2>2, <2>6
<1>7. Sorted' /\ ~HeadUsed'
  <2>1. \A i, j \in DOMAIN list' : i < j => list'[i].n < list'[j].n
    BY <1>1, <1>2 DEF IInv, Sorted
  <2>2. list' # <<>> => 1 \in DOMAIN list'
    BY <1>2, EmptySeq
  <2> QED BY <1>6, <2>1, <2>2 DEF Sorted, HeadUsed
<1>8. Held'
  <2>1. /\ savedMade' = savedMade
        /\ savedFree' = (savedFree \/ list[1].in = "saved")
    BY <1>1 DEF Release, Next1
  <2>2. \A i, j \in DOMAIN list' :
          list'[i].in = "saved" /\ list'[j].in = "saved" => i = j
    BY <1>1, <1>2 DEF IInv, Held
  <2>3. inProgress' = "saved" => \A i \in DOMAIN list' : list'[i].in # "saved"
    BY <1>2 DEF IInv, Held
  <2>4. CASE list[1].in = "saved"
    <3>1. inProgress # "saved" /\ \A i \in DOMAIN list' : list'[i].in # "saved"
      BY <1>1, <1>2, <1>3, <2>4 DEF IInv, Held
    <3> QED BY <2>1, <2>2, <2>3, <2>4, <3>1 DEF IInv, Held
  <2>5. CASE list[1].in # "saved"
    <3>1. (\E i \in DOMAIN list : list[i].in = "saved")
            <=> \E i \in DOMAIN list' : list'[i].in = "saved"
      <4>1. ASSUME NEW i \in DOMAIN list, list[i].in = "saved"
            PROVE  \E j \in DOMAIN list' : list'[j].in = "saved"
        <5>1. i # 1 /\ i - 1 \in DOMAIN list' /\ (i - 1) + 1 = i
          BY <1>1, <1>2, <2>5, <4>1
        <5> QED BY <1>2, <4>1, <5>1
      <4> QED BY <1>2, <4>1
    <3> QED BY <2>1, <2>2, <2>3, <2>5, <3>1 DEF IInv, Held
  <2> QED BY <2>4, <2>5
<1>9. seen /\ seen'
  BY DEF IInv, Placed, Release
<1>10. /\ expected' \in 0 .. NumSeqNos - 1 /\ savedMade' = savedMade
       /\ savedFree' \in BOOLEAN
  BY <1>5, SeqNoValue DEF Release, IInv, TypeOK
<1> QED BY <1>2, <1>4, <1>5, <1>6, <1>7, <1>8, <1>9, <1>10

LEMMA KeepForNextFacts ==
    ASSUME IInv, list # <<>>, KeepForNext, inProgress' = inProgress
    PROVE  LET n == list[1].n IN
           /\ list' \in Seq(Entries) /\ expected' = SeqNo(n)
           /\ n \in Packets /\ n \in Positions /\ seen' /\ seen
           /\ expected' \in 0 .. NumSeqNos - 1
           /\ UNCHANGED <<savedMade, savedFree>>
           /\ \A i \in DOMAIN list' : n <= list'[i].n
           /\ list'[1].n = n
           /\ Held' /\ Sorted' /\ HeadUsed'
<1> DEFINE n == list[1].n
           e == [list[1] EXCEPT !.uses = 1]
<1>1. /\ list \in Seq(Entries) /\ Len(list) \in Nat \ {0}
      /\ DOMAIN list = 1 .. Len(list) /\ Head(list) = list[1]
      /\ list' = [list EXCEPT ![1] = e]
  BY EmptySeq, LenProperties DEF IInv, TypeOK, KeepForNext
<1>2. list[1] \in Entries /\ 1 \in DOMAIN list
  BY <1>1, ElementOfSeq
<1>3. n \in Packets /\ e \in Entries /\ e.n = n /\ e.in = list[1].in /\ e.uses = 1
  BY <1>2 DEF Entries
<1> HIDE DEF e
<1>4. /\ list' \in Seq(Entries) /\ DOMAIN list' = DOMAIN list
      /\ list'[1] = e /\ \A i \in DOMAIN list \ {1} : list'[i] = list[i]
  BY <1>1, <1>2, <1>3
<1>5. n \in Positions /\ expected' = SeqNo(n)
  <2>1. n \in Positions
    BY <1>3, BoundsFacts DEF Packets, Positions
  <2>2. expected' = SeqNo(n)
    BY <1>1 DEF KeepForNext, Next1
  <2> QED BY <2>1, <2>2
<1>6. \A i \in DOMAIN list' : list'[i].n = list[i].n /\ list'[i].in = list[i].in
  BY <1>3, <1>4
<1>7. ASSUME NEW i \in DOMAIN list' PROVE n <= list'[i].n
  <2>1. CASE i = 1
    BY <1>3, <1>6, <2>1 DEF Packets
  <2>2. CASE i # 1
    <3>1. n < list[i].n
      BY <1>1, <1>2, <1>4, <2>2 DEF IInv, Sorted
    <3>2. list[i] \in Entries
      BY <1>1, <1>4, ElementOfSeq
    <3>3. list[i].n \in Nat /\ n \in Nat
      BY <1>3, <3>2 DEF Entries, Packets
    <3> QED BY <1>6, <3>1, <3>3
  <2> QED BY <2>1, <2>2
<1>8. Sorted' /\ HeadUsed'
  BY <1>1, <1>2, <1>3, <1>4, <1>6, EmptySeq DEF IInv, Sorted, HeadUsed
<1>9. Held' /\ UNCHANGED <<savedMade, savedFree>>
  BY <1>4, <1>6 DEF IInv, Held, KeepForNext
<1>10. seen /\ seen' /\ expected' \in 0 .. NumSeqNos - 1
  BY <1>5, SeqNoValue DEF IInv, Placed, KeepForNext
<1> QED BY <1>3, <1>4, <1>5, <1>6, <1>7, <1>8, <1>9, <1>10

\* What was got is behind the head of the list.
LEMMA BehindHead ==
    ASSUME IInv, NEW x \in Positions, Upto(x), list # <<>>,
           NEW p \in FrameParts, Behind(p, x, HeadUsed)
    PROVE  LET n == list[1].n IN
           /\ n \in Packets
           /\ Behind(p, n + 1, FALSE)
           /\ list[1].uses = 0 => Behind(p, n, TRUE)
           /\ Earlier(p, <<n, list[1].uses + 1>>)
<1>1. list[1] \in Entries /\ 1 \in DOMAIN list
  BY EmptySeq, LenProperties, ElementOfSeq DEF IInv, TypeOK
<1>2. list[1].n \in Packets /\ list[1].uses \in 0 .. 1 /\ list[1].n \in Nat
  BY <1>1 DEF Entries, Packets
<1>3. p[1] \in Nat /\ p[2] \in Nat /\ x \in Nat
  BY DEF FrameParts, Packets, Positions
<1>4. x <= list[1].n /\ (list[1].uses = 1 => list[1].n = x)
  BY <1>1 DEF Upto, HeadUsed
<1>5. p[1] < x \/ (p[1] = x /\ p[2] = 1 /\ list[1].uses = 1)
  BY DEF Behind, HeadUsed
<1> DEFINE n == list[1].n
           u == list[1].uses
<1> HIDE DEF n, u
<1>6. n \in Nat /\ u \in 0 .. 1 /\ x <= n /\ (u = 1 => n = x)
      /\ (p[1] < x \/ (p[1] = x /\ p[2] = 1 /\ u = 1))
  BY <1>2, <1>4, <1>5 DEF n, u
<1>7. Behind(p, n + 1, FALSE) /\ (u = 0 => Behind(p, n, TRUE))
  BY <1>3, <1>6 DEF Behind
<1>8. Earlier(p, <<n, u + 1>>)
  BY <1>3, <1>6 DEF Earlier
<1> QED BY <1>2, <1>7, <1>8 DEF n, u

\* All that was got is behind the head of the list.
LEMMA AllBehind ==
    ASSUME IInv, list # <<>>
    PROVE  LET n == list[1].n
               u == list[1].uses
               Past(p) == /\ Behind(p, n + 1, FALSE) /\ Earlier(p, <<n, u + 1>>)
                          /\ u = 0 => Behind(p, n, TRUE)
           IN /\ seen /\ n \in Packets /\ u \in 0 .. 1
              /\ \A i \in DOMAIN frames : Past(EndOf(frames[i].parts))
              /\ Asked /\ frame # <<>> => Past(EndOf(frame))
<1>1. seen
  BY DEF IInv, Placed
<1>2. PICK x \in Positions : Upto(x)
  BY <1>1 DEF IInv, Placed
<1>3. list[1] \in Entries
  BY EmptySeq, LenProperties, ElementOfSeq DEF IInv, TypeOK
<1>4. list[1].n \in Packets /\ list[1].uses \in 0 .. 1
  BY <1>3 DEF Entries
<1>5. ASSUME NEW i \in DOMAIN frames
      PROVE  EndOf(frames[i].parts) \in FrameParts
  <2>1. frames \in Seq(FrameRecords) /\ DOMAIN frames = 1 .. Len(frames)
    BY LenProperties DEF IInv, TypeOK, FrameRecords
  <2> HIDE DEF FrameRecords
  <2>3. frames[i] \in FrameRecords
    BY <2>1, ElementOfSeq
  <2>2. frames[i].parts \in Seq(FrameParts) /\ frames[i].parts # <<>>
    BY <2>3 DEF FrameRecords, IInv, FramesApart
  <2> QED BY <2>2, EmptySeq, LenProperties, ElementOfSeq DEF EndOf
<1>6. frame # <<>> => EndOf(frame) \in FrameParts
  BY EmptySeq, LenProperties, ElementOfSeq DEF EndOf, IInv, TypeOK
<1>7. \A i \in DOMAIN frames : Behind(EndOf(frames[i].parts), x, HeadUsed)
  BY <1>2 DEF Upto
<1>8. Asked /\ frame # <<>> => Behind(EndOf(frame), x, HeadUsed)
  BY <1>2 DEF Upto
<1> QED BY <1>1, <1>2, <1>4, <1>5, <1>6, <1>7, <1>8, BehindHead

\* A packet is dropped without a change of the frame.
LEMMA ReleasedPlaced ==
    ASSUME IInv, list # <<>>, Release, UNCHANGED <<inProgress, frame, frames,
           needDelivery, scheduled>>
    PROVE  Sorted' /\ Placed' /\ FramesApart' /\ Held'
<1> DEFINE n == list[1].n
<1>1. seen /\ seen' /\ n + 1 \in Positions /\ expected' = SeqNo(n + 1) /\ ~HeadUsed'
      /\ \A i \in DOMAIN list' : n + 1 <= list'[i].n
  BY ReleaseFacts
<1>2. \A i \in DOMAIN frames : Behind(EndOf(frames[i].parts), n + 1, FALSE)
  BY AllBehind
<1>3. Asked /\ frame # <<>> => Behind(EndOf(frame), n + 1, FALSE)
  BY AllBehind
<1>4. PICK x \in Positions : x = n + 1
  BY <1>1
<1> HIDE DEF n
<1>5. Placed'
  <2>1. Upto(x)'
    BY <1>1, <1>2, <1>3, <1>4 DEF Upto, Asked, EndOf, Behind
  <2> QED BY <1>1, <2>1 DEF Placed
<1>6. FramesApart'
  BY DEF IInv, FramesApart, Asked, EndOf, Earlier
<1> QED BY <1>5, <1>6, ReleaseFacts

LEMMA RejectEmptyKeeps ==
    ASSUME IInv, NEW loss \in BOOLEAN, RejectEmpty(loss) PROVE IInv'
<1> USE DEF RejectEmpty, TakesNext, netVars, frameVars
<1>1. TypeOK'
  BY ReleaseFacts DEF IInv, TypeOK
<1>2. OneAtATime' /\ ReaderServed'
  BY DEF IInv, OneAtATime, ReaderServed, Idle
<1> QED BY <1>1, <1>2, ReleasedPlaced DEF IInv

LEMMA RejectFragmentKeeps ==
    ASSUME IInv, NEW loss \in BOOLEAN, RejectFragment(loss) PROVE IInv'
<1> USE DEF RejectFragment, TakesNext, netVars
<1>1. TypeOK'
  BY ReleaseFacts DEF IInv, TypeOK, Flags
<1>2. OneAtATime' /\ ReaderServed'
  BY DEF IInv, OneAtATime, ReaderServed, Idle
<1> QED BY <1>1, <1>2, ReleasedPlaced DEF IInv

-----------------------------------------------------------------------------
(* A packet is used: its part comes after all that was got.                *)

\* What is copied for the reader.
LEMMA CopiedFacts ==
    ASSUME IInv, NEW loss \in BOOLEAN, UsePacket(loss)
    PROVE  /\ frame' \in Seq(FrameParts) /\ Len(frame') <= MaxSize
           /\ frame' # <<>> /\ truncated' \in BOOLEAN
           /\ \A i \in DOMAIN frames : Earlier(EndOf(frames[i].parts), frame'[1])
           /\ \/ frame' = frame
              \/ EndOf(frame') = <<list[1].n, list[1].uses + 1>>
<1> DEFINE part == <<list[1].n, list[1].uses + 1>>
           c == Copied(loss)
<1>1. /\ list # <<>> /\ Asked /\ Head(list) = list[1]
      /\ truncated' = (Len(c) = MaxSize)
      /\ frame' = IF truncated' THEN c ELSE Append(c, part)
  <2>1. list # <<>> /\ Asked
    BY DEF UsePacket, TakesNext, Asked
  <2>2. Head(list) = list[1]
    BY <2>1 DEF IInv, TypeOK
  <2>3. /\ truncated' = (Len(c) = MaxSize)
        /\ frame' = IF truncated' THEN c
                    ELSE Append(c, <<Head(list).n, Head(list).uses + 1>>)
    BY DEF UsePacket, Next1
  <2> QED BY <2>1, <2>2, <2>3
<1>2. /\ frame \in Seq(FrameParts) /\ Len(frame) <= MaxSize
      /\ c \in {<<>>, frame} /\ c \in Seq(FrameParts)
      /\ Len(c) \in Nat /\ Len(c) <= MaxSize
  <2>1. Len(<<>>) = 0 /\ <<>> \in Seq(FrameParts)
    OBVIOUS
  <2>2. frame \in Seq(FrameParts) /\ Len(frame) <= MaxSize
    BY DEF IInv, TypeOK
  <2>3. c \in {<<>>, frame}
    BY DEF Copied
  <2> HIDE DEF c
  <2>4. c \in Seq(FrameParts)
    BY <2>1, <2>2, <2>3
  <2>5. Len(c) \in Nat
    BY <2>4, LenProperties
  <2>6. Len(c) <= MaxSize
    BY <2>1, <2>2, <2>3, BoundsFacts
  <2> QED BY <2>2, <2>3, <2>4, <2>5, <2>6
<1>3. part \in FrameParts
  BY <1>1, AllBehind DEF FrameParts
<1>4. \A i \in DOMAIN frames : Earlier(EndOf(frames[i].parts), part)
  BY <1>1, AllBehind
<1>5. c # <<>> => \A i \in DOMAIN frames : Earlier(EndOf(frames[i].parts), c[1])
  BY <1>1, <1>2 DEF IInv, FramesApart
<1> HIDE DEF part, c
<1>6. CASE truncated'
  <2>1. frame' = c /\ Len(c) = MaxSize
    BY <1>1, <1>6
  <2>2. Len(<<>>) = 0
    OBVIOUS
  <2>3. c # <<>> /\ c = frame
    BY <1>2, <2>1, <2>2, BoundsFacts
  <2> QED BY <1>1, <1>2, <1>5, <2>1, <2>3
<1>7. CASE ~truncated'
  <2>1. frame' = Append(c, part) /\ Len(c) # MaxSize
    BY <1>1, <1>7
  <2>2. /\ frame' \in Seq(FrameParts) /\ Len(frame') = Len(c) + 1
        /\ \A i \in 1 .. Len(c) : frame'[i] = c[i]
        /\ frame'[Len(c) + 1] = part
    BY <1>2, <1>3, <2>1, AppendProperties
  <2>3. Len(frame') <= MaxSize
    BY <1>2, <2>1, <2>2, BoundsFacts
  <2>4. frame' # <<>>
    BY <1>2, <2>2
  <2>5. EndOf(frame') = part
    BY <2>2 DEF EndOf
  <2>6. frame'[1] = IF c = <<>> THEN part ELSE c[1]
    <3>1. CASE c = <<>>
      BY <2>2, <3>1
    <3>2. CASE c # <<>>
      BY <1>2, <2>2, <3>2, EmptySeq
    <3> QED BY <3>1, <3>2
  <2>7. \A i \in DOMAIN frames : Earlier(EndOf(frames[i].parts), frame'[1])
    BY <1>4, <1>5, <2>6
  <2> QED BY <1>1, <2>2, <2>3, <2>4, <2>5, <2>7 DEF part
<1> QED BY <1>1, <1>6, <1>7

\* Where the source stands after the packet.
LEMMA UsedUpto ==
    ASSUME IInv, NEW loss \in BOOLEAN, UsePacket(loss)
    PROVE  /\ list' \in Seq(Entries) /\ seen' /\ seen
           /\ expected' \in 0 .. NumSeqNos - 1
           /\ savedMade' \in BOOLEAN /\ savedFree' \in BOOLEAN
           /\ Held' /\ Sorted'
           /\ \E x \in Positions :
                 /\ expected' = SeqNo(x)
                 /\ \A i \in DOMAIN list' : x <= list'[i].n
                 /\ HeadUsed' => list'[1].n = x
                 /\ \A i \in DOMAIN frames :
                       Behind(EndOf(frames[i].parts), x, HeadUsed')
                 /\ Behind(EndOf(frame'), x, HeadUsed')
<1> DEFINE n == list[1].n
           u == list[1].uses
<1>1. /\ list # <<>> /\ Asked /\ Head(list) = list[1] /\ inProgress' = inProgress
      /\ IF kind[n] = "pair" /\ u = 0 THEN KeepForNext ELSE Release
  BY EmptySeq DEF UsePacket, TakesNext, Asked, Next1, IInv, TypeOK
<1>2. n \in Packets /\ n \in Nat /\ u \in 0 .. 1 /\ seen
  BY <1>1, AllBehind DEF Packets
<1>3. \A i \in DOMAIN frames :
        /\ Behind(EndOf(frames[i].parts), n + 1, FALSE)
        /\ u = 0 => Behind(EndOf(frames[i].parts), n, TRUE)
  BY <1>1, AllBehind
<1>4. frame # <<>> => /\ Behind(EndOf(frame), n + 1, FALSE)
                      /\ u = 0 => Behind(EndOf(frame), n, TRUE)
  BY <1>1, AllBehind
<1>5. frame' # <<>> /\ (frame' = frame \/ EndOf(frame') = <<n, u + 1>>)
  BY CopiedFacts
<1>6. savedMade \in BOOLEAN /\ savedFree \in BOOLEAN
  BY DEF IInv, TypeOK
<1>7. CASE KeepForNext /\ u = 0
  <2>1. /\ list' \in Seq(Entries) /\ expected' = SeqNo(n)
        /\ n \in Positions /\ seen' /\ expected' \in 0 .. NumSeqNos - 1
        /\ UNCHANGED <<savedMade, savedFree>>
        /\ \A i \in DOMAIN list' : n <= list'[i].n
        /\ list'[1].n = n /\ Held' /\ Sorted' /\ HeadUsed'
    BY <1>1, <1>7, KeepForNextFacts
  <2> HIDE DEF n, u
  <2>2. Behind(EndOf(frame'), n, TRUE)
    BY <1>2, <1>4, <1>5, <1>7 DEF Behind
  <2>3. ASSUME NEW i \in DOMAIN frames
        PROVE  Behind(EndOf(frames[i].parts), n, HeadUsed')
    <3>1. Behind(EndOf(frames[i].parts), n, TRUE)
      BY <1>3, <1>7
    <3> QED BY <2>1, <3>1 DEF Behind
  <2> QED BY <1>2, <1>6, <2>1, <2>2, <2>3 DEF Behind
<1>8. CASE Release
  <2>1. /\ list' \in Seq(Entries) /\ expected' = SeqNo(n + 1)
        /\ n + 1 \in Positions /\ seen' /\ expected' \in 0 .. NumSeqNos - 1
        /\ savedMade' = savedMade /\ savedFree' \in BOOLEAN
        /\ \A i \in DOMAIN list' : n + 1 <= list'[i].n
        /\ Held' /\ Sorted' /\ ~HeadUsed'
    BY <1>1, <1>8, ReleaseFacts
  <2> HIDE DEF n, u
  <2>2. Behind(EndOf(frame'), n + 1, FALSE)
    BY <1>2, <1>4, <1>5 DEF Behind
  <2>3. ASSUME NEW i \in DOMAIN frames
        PROVE  Behind(EndOf(frames[i].parts), n + 1, HeadUsed')
    <3>1. Behind(EndOf(frames[i].parts), n + 1, FALSE)
      BY <1>3
    <3> QED BY <2>1, <3>1 DEF Behind
  <2> QED BY <1>2, <1>6, <2>1, <2>2, <2>3 DEF Behind
<1> QED BY <1>1, <1>7, <1>8

LEMMA UsePacketKeeps ==
    ASSUME IInv, NEW loss \in BOOLEAN, UsePacket(loss) PROVE IInv'
<1>1. /\ needDelivery /\ needDelivery' = ~completes'
      /\ scheduled' = (completes' /\ list' # <<>>)
      /\ completes' \in BOOLEAN /\ begins' \in BOOLEAN /\ lossInFrame' \in BOOLEAN
      /\ IF completes' /\ list' = <<>> THEN Deliver ELSE UNCHANGED <<frames, inReader>>
      /\ UNCHANGED <<netVars, inProgress, reading, delivering, stored>>
      /\ misled' \in BOOLEAN /\ delivering /\ ~inReader /\ Asked
  BY DEF UsePacket, TakesNext, Flags, IInv, TypeOK, Asked
<1>2. /\ frame' \in Seq(FrameParts) /\ Len(frame') <= MaxSize
      /\ frame' # <<>> /\ truncated' \in BOOLEAN
      /\ \A i \in DOMAIN frames : Earlier(EndOf(frames[i].parts), frame'[1])
  BY CopiedFacts
<1>3. PICK x \in Positions :
        /\ expected' = SeqNo(x)
        /\ \A i \in DOMAIN list' : x <= list'[i].n
        /\ HeadUsed' => list'[1].n = x
        /\ \A i \in DOMAIN frames : Behind(EndOf(frames[i].parts), x, HeadUsed')
        /\ Behind(EndOf(frame'), x, HeadUsed')
  BY UsedUpto
<1>4. OneAtATime' /\ ReaderServed'
  BY <1>1 DEF OneAtATime, ReaderServed, Idle, Deliver
<1>5. TypeOK' /\ Placed' /\ FramesApart'
  <2>1. CASE completes' /\ list' = <<>>
    <3>1. Deliver /\ ~Asked'
      BY <1>1, <2>1 DEF Asked
    <3>2. TypeOK'
      BY <1>1, <1>2, <3>1, UsedUpto, DeliverFacts
         DEF IInv, TypeOK, netVars, Deliver, FrameRecords
    <3>3. FramesApart'
      BY <1>2, <3>1, DeliverKeepsApart
    <3>4. ASSUME NEW i \in DOMAIN frames'
          PROVE  Behind(EndOf(frames'[i].parts), x, HeadUsed')
      <4>1. CASE i \in DOMAIN frames
        BY <1>2, <1>3, <3>1, <4>1, DeliverFacts
      <4>2. CASE i = Len(frames) + 1
        BY <1>2, <1>3, <3>1, <4>2, DeliverFacts
      <4> QED BY <1>2, <3>1, <4>1, <4>2, DeliverFacts
    <3>5. Upto(x)'
      BY <1>3, <3>1, <3>4 DEF Upto, EndOf, Behind
    <3> QED BY <3>2, <3>3, <3>5, UsedUpto DEF Placed
  <2>2. CASE ~(completes' /\ list' = <<>>)
    <3>1. UNCHANGED <<frames, inReader>>
      BY <1>1, <2>2
    <3>2. TypeOK'
      BY <1>1, <1>2, <3>1, UsedUpto DEF IInv, TypeOK, netVars
    <3>3. FramesApart'
      BY <1>2, <3>1 DEF IInv, FramesApart, EndOf, Earlier
    <3>4. Upto(x)'
      BY <1>3, <3>1 DEF Upto, EndOf, Behind
    <3> QED BY <3>2, <3>3, <3>4, UsedUpto DEF Placed
  <2> QED BY <2>1, <2>2
<1> QED BY <1>4, <1>5, UsedUpto DEF IInv

-----------------------------------------------------------------------------
(* A packet is read.                                                       *)

\* A packet that is not in the list gets its place there.
LEMMA StoreFacts ==
    ASSUME IInv, NEW e \in Entries
    PROVE  LET l == Store(e) IN
           \/ l = list
           \/ /\ l \in Seq(Entries) /\ Len(l) = Len(list) + 1
              /\ \E at \in 1 .. Len(list) + 1 :
                    /\ l[at] = e
                    /\ \A j \in 1 .. at - 1 : l[j] = list[j] /\ list[j].n < e.n
                    /\ \A j \in at + 1 .. Len(list) + 1 :
                          l[j] = list[j - 1] /\ e.n < list[j - 1].n
<1> DEFINE s == SeqNo(e.n)
           later == {i \in DOMAIN list : SeqNumLT(s, SeqNo(list[i].n))}
           at == IF later = {} THEN Len(list) + 1
                 ELSE CHOOSE i \in later : \A j \in later : i <= j
<1>1. SUFFICES ASSUME \A i \in DOMAIN list : SeqNo(list[i].n) # s
               PROVE  LET l == InsertAt(list, at, e) IN
                      /\ l \in Seq(Entries) /\ Len(l) = Len(list) + 1
                      /\ \E k \in 1 .. Len(list) + 1 :
                            /\ l[k] = e
                            /\ \A j \in 1 .. k - 1 : l[j] = list[j] /\ list[j].n < e.n
                            /\ \A j \in k + 1 .. Len(list) + 1 :
                                  l[j] = list[j - 1] /\ e.n < list[j - 1].n
  BY DEF Store
<1>2. /\ list \in Seq(Entries) /\ DOMAIN list = 1 .. Len(list) /\ Len(list) \in Nat
  BY LenProperties DEF IInv, TypeOK
<1>3. e.n \in Positions /\ e.n \in Nat
  BY BoundsFacts DEF Entries, Packets, Positions
<1>4. ASSUME NEW i \in DOMAIN list
      PROVE  /\ list[i].n \in Nat /\ list[i].n # e.n
             /\ i \in later <=> e.n < list[i].n
  <2>1. list[i] \in Entries
    BY <1>2, ElementOfSeq
  <2>2. list[i].n \in Positions /\ list[i].n \in Nat
    BY <2>1, BoundsFacts DEF Entries, Packets, Positions
  <2>3. list[i].n # e.n
    BY <1>1
  <2> QED BY <1>3, <2>2, <2>3, SeqNumOrder
<1>5. later \subseteq 1 .. Len(list)
  BY <1>2
<1> HIDE DEF later, s
<1>6. /\ at \in 1 .. Len(list) + 1
      /\ \A j \in DOMAIN list : j < at => list[j].n < e.n
      /\ \A j \in DOMAIN list : at <= j => e.n < list[j].n
  <2>1. CASE later = {}
    <3>1. at = Len(list) + 1
      BY <2>1
    <3>2. \A j \in DOMAIN list : list[j].n < e.n
      BY <1>3, <1>4, <2>1
    <3> HIDE DEF at
    <3> QED BY <1>2, <3>1, <3>2
  <2>2. CASE later # {}
    <3>1. \E i \in later : \A j \in later : i <= j
      <4>1. later \subseteq Nat
        BY <1>5
      <4> QED BY <2>2, <4>1, LeastOf
    <3>2. at \in later /\ \A j \in later : at <= j
      BY <2>2, <3>1
    <3> HIDE DEF at
    <3>3. at \in DOMAIN list /\ e.n < list[at].n
      BY <1>2, <1>4, <1>5, <3>2
    <3>4. \A j \in DOMAIN list : j < at => list[j].n < e.n
      BY <1>2, <1>3, <1>4, <1>5, <3>2
    <3>5. ASSUME NEW j \in DOMAIN list, at <= j PROVE e.n < list[j].n
      <4>1. CASE j = at
        BY <3>3, <4>1
      <4>2. CASE j # at
        <5>1. at < j
          BY <1>2, <3>3, <3>5, <4>2
        <5>2. list[at].n < list[j].n
          BY <3>3, <5>1 DEF IInv, Sorted
        <5> QED BY <1>3, <1>4, <3>3, <5>2
      <4> QED BY <4>1, <4>2
    <3> QED BY <1>2, <3>3, <3>4, <3>5
  <2> QED BY <2>1, <2>2
<1> HIDE DEF at
<1>10. list \in Seq(Entries) /\ at \in 1 .. Len(list) + 1 /\ e \in Entries
  BY <1>2, <1>6
<1> DEFINE l == InsertAt(list, at, e)
<1>7. /\ l \in Seq(Entries) /\ Len(l) = Len(list) + 1
      /\ \A j \in 1 .. at - 1 : l[j] = list[j]
      /\ l[at] = e
      /\ \A j \in at + 1 .. Len(list) + 1 : l[j] = list[j - 1]
  BY <1>10, InsertAtFacts
<1> HIDE DEF l
<1>8. \A j \in 1 .. at - 1 : l[j] = list[j] /\ list[j].n < e.n
  BY <1>2, <1>6, <1>7
<1>9. \A j \in at + 1 .. Len(list) + 1 : l[j] = list[j - 1] /\ e.n < list[j - 1].n
  <2> TAKE j \in at + 1 .. Len(list) + 1
  <2>1. j - 1 \in DOMAIN list /\ at <= j - 1
    BY <1>2, <1>6
  <2> QED BY <1>6, <1>7, <2>1
<1> QED BY <1>6, <1>7, <1>8, <1>9 DEF l

\* Where the packet n stands against what is expected.
LEMMA ReadUpto ==
    ASSUME IInv, NEW n \in Packets,
           expected' = IF seen THEN expected ELSE SeqNo(n)
    PROVE  \E x \in Positions :
              /\ expected' = SeqNo(x) /\ (~seen => x = n)
              /\ seen => Upto(x)
              /\ SeqNumLT(SeqNo(n), expected') <=> n < x
<1>1. n \in Positions
  BY BoundsFacts DEF Packets, Positions
<1>2. CASE seen
  BY <1>1, <1>2, SeqNumOrder DEF IInv, Placed, Upto
<1>3. CASE ~seen
  BY <1>1, <1>3, SeqNumOrder
<1> QED BY <1>2, <1>3

LEMMA ReadPacketKeeps ==
    ASSUME IInv, NEW n \in Packets, ReadPacket(n) PROVE IInv'
<1> DEFINE e == [n |-> n, in |-> ReadInto, first |-> ~seen, uses |-> 0]
<1>1. /\ copies[n] < MaxCopies /\ copies' = [copies EXCEPT ![n] = @ + 1]
      /\ seen' = TRUE /\ expected' = IF seen THEN expected ELSE SeqNo(n)
      /\ list' = IF SeqNumLT(SeqNo(n), expected') THEN list ELSE Store(e)
      /\ stored' = IF list' = list THEN stored ELSE stored \cup {n}
      /\ savedMade' = TRUE
      /\ savedFree' = IF ReadInto = "saved" THEN list' = list ELSE savedFree
      /\ inProgress' = "none" /\ delivering' = TRUE
      /\ UNCHANGED <<kind, reading, needDelivery, scheduled, frameVars, inReader,
                     frames, misled>>
  BY DEF ReadPacket
<1>2. ReadInto \in Descriptors /\ ReadInto # "none"
  BY DEF ReadInto, FreePacket, Descriptors, IInv, TypeOK
<1>3. e \in Entries /\ e.n = n /\ e.in = ReadInto /\ e.uses = 0
  BY <1>2 DEF Entries, IInv, TypeOK
<1>4. PICK x \in Positions :
        /\ expected' = SeqNo(x) /\ (~seen => x = n)
        /\ seen => Upto(x)
        /\ SeqNumLT(SeqNo(n), expected') <=> n < x
  BY <1>1, ReadUpto
<1>5. list \in Seq(Entries) /\ DOMAIN list = 1 .. Len(list) /\ Len(list) \in Nat
  BY LenProperties DEF IInv, TypeOK
<1>6. n \in Nat /\ x \in Nat
  BY DEF Packets, Positions
<1> HIDE DEF e
<1>7. copies' \in [Packets -> 0 .. MaxCopies]
  BY <1>1, BoundsFacts DEF IInv, TypeOK
<1>8. expected' \in 0 .. NumSeqNos - 1
  BY <1>4, SeqNoValue
<1>9. OneAtATime' /\ ReaderServed' /\ FramesApart'
  BY <1>1 DEF IInv, OneAtATime, ReaderServed, Idle, FramesApart, Asked, EndOf,
              Earlier, frameVars
\* Reading into the saved descriptor means that nothing else has it.
<1>10. ReadInto = "saved" => \A i \in DOMAIN list : list[i].in # "saved"
  BY DEF ReadInto, FreePacket, IInv, Held
<1>11. ReadInto # "saved" =>
         /\ inProgress # "saved" /\ savedMade
         /\ ~savedFree <=> \E i \in DOMAIN list : list[i].in = "saved"
  BY DEF ReadInto, FreePacket, IInv, Held
<1>12. ~seen => list = <<>> /\ frames = <<>> /\ ~scheduled /\ (needDelivery => frame = <<>>)
  BY DEF IInv, Placed
<1>13. CASE list' = list
  <2>1. TypeOK'
    BY <1>1, <1>7, <1>8, <1>13 DEF IInv, TypeOK, frameVars, Descriptors
  <2>2. Held'
    BY <1>1, <1>10, <1>11, <1>13 DEF IInv, Held
  <2>3. Sorted'
    BY <1>13 DEF IInv, Sorted
  <2>4. Upto(x)'
    <3>1. HeadUsed' = HeadUsed
      BY <1>13 DEF HeadUsed
    <3>2. CASE seen
      BY <1>1, <1>4, <1>13, <3>1, <3>2 DEF Upto, Asked, EndOf, Behind, frameVars
    <3>3. CASE ~seen
      <4>1. DOMAIN list = {} /\ DOMAIN frames = {} /\ ~HeadUsed /\ (Asked => frame = <<>>)
        BY <1>12, <3>3 DEF HeadUsed, Asked
      <4> QED BY <1>1, <1>4, <1>13, <3>1, <4>1 DEF Upto, Asked, frameVars
    <3> QED BY <3>2, <3>3
  <2> QED BY <1>1, <1>9, <2>1, <2>2, <2>3, <2>4 DEF IInv, Placed
<1>14. CASE list' # list
  <2>1. x <= n /\ list' = Store(e)
    BY <1>1, <1>4, <1>6, <1>14
  <2>2. list' \in Seq(Entries) /\ Len(list') = Len(list) + 1
    BY <1>3, <1>14, <2>1, StoreFacts
  <2>3. PICK at \in 1 .. Len(list) + 1 :
          /\ list'[at] = e
          /\ \A j \in 1 .. at - 1 : list'[j] = list[j] /\ list[j].n < n
          /\ \A j \in at + 1 .. Len(list) + 1 :
                list'[j] = list[j - 1] /\ n < list[j - 1].n
    <3>1. e \in Entries /\ Store(e) # list
      BY <1>3, <1>14, <2>1
    <3>2. \E at \in 1 .. Len(list) + 1 :
            /\ Store(e)[at] = e
            /\ \A j \in 1 .. at - 1 : Store(e)[j] = list[j] /\ list[j].n < e.n
            /\ \A j \in at + 1 .. Len(list) + 1 :
                  Store(e)[j] = list[j - 1] /\ e.n < list[j - 1].n
      BY <3>1, StoreFacts, Zenon
    <3> QED BY <1>3, <2>1, <3>2
  <2>4. DOMAIN list' = 1 .. Len(list) + 1
    BY <2>2, LenProperties
  <2>5. \A j \in DOMAIN list : list[j].n \in Nat
    <3> TAKE j \in DOMAIN list
    <3>1. list[j] \in Entries
      BY <1>5, ElementOfSeq
    <3> QED BY <3>1 DEF Entries, Packets
  <2>6. ASSUME NEW j \in DOMAIN list'
        PROVE  /\ j < at => j \in DOMAIN list /\ list'[j] = list[j] /\ list[j].n < n
               /\ j = at => list'[j] = e
               /\ at < j => /\ j - 1 \in DOMAIN list /\ list'[j] = list[j - 1]
                            /\ n < list[j - 1].n
    BY <1>5, <2>3, <2>4
  <2>7. list = <<>> \/ 1 \in DOMAIN list
    BY <1>5, EmptySeq
  \* A head in use is the packet x, so that n is not before it.
  <2>8. HeadUsed => n # x /\ at # 1 /\ list[1].n = x /\ 1 \in DOMAIN list
    <3> SUFFICES ASSUME HeadUsed
                 PROVE  n # x /\ at # 1 /\ list[1].n = x /\ 1 \in DOMAIN list
      OBVIOUS
    <3>1. 1 \in DOMAIN list /\ seen
      BY <1>12, <2>7 DEF HeadUsed
    <3>2. list[1].n = x
      BY <1>4, <3>1 DEF Upto
    <3>3. 1 \in 1 .. at - 1 \/ (at = 1 /\ 2 \in at + 1 .. Len(list) + 1)
      BY <1>5, <3>1
    <3>4. CASE 1 \in 1 .. at - 1
      BY <1>6, <2>3, <3>1, <3>2, <3>4
    <3>5. CASE at = 1 /\ 2 \in at + 1 .. Len(list) + 1
      <4>1. n < list[2 - 1].n
        BY <2>3, <3>5
      <4> QED BY <1>6, <2>1, <3>2, <4>1
    <3> QED BY <3>3, <3>4, <3>5
  <2>9. ASSUME NEW j \in DOMAIN list', list'[j].uses = 1
        PROVE  j = 1 /\ HeadUsed /\ list'[1] = list[1]
    <3>1. j # at
      BY <1>3, <2>6, <2>9
    <3>2. CASE j < at
      <4>1. j \in DOMAIN list /\ list[j].uses = 1 /\ list'[j] = list[j]
        BY <2>6, <2>9, <3>2
      <4>2. j = 1
        BY <4>1 DEF IInv, Sorted
      <4> QED BY <2>7, <4>1, <4>2 DEF HeadUsed
    <3>3. CASE at < j
      <4>1. j - 1 \in DOMAIN list /\ list[j - 1].uses = 1 /\ n < list[j - 1].n
        BY <2>6, <2>9, <3>3
      <4>2. j - 1 = 1
        BY <4>1 DEF IInv, Sorted
      <4>3. HeadUsed /\ n < list[1].n
        BY <2>7, <4>1, <4>2 DEF HeadUsed
      <4> QED BY <1>6, <2>1, <2>8, <4>3
    <3> QED BY <2>4, <3>1, <3>2, <3>3
  <2>10. Sorted'
    <3>1. ASSUME NEW i \in DOMAIN list', NEW j \in DOMAIN list', i < j
          PROVE  list'[i].n < list'[j].n
      <4>1. CASE j < at
        BY <2>6, <3>1, <4>1, <2>4 DEF IInv, Sorted
      <4>2. CASE j = at
        BY <1>3, <2>4, <2>6, <3>1, <4>2
      <4>3. CASE at < j /\ i = at
        BY <1>3, <2>6, <4>3
      <4>4. CASE at < j /\ i < at
        <5>1. list[i].n < n /\ n < list[j - 1].n /\ i \in DOMAIN list /\ j - 1 \in DOMAIN list
              /\ list'[i] = list[i] /\ list'[j] = list[j - 1]
          BY <2>6, <4>4
        <5>2. list[i].n \in Nat /\ list[j - 1].n \in Nat
          BY <2>5, <5>1
        <5> QED BY <1>6, <5>1, <5>2
      <4>5. CASE at < i
        <5>1. /\ i - 1 \in DOMAIN list /\ j - 1 \in DOMAIN list /\ i - 1 < j - 1
              /\ list'[i] = list[i - 1] /\ list'[j] = list[j - 1]
          BY <2>4, <2>6, <3>1, <4>5
        <5> QED BY <5>1 DEF IInv, Sorted
      <4> QED BY <2>4, <4>1, <4>2, <4>3, <4>4, <4>5
    <3> QED BY <2>9, <3>1 DEF Sorted
  <2>11. HeadUsed' <=> HeadUsed
    <3>1. 1 \in DOMAIN list' /\ list' # <<>>
      BY <1>5, <2>2, <2>4
    <3>2. HeadUsed => list'[1] = list[1]
      BY <2>4, <2>6, <2>8, <3>1
    <3> QED BY <2>9, <3>1, <3>2 DEF HeadUsed
  <2>12. HeadUsed => list'[1].n = x
    BY <1>5, <2>4, <2>6, <2>8
  <2>13. \A j \in DOMAIN list' : x <= list'[j].n
    <3> TAKE j \in DOMAIN list'
    <3>1. CASE j = at
      BY <1>3, <2>1, <2>6, <3>1
    <3>2. CASE j < at
      <4>1. j \in DOMAIN list /\ list'[j] = list[j]
        BY <2>6, <3>2
      <4>2. seen
        BY <1>12, <4>1
      <4> QED BY <1>4, <4>1, <4>2 DEF Upto
    <3>3. CASE at < j
      <4>1. j - 1 \in DOMAIN list /\ list'[j] = list[j - 1]
        BY <2>6, <3>3
      <4>2. seen
        BY <1>12, <4>1
      <4> QED BY <1>4, <4>1, <4>2 DEF Upto
    <3> QED BY <2>4, <3>1, <3>2, <3>3
  <2>14. Upto(x)'
    <3>1. CASE seen
      BY <1>1, <1>4, <2>11, <2>12, <2>13, <3>1 DEF Upto, Asked, EndOf, Behind, frameVars
    <3>2. CASE ~seen
      <4>1. DOMAIN frames = {} /\ ~HeadUsed /\ (Asked => frame = <<>>)
        BY <1>12, <3>2 DEF HeadUsed, Asked
      <4> QED BY <1>1, <1>4, <2>11, <2>13, <4>1 DEF Upto, Asked, frameVars
    <3> QED BY <3>1, <3>2
  <2>15. Held'
    <3>1. \A j \in DOMAIN list' : list'[j].in = "saved" =>
            \/ j = at /\ ReadInto = "saved"
            \/ j < at /\ j \in DOMAIN list /\ list[j].in = "saved"
            \/ at < j /\ j - 1 \in DOMAIN list /\ list[j - 1].in = "saved"
      BY <1>3, <2>4, <2>6
    <3>2. CASE ReadInto = "saved"
      <4>1. \A j \in DOMAIN list' : list'[j].in = "saved" => j = at
        BY <1>10, <3>1, <3>2
      <4>2. at \in DOMAIN list' /\ list'[at].in = "saved"
        BY <1>3, <2>3, <2>4, <3>2
      <4> QED BY <1>1, <1>14, <3>2, <4>1, <4>2 DEF Held
    <3>3. CASE ReadInto # "saved"
      <4>1. ASSUME NEW i \in DOMAIN list', NEW j \in DOMAIN list',
                   list'[i].in = "saved", list'[j].in = "saved"
            PROVE  i = j
        <5> DEFINE old(k) == IF k < at THEN k ELSE k - 1
        <5>1. /\ old(i) \in DOMAIN list /\ list[old(i)].in = "saved" /\ i # at
              /\ old(j) \in DOMAIN list /\ list[old(j)].in = "saved" /\ j # at
          BY <2>4, <3>1, <3>3, <4>1
        <5>2. old(i) = old(j)
          BY <5>1 DEF IInv, Held
        <5> QED BY <2>4, <5>1, <5>2
      <4>2. ASSUME NEW i \in DOMAIN list, list[i].in = "saved"
            PROVE  \E j \in DOMAIN list' : list'[j].in = "saved"
        <5>1. CASE i < at
          BY <1>5, <2>4, <2>6, <4>2, <5>1
        <5>2. CASE at <= i
          <6>1. /\ i + 1 \in DOMAIN list' /\ at < i + 1 /\ (i + 1) - 1 = i
            BY <1>5, <2>4, <5>2
          <6> QED BY <2>6, <4>2, <6>1
        <5> QED BY <1>5, <5>1, <5>2
      <4>3. (\E j \in DOMAIN list' : list'[j].in = "saved")
              <=> \E i \in DOMAIN list : list[i].in = "saved"
        BY <3>1, <3>3, <4>2
      <4> QED BY <1>1, <1>11, <3>3, <4>1, <4>3 DEF Held
    <3> QED BY <3>2, <3>3
  <2>16. TypeOK'
    BY <1>1, <1>7, <1>8, <2>2 DEF IInv, TypeOK, frameVars, Descriptors
  <2> QED BY <1>1, <1>9, <2>10, <2>14, <2>15, <2>16 DEF IInv, Placed
<1> QED BY <1>13, <1>14

-----------------------------------------------------------------------------
(* The theorems.                                                           *)

LEMMA NextIInv == IInv /\ [Next]_vars => IInv'
<1> SUFFICES ASSUME IInv, [Next]_vars PROVE IInv'
  OBVIOUS
<1>1. CASE UNCHANGED vars
  <2>1. TypeOK' /\ Held' /\ OneAtATime' /\ ReaderServed'
    BY <1>1 DEF vars, netVars, bufferVars, frameVars, IInv, TypeOK, Held, OneAtATime,
                ReaderServed, Idle, Gap, Next1
  <2> QED BY <1>1, <2>1, OrderKept DEF vars, netVars, bufferVars, frameVars, IInv
<1>2. ASSUME NEW k \in Kinds, Send(k) PROVE IInv'
  BY <1>2, SendKeeps
<1>3. ASSUME NEW n \in Packets, ReadPacket(n) PROVE IInv'
  BY <1>3, ReadPacketKeeps
<1>4. ASSUME NEW loss \in BOOLEAN,
             RejectEmpty(loss) \/ RejectFragment(loss) \/ UsePacket(loss)
      PROVE  IInv'
  BY <1>4, RejectEmptyKeeps, RejectFragmentKeeps, UsePacketKeeps
<1>5. CASE ReadPart \/ ReadBad \/ LoopEnds \/ RunTask
  BY <1>5, ReadPartKeeps, ReadBadKeeps, LoopEndsKeeps, RunTaskKeeps
<1>6. CASE GetNextFrame \/ ReaderReturns \/ StopGettingFrames
  BY <1>6, GetNextFrameKeeps, ReaderReturnsKeeps, StopGettingFramesKeeps
<1> QED BY <1>1, <1>2, <1>3, <1>4, <1>5, <1>6 DEF Next

LEMMA Invariant == Spec => []IInv
  BY InitIInv, NextIInv, PTL DEF Spec

\* For any numbers, bounds and order of the packets: the saved descriptor is in
\* use exactly when one packet is in it, and a reader that waits, with the
\* thread in the event loop, waits for a packet that is not there.
THEOREM BufferSound == Spec => []Sound
<1>1. IInv => Sound
  <2> SUFFICES ASSUME IInv PROVE Sound
    OBVIOUS
  <2> DEFINE holders == {i \in DOMAIN list : list[i].in = "saved"}
  <2>1. holders = {} \/ \E i \in DOMAIN list : holders = {i}
    BY DEF IInv, Held
  <2>2. Cardinality({}) = 0 /\ \A i \in DOMAIN list : Cardinality({i}) = 1
    BY FS_EmptySet, FS_Singleton
  <2>3. Cardinality(holders) = IF holders = {} THEN 0 ELSE 1
    BY <2>1, <2>2
  <2>4. /\ inProgress = "saved" => holders = {}
        /\ savedMade /\ ~savedFree <=> (inProgress = "saved" \/ holders # {})
    BY DEF IInv, Held
  <2>5. SavedPacketOnce
    <3> HIDE DEF holders
    <3>1. Cardinality(holders) + (IF inProgress = "saved" THEN 1 ELSE 0)
            = IF savedMade /\ ~savedFree THEN 1 ELSE 0
      BY <2>3, <2>4
    <3> QED BY <3>1 DEF SavedPacketOnce, holders
  <2> QED BY <2>5 DEF IInv, Sound
<1> QED BY <1>1, Invariant, PTL

\* However packets are reordered, lost or repeated, by less than half of the
\* sequence numbers, frames reach the reader in the order they were sent, none
\* twice.
THEOREM Ordered == Spec => []FramesInOrder
<1>1. IInv => FramesInOrder
  <2> SUFFICES ASSUME IInv, NEW i \in DOMAIN frames, NEW j \in DOMAIN frames, i < j
               PROVE  Earlier(Last(frames[i].parts), Head(frames[j].parts))
    BY DEF FramesInOrder
  <2>1. Earlier(EndOf(frames[i].parts), frames[j].parts[1]) /\ frames[j].parts # <<>>
    BY DEF IInv, FramesApart
  <2>2. frames \in Seq(FrameRecords) /\ DOMAIN frames = 1 .. Len(frames)
    BY LenProperties DEF IInv, TypeOK, FrameRecords
  <2>3. frames[j] \in FrameRecords
    BY <2>2, ElementOfSeq
  <2>4. frames[j].parts \in Seq(FrameParts)
    BY <2>3 DEF FrameRecords
  <2>5. Head(frames[j].parts) = frames[j].parts[1]
    BY <2>1, <2>4
  <2> QED BY <2>1, <2>5 DEF Earlier, EndOf, Last
<1> QED BY <1>1, Invariant, PTL

-----------------------------------------------------------------------------
(* The parts of a frame.                                                   *)

LEMMA FirstPart ==
    ASSUME NEW p
    PROVE  IsReadOf([parts |-> <<p>>, truncated |-> FALSE], {p})
<1> DEFINE r == [parts |-> <<p>>, truncated |-> FALSE]
<1>1. r.parts = <<p>> /\ r.truncated = FALSE /\ DOMAIN <<p>> = {1} /\ <<p>>[1] = p
  OBVIOUS
<1> HIDE DEF r
<1>2. Range(r.parts) = {p}
  BY <1>1 DEF Range
<1> QED BY <1>1, <1>2 DEF IsReadOf, r

\* A part that comes after those there are is added, or is the first for which
\* there is no room.
LEMMA NextPart ==
    ASSUME NEW s \in Seq(FrameParts), Len(s) <= MaxSize, NEW t \in BOOLEAN,
           NEW P, P \subseteq FrameParts, IsReadOf([parts |-> s, truncated |-> t], P),
           NEW p \in FrameParts, \A q \in P : Earlier(q, p)
    PROVE  LET full == Len(s) = MaxSize IN
           IsReadOf([parts |-> IF full THEN s ELSE Append(s, p), truncated |-> full],
                    P \cup {p})
<1> DEFINE full == Len(s) = MaxSize
           a == IF full THEN s ELSE Append(s, p)
           r == [parts |-> a, truncated |-> full]
<1>1. /\ s # <<>> /\ Range(s) \subseteq P
      /\ \A i, j \in DOMAIN s : i < j => Earlier(s[i], s[j])
      /\ \A q \in P \ Range(s) : full /\ \A u \in Range(s) : Earlier(u, q)
      /\ t <=> P \ Range(s) # {}
  BY DEF IsReadOf
<1>2. ~Earlier(p, p)
  BY DEF FrameParts, Packets, Earlier
<1>3. p \notin P
  BY <1>2
<1>4. Len(s) \in Nat /\ DOMAIN s = 1 .. Len(s)
  BY LenProperties
<1>5. ASSUME full PROVE IsReadOf(r, P \cup {p})
  <2>1. a = s
    BY <1>5
  <2>2. r.parts = s /\ r.truncated = TRUE
    BY <1>5, <2>1
  <2> HIDE DEF r, a
  <2>3. (P \cup {p}) \ Range(s) = (P \ Range(s)) \cup {p}
    BY <1>1, <1>3
  <2>4. \A u \in Range(s) : Earlier(u, p)
    BY <1>1
  <2>5. (P \cup {p}) \ Range(s) # {} /\ Range(s) \subseteq P \cup {p}
    BY <1>1, <2>3
  <2> QED BY <1>1, <1>5, <2>2, <2>3, <2>4, <2>5 DEF IsReadOf
<1>6. ASSUME ~full PROVE IsReadOf(r, P \cup {p})
  <2>1. a = Append(s, p)
    BY <1>6
  <2>2. /\ a \in Seq(FrameParts) /\ Len(a) = Len(s) + 1
        /\ \A i \in 1 .. Len(s) : a[i] = s[i]
        /\ a[Len(s) + 1] = p
    BY <2>1, AppendProperties
  <2>3. DOMAIN a = 1 .. Len(s) + 1
    BY <2>2, LenProperties
  <2>4. r.parts = a /\ r.truncated = FALSE
    BY <1>6
  <2> HIDE DEF r, a
  <2>5. Range(a) = Range(s) \cup {p}
    BY <1>4, <2>2, <2>3 DEF Range
  <2>6. (P \cup {p}) \ Range(a) = {}
    BY <1>1, <1>6, <2>5
  <2>7. ASSUME NEW i \in DOMAIN a, NEW j \in DOMAIN a, i < j
        PROVE  Earlier(a[i], a[j])
    <3>1. i \in DOMAIN s /\ a[i] = s[i]
      BY <1>4, <2>2, <2>3, <2>7
    <3>2. CASE j \in DOMAIN s
      BY <1>1, <1>4, <2>2, <2>7, <3>1, <3>2
    <3>3. CASE j = Len(s) + 1
      <4>1. s[i] \in P
        BY <1>1, <3>1 DEF Range
      <4> QED BY <2>2, <3>1, <3>3, <4>1
    <3> QED BY <1>4, <2>3, <3>2, <3>3
  <2>8. a # <<>>
    BY <1>4, <2>2
  <2> QED BY <1>1, <2>4, <2>5, <2>6, <2>7, <2>8 DEF IsReadOf
<1> QED BY <1>5, <1>6 DEF a, r

\* What one more packet adds to a frame.
LEMMA PartsOfNext ==
    ASSUME NEW b \in Packets, NEW n \in Packets, b < n
    PROVE  /\ PartsOf(b, n) = IF kind[n] = "empty" THEN PartsOf(b, n - 1)
                              ELSE PartsOf(b, n - 1) \cup {<<n, 1>>}
           /\ PartsOf(b, n - 1) \subseteq FrameParts
           /\ \A q \in PartsOf(b, n - 1) : Earlier(q, <<n, 1>>)
<1>1. b \in Nat /\ n \in Nat /\ 1 <= b /\ n <= MaxPackets /\ MaxPackets \in Nat
  BY BoundsFacts DEF Packets
<1>2. b .. n = (b .. n - 1) \cup {n}
  BY <1>1
<1>3. PartsOf(b, n) = IF kind[n] = "empty" THEN PartsOf(b, n - 1)
                      ELSE PartsOf(b, n - 1) \cup {<<n, 1>>}
  BY <1>2 DEF PartsOf
<1>4. ASSUME NEW q \in PartsOf(b, n - 1)
      PROVE  q \in FrameParts /\ Earlier(q, <<n, 1>>)
  <2>1. PICK m \in b .. n - 1 : q = <<m, 1>>
    BY DEF PartsOf
  <2> QED BY <1>1, <2>1 DEF FrameParts, Packets, Earlier
<1> QED BY <1>3, <1>4

LEMMA PartsOfOne ==
    ASSUME NEW n \in Packets, kind[n] # "empty"
    PROVE  PartsOf(n, n) = {<<n, 1>>}
<1>1. n .. n = {n}
  BY DEF Packets
<1> QED BY <1>1 DEF PartsOf

-----------------------------------------------------------------------------
(* Whole frames: the inductive invariant.                                  *)

\* A frame with these parts was delivered, or is about to be.
Got(parts) ==
    \/ \E i \in DOMAIN frames : IsReadOf(frames[i], parts)
    \/ scheduled /\ IsReadOf(Copy, parts)

\* The reader's buffer holds what came before x of the frame that began with b.
Holding(b, x) == needDelivery /\ IsReadOf(Copy, PartsOf(b, x - 1))

\* Fragments belong to a frame that has begun, and nothing else comes within one.
Disciplined ==
    \A e \in DOMAIN kind :
        /\ kind[e] \in {"middle", "end"} => \E b \in DOMAIN kind : Begun(b, e)
        /\ kind[e] \in {"single", "pair", "begin"} => ~ \E b \in DOMAIN kind : Begun(b, e)

\* What is expected next, x, was not stored and taken before; the packet that is
\* known to be the first is that one.
StoredUpto(x) ==
    /\ x <= Len(kind) + 1
    /\ \A m \in stored : m < x \/ \E i \in DOMAIN list : list[i].n = m
    /\ \A i \in DOMAIN list : list[i].first => list[i].n = x /\ \A m \in stored : x <= m

\* In the midst of a frame the source holds its beginning, or knows that it has
\* lost a part, or will, for nothing came before; what is complete was given.
Followed(x) ==
    /\ \A b \in DOMAIN kind : Begun(b, x) =>
          lossInFrame \/ Holding(b, x) \/ \E i \in DOMAIN list : list[i].first
    /\ needDelivery /\ frame # <<>> /\ ~lossInFrame => \E b \in DOMAIN kind : Begun(b, x)
    /\ \A b \in DOMAIN kind : Begun(b, x) /\ b .. x - 1 \subseteq stored =>
          Holding(b, x) /\ ~lossInFrame
    /\ HeadUsed => kind[x] = "pair" /\ Got({<<x, 1>>})
    /\ \A f \in SenderFrames : f.e < x /\ f.b .. f.e \subseteq stored => Got(f.parts)

AllRead ==
    /\ \A i \in DOMAIN frames : \E f \in SenderFrames : IsReadOf(frames[i], f.parts)
    /\ scheduled => \E f \in SenderFrames : IsReadOf(Copy, f.parts)

\* The parts of the invariant that hold while the source stands at x.
At(x) == expected = SeqNo(x) /\ StoredUpto(x) /\ (~misled => Followed(x))

FrameInv ==
    /\ IInv /\ Disciplined
    /\ \A i \in DOMAIN list : list[i].n <= Len(kind)
    /\ stored \subseteq Packets /\ (~seen => stored = {})
    /\ seen => \E x \in Positions : Upto(x) /\ At(x)
    /\ ~misled => AllRead

LEMMA FrameFacts ==
    ASSUME FrameInv
    PROVE  /\ kind \in Seq(Kinds) /\ Len(kind) \in Nat /\ Len(kind) <= MaxPackets
           /\ DOMAIN kind = 1 .. Len(kind) /\ DOMAIN kind \subseteq Packets
           /\ \A n \in DOMAIN kind : kind[n] \in Kinds
           /\ list \in Seq(Entries) /\ DOMAIN list = 1 .. Len(list) /\ Len(list) \in Nat
           /\ \A i \in DOMAIN list : list[i] \in Entries /\ list[i].n \in Nat
           /\ frame \in Seq(FrameParts) /\ Len(frame) <= MaxSize /\ truncated \in BOOLEAN
           /\ frames \in Seq(FrameRecords) /\ lossInFrame \in BOOLEAN
           /\ \A x \in Positions : x \in Nat
<1>1. /\ kind \in Seq(Kinds) /\ Len(kind) <= MaxPackets /\ list \in Seq(Entries)
      /\ frame \in Seq(FrameParts) /\ Len(frame) <= MaxSize /\ truncated \in BOOLEAN
      /\ frames \in Seq(FrameRecords) /\ lossInFrame \in BOOLEAN
  BY DEF FrameInv, IInv, TypeOK, FrameRecords
<1>2. /\ Len(kind) \in Nat /\ DOMAIN kind = 1 .. Len(kind)
      /\ Len(list) \in Nat /\ DOMAIN list = 1 .. Len(list)
  BY <1>1, LenProperties
<1>3. \A n \in DOMAIN kind : kind[n] \in Kinds
  BY <1>1, <1>2, ElementOfSeq
<1>4. ASSUME NEW i \in DOMAIN list PROVE list[i] \in Entries /\ list[i].n \in Nat
  <2>1. list[i] \in Entries
    BY <1>1, <1>2, ElementOfSeq
  <2> QED BY <2>1 DEF Entries, Packets
<1>5. DOMAIN kind \subseteq Packets
  BY <1>1, <1>2, BoundsFacts DEF Packets
<1> QED BY <1>1, <1>2, <1>3, <1>4, <1>5 DEF Positions

\* The frames of the sender, one by one.
IsSenderFrame(f) ==
    \/ \E n \in DOMAIN kind :
          kind[n] \in {"single", "pair"} /\ f = [b |-> n, e |-> n, parts |-> {<<n, 1>>}]
    \/ \E n \in DOMAIN kind :
          kind[n] = "pair" /\ f = [b |-> n, e |-> n, parts |-> {<<n, 2>>}]
    \/ \E b, e \in DOMAIN kind :
          /\ Begun(b, e) /\ kind[e] = "end"
          /\ f = [b |-> b, e |-> e, parts |-> PartsOf(b, e)]

LEMMA FrameKinds == \A f : f \in SenderFrames <=> IsSenderFrame(f)
<1> TAKE f
<1> DEFINE first == {[b |-> n, e |-> n, parts |-> {<<n, 1>>}] :
                        n \in {m \in DOMAIN kind : kind[m] \in {"single", "pair"}}}
           second == {[b |-> n, e |-> n, parts |-> {<<n, 2>>}] :
                        n \in {m \in DOMAIN kind : kind[m] = "pair"}}
           of(b) == {[b |-> b, e |-> e, parts |-> PartsOf(b, e)] :
                        e \in {m \in DOMAIN kind : Begun(b, m) /\ kind[m] = "end"}}
<1>1. SenderFrames = (first \cup second) \cup UNION {of(b) : b \in DOMAIN kind}
  BY DEF SenderFrames
<1>2. f \in first <=> \E n \in DOMAIN kind :
         kind[n] \in {"single", "pair"} /\ f = [b |-> n, e |-> n, parts |-> {<<n, 1>>}]
  OBVIOUS
<1>3. f \in second <=> \E n \in DOMAIN kind :
         kind[n] = "pair" /\ f = [b |-> n, e |-> n, parts |-> {<<n, 2>>}]
  OBVIOUS
<1>4. ASSUME NEW b \in DOMAIN kind
      PROVE  f \in of(b) <=> \E e \in DOMAIN kind :
                /\ Begun(b, e) /\ kind[e] = "end"
                /\ f = [b |-> b, e |-> e, parts |-> PartsOf(b, e)]
  OBVIOUS
<1> HIDE DEF first, second, of
<1>5. f \in UNION {of(b) : b \in DOMAIN kind} <=> \E b \in DOMAIN kind : f \in of(b)
  OBVIOUS
<1> QED BY <1>1, <1>2, <1>3, <1>4, <1>5 DEF IsSenderFrame

LEMMA FrameKindsNext == \A f : f \in SenderFrames' <=> IsSenderFrame(f)'
<1>1. (\A f : f \in SenderFrames <=> IsSenderFrame(f))'
  BY FrameKinds, PTL
<1> QED BY <1>1

LEMMA FrameEnds ==
    ASSUME NEW f \in SenderFrames, DOMAIN kind \subseteq Nat
    PROVE  f.b \in DOMAIN kind /\ f.e \in DOMAIN kind /\ f.b <= f.e
  BY FrameKinds DEF IsSenderFrame, Begun

\* All that the sender's frames are made of is in kind.
LEMMA SameKind ==
    ASSUME kind' = kind
    PROVE  /\ SenderFrames' = SenderFrames /\ (Disciplined => Disciplined')
           /\ \A b, x : Begun(b, x)' <=> Begun(b, x)
           /\ \A b, e : PartsOf(b, e)' = PartsOf(b, e)
  BY DEF SenderFrames, Disciplined, Begun, PartsOf

LEMMA FrameInvFrom ==
    ASSUME IInv', Disciplined', \A i \in DOMAIN list' : list'[i].n <= Len(kind'),
           stored' \subseteq Packets, ~seen' => stored' = {},
           NEW x \in Positions, seen' => At(x)', ~misled' => AllRead'
    PROVE  FrameInv'
<1>1. ASSUME seen' PROVE Upto(x)'
  <2>1. PICK y \in Positions : Upto(y)'
    BY <1>1 DEF IInv, Placed
  <2>2. expected' = SeqNo(y)
    BY <2>1 DEF Upto
  <2>3. expected' = SeqNo(x)
    BY <1>1 DEF At
  <2>4. x = y
    BY <2>2, <2>3, SeqNumOrder
  <2> QED BY <2>1, <2>4
<1> QED BY <1>1 DEF FrameInv

\* Where the source stands.
LEMMA Stands ==
    ASSUME FrameInv
    PROVE  \E x \in Positions : seen => Upto(x) /\ At(x)
<1>1. 1 \in Positions
  BY BoundsFacts DEF Positions
<1> QED BY <1>1 DEF FrameInv

\* Steps that touch nothing of that.
LEMMA QuietKeeps ==
    ASSUME FrameInv, IInv',
           UNCHANGED <<kind, list, seen, expected, lossInFrame, frame, truncated, frames,
                       stored, misled, needDelivery, scheduled>>
    PROVE  FrameInv'
<1>1. PICK x \in Positions : seen => Upto(x) /\ At(x)
  BY Stands
<1>2. seen => At(x)'
  <2>1. StoredUpto(x) => StoredUpto(x)'
    BY DEF StoredUpto
  <2>2. Followed(x) => Followed(x)'
    BY SameKind DEF Followed, Holding, Got, HeadUsed, Copy
  <2> QED BY <1>1, <2>1, <2>2 DEF At
<1>3. AllRead => AllRead'
  BY SameKind DEF AllRead, Copy
<1> QED BY <1>2, <1>3, SameKind, FrameInvFrom DEF FrameInv

LEMMA InitFrameInv == Init => FrameInv
<1> SUFFICES ASSUME Init PROVE FrameInv
  OBVIOUS
<1>1. DOMAIN kind = {} /\ DOMAIN list = {} /\ DOMAIN frames = {}
  BY DEF Init
<1> QED BY <1>1, InitIInv DEF Init, FrameInv, Disciplined, AllRead

\* A new request: nothing is held, and of what is expected nothing was.
LEMMA GetNextFrameFollows ==
    ASSUME FrameInv, IInv', GetNextFrame PROVE FrameInv'
<1> USE DEF GetNextFrame, netVars, bufferVars
<1>1. PICK x \in Positions : seen => Upto(x) /\ At(x)
  BY Stands
<1>2. \A P : Got(P)' <=> Got(P)
  BY DEF Got
<1>3. ASSUME seen PROVE At(x)'
  <2>1. StoredUpto(x)'
    BY <1>1, <1>3 DEF StoredUpto, At
  <2>2. ASSUME ~misled PROVE Followed(x)'
    <3>1. Followed(x) /\ ~needDelivery
      BY <1>1, <1>3, <2>2 DEF At
    <3>2. HeadUsed' <=> HeadUsed
      BY DEF HeadUsed
    <3> QED BY <1>2, <3>1, <3>2, SameKind DEF Followed, Holding
  <2> QED BY <1>1, <1>3, <2>1, <2>2 DEF At
<1>4. AllRead => AllRead'
  BY SameKind DEF AllRead
<1> QED BY <1>3, <1>4, SameKind, FrameInvFrom DEF FrameInv

LEMMA StopGettingFramesFollows ==
    ASSUME FrameInv, IInv', StopGettingFrames PROVE FrameInv'
<1> USE DEF StopGettingFrames, netVars
<1>1. PICK x \in Positions : seen => Upto(x) /\ At(x)
  BY Stands
<1>2. DOMAIN list' = {} /\ DOMAIN frames' = {}
  OBVIOUS
<1>3. AllRead'
  BY <1>2 DEF AllRead
<1> QED BY <1>2, <1>3, SameKind, FrameInvFrom DEF FrameInv

\* The sender sends: what it sent before is as it was.
LEMMA SendFacts ==
    ASSUME FrameInv, NEW k \in Kinds, Send(k)
    PROVE  LET N == Len(kind) IN
           /\ DOMAIN kind' = 1 .. N + 1 /\ Len(kind') = N + 1 /\ kind'[N + 1] = k
           /\ \A n \in 1 .. N : kind'[n] = kind[n]
           /\ \A b \in 1 .. N + 1, x \in 1 .. N + 1 :
                 Begun(b, x)' <=> b \in DOMAIN kind /\ Begun(b, x)
           /\ \A b \in 1 .. N, e \in 0 .. N : PartsOf(b, e)' = PartsOf(b, e)
<1> DEFINE N == Len(kind)
<1>1. kind \in Seq(Kinds) /\ N \in Nat /\ DOMAIN kind = 1 .. N /\ kind' = Append(kind, k)
  BY FrameFacts DEF Send
<1>2. /\ kind' \in Seq(Kinds) /\ Len(kind') = N + 1 /\ kind'[N + 1] = k
      /\ \A n \in 1 .. N : kind'[n] = kind[n]
  BY <1>1, AppendProperties
<1>3. DOMAIN kind' = 1 .. N + 1
  BY <1>2, LenProperties
<1> HIDE DEF N
<1>4. ASSUME NEW b \in 1 .. N + 1, NEW x \in 1 .. N + 1
      PROVE  Begun(b, x)' <=> b \in DOMAIN kind /\ Begun(b, x)
  <2>1. CASE b < x
    <3>1. b \in 1 .. N /\ \A n \in b + 1 .. x - 1 : n \in 1 .. N
      BY <1>1, <2>1
    <3> QED BY <1>1, <1>2, <3>1 DEF Begun
  <2>2. CASE ~(b < x)
    BY <2>2 DEF Begun
  <2> QED BY <2>1, <2>2
<1>5. ASSUME NEW b \in 1 .. N, NEW e \in 0 .. N
      PROVE  PartsOf(b, e)' = PartsOf(b, e)
  <2>1. \A m \in b .. e : m \in 1 .. N
    BY <1>1
  <2>2. {m \in b .. e : kind'[m] # "empty"} = {m \in b .. e : kind[m] # "empty"}
    BY <1>2, <2>1
  <2> QED BY <2>2 DEF PartsOf
<1> QED BY <1>1, <1>2, <1>3, <1>4, <1>5 DEF N

LEMMA SendFrames ==
    ASSUME FrameInv, NEW k \in Kinds, Send(k)
    PROVE  /\ SenderFrames \subseteq SenderFrames'
           /\ \A f \in SenderFrames' : f.e <= Len(kind) => f \in SenderFrames
<1> DEFINE N == Len(kind)
<1>1. N \in Nat /\ DOMAIN kind = 1 .. N /\ DOMAIN kind' = 1 .. N + 1
      /\ \A n \in 1 .. N : kind'[n] = kind[n]
  BY FrameFacts, SendFacts
<1>2. \A b \in 1 .. N + 1, x \in 1 .. N + 1 :
         Begun(b, x)' <=> b \in DOMAIN kind /\ Begun(b, x)
  BY SendFacts
<1>3. \A b \in 1 .. N, e \in 0 .. N : PartsOf(b, e)' = PartsOf(b, e)
  BY SendFacts
<1> HIDE DEF N
<1>4. ASSUME NEW f \in SenderFrames PROVE f \in SenderFrames'
  <2>1. IsSenderFrame(f)
    BY FrameKinds
  <2>2. IsSenderFrame(f)'
    BY <1>1, <1>2, <1>3, <2>1 DEF IsSenderFrame
  <2> QED BY <2>2, FrameKindsNext
<1>5. ASSUME NEW f \in SenderFrames', f.e <= N PROVE f \in SenderFrames
  <2>1. IsSenderFrame(f)'
    BY FrameKindsNext
  <2>2. CASE \E n \in DOMAIN kind' : kind'[n] \in {"single", "pair"}
                                     /\ f = [b |-> n, e |-> n, parts |-> {<<n, 1>>}]
    BY <1>1, <1>5, <2>2, FrameKinds DEF IsSenderFrame
  <2>3. CASE \E n \in DOMAIN kind' : kind'[n] = "pair"
                                     /\ f = [b |-> n, e |-> n, parts |-> {<<n, 2>>}]
    BY <1>1, <1>5, <2>3, FrameKinds DEF IsSenderFrame
  <2>4. CASE \E b, e \in DOMAIN kind' : /\ Begun(b, e)' /\ kind'[e] = "end"
                                        /\ f = [b |-> b, e |-> e, parts |-> PartsOf(b, e)']
    <3>1. PICK b \in DOMAIN kind', e \in DOMAIN kind' :
            /\ Begun(b, e)' /\ kind'[e] = "end"
            /\ f = [b |-> b, e |-> e, parts |-> PartsOf(b, e)']
      BY <2>4
    <3>2. e \in 1 .. N
      BY <1>1, <1>5, <3>1
    <3>3. b \in 1 .. N /\ Begun(b, e)
      BY <1>1, <1>2, <3>1
    <3> QED BY <1>1, <1>3, <3>1, <3>2, <3>3, FrameKinds DEF IsSenderFrame
  <2> QED BY <2>1, <2>2, <2>3, <2>4 DEF IsSenderFrame
<1> QED BY <1>4, <1>5 DEF N

LEMMA SendFollows ==
    ASSUME FrameInv, IInv', NEW k \in Kinds, Send(k) PROVE FrameInv'
<1> DEFINE N == Len(kind)
<1>1. /\ N \in Nat /\ DOMAIN kind = 1 .. N /\ DOMAIN kind' = 1 .. N + 1
      /\ Len(kind') = N + 1 /\ kind'[N + 1] = k
      /\ \A n \in 1 .. N : kind'[n] = kind[n]
      /\ \A b \in 1 .. N + 1, x \in 1 .. N + 1 :
            Begun(b, x)' <=> b \in DOMAIN kind /\ Begun(b, x)
      /\ \A b \in 1 .. N, e \in 0 .. N : PartsOf(b, e)' = PartsOf(b, e)
  BY FrameFacts, SendFacts
<1>2. /\ k \in {"middle", "end"} => \E b \in DOMAIN kind : Begun(b, N + 1)
      /\ k \in {"single", "pair", "begin"} => ~ \E b \in DOMAIN kind : Begun(b, N + 1)
  BY DEF Send, InFragments
<1>3. /\ UNCHANGED <<list, seen, expected, lossInFrame, frame, truncated, frames,
                     stored, misled, needDelivery, scheduled>>
  BY DEF Send, bufferVars, frameVars
<1>4. PICK x \in Positions : seen => Upto(x) /\ At(x)
  BY Stands
<1>5. x \in Nat /\ 1 <= x
  BY DEF Positions
<1> HIDE DEF N
<1>6. Disciplined'
  <2>1. ASSUME NEW e \in 1 .. N + 1
        PROVE  /\ kind'[e] \in {"middle", "end"} => \E b \in DOMAIN kind' : Begun(b, e)'
               /\ kind'[e] \in {"single", "pair", "begin"} =>
                     ~ \E b \in DOMAIN kind' : Begun(b, e)'
    <3>1. (\E b \in DOMAIN kind' : Begun(b, e)') <=> \E b \in DOMAIN kind : Begun(b, e)
      BY <1>1
    <3>2. CASE e = N + 1
      BY <1>1, <1>2, <3>1, <3>2
    <3>3. CASE e \in 1 .. N
      <4>1. /\ kind[e] \in {"middle", "end"} => \E b \in DOMAIN kind : Begun(b, e)
            /\ kind[e] \in {"single", "pair", "begin"} => ~ \E b \in DOMAIN kind : Begun(b, e)
        BY <1>1, <3>3 DEF FrameInv, Disciplined
      <4> QED BY <1>1, <3>1, <3>3, <4>1
    <3> QED BY <1>1, <3>2, <3>3
  <2> QED BY <1>1, <2>1 DEF Disciplined
<1>7. \A P : Got(P)' <=> Got(P)
  BY <1>3 DEF Got, Copy
<1>8. ASSUME seen PROVE At(x)'
  <2>1. StoredUpto(x) /\ x <= N + 1
    BY <1>4, <1>8 DEF At, StoredUpto, N
  <2>2. StoredUpto(x)'
    BY <1>1, <1>3, <1>5, <2>1 DEF StoredUpto
  <2>3. ASSUME ~misled PROVE Followed(x)'
    <3>1. Followed(x)
      BY <1>4, <1>8, <2>3 DEF At
    <3>2. x \in 1 .. N + 1
      BY <1>1, <1>5, <2>1
    <3>3. \A b : b \in DOMAIN kind' /\ Begun(b, x)' <=> b \in DOMAIN kind /\ Begun(b, x)
      BY <1>1, <3>2
    <3>4. \A b \in DOMAIN kind : Holding(b, x)' <=> Holding(b, x)
      <4>1. x - 1 \in 0 .. N
        BY <1>1, <3>2
      <4>2. \A b \in DOMAIN kind : PartsOf(b, x - 1)' = PartsOf(b, x - 1)
        BY <1>1, <4>1
      <4> QED BY <1>3, <4>2 DEF Holding, Copy
    <3>5. HeadUsed' <=> HeadUsed
      BY <1>3 DEF HeadUsed
    <3>6. ASSUME NEW f \in SenderFrames', f.e < x, f.b .. f.e \subseteq stored'
          PROVE  Got(f.parts)'
      <4>1. f.e <= N
        <5>1. f.e \in Nat
          <6>1. IsSenderFrame(f)'
            BY FrameKindsNext
          <6> QED BY <1>1, <6>1 DEF IsSenderFrame
        <5> QED BY <1>1, <1>5, <2>1, <3>6, <5>1
      <4>2. f \in SenderFrames
        BY <4>1, SendFrames DEF N
      <4> QED BY <1>3, <1>7, <3>1, <3>6, <4>2 DEF Followed
    <3>7. \A b \in DOMAIN kind' : Begun(b, x)' =>
            lossInFrame' \/ Holding(b, x)' \/ \E i \in DOMAIN list' : list'[i].first
      BY <1>3, <3>1, <3>3, <3>4 DEF Followed
    <3>8. needDelivery' /\ frame' # <<>> /\ ~lossInFrame' => \E b \in DOMAIN kind' : Begun(b, x)'
      BY <1>3, <3>1, <3>3 DEF Followed
    <3>9. \A b \in DOMAIN kind' : Begun(b, x)' /\ b .. x - 1 \subseteq stored' =>
            Holding(b, x)' /\ ~lossInFrame'
      BY <1>3, <3>1, <3>3, <3>4 DEF Followed
    <3>10. HeadUsed' => kind'[x] = "pair" /\ Got({<<x, 1>>})'
      <4>1. HeadUsed => x \in 1 .. N
        <5>1. HeadUsed => 1 \in DOMAIN list /\ list[1].n = x
          BY <1>4, <1>8, EmptySeq, FrameFacts DEF HeadUsed, Upto
        <5>2. HeadUsed => x <= N
          BY <5>1 DEF FrameInv, N
        <5> QED BY <1>1, <1>5, <5>2
      <4> QED BY <1>1, <1>7, <3>1, <3>5, <4>1 DEF Followed
    <3> QED BY <3>6, <3>7, <3>8, <3>9, <3>10 DEF Followed
  <2> QED BY <1>3, <1>4, <1>8, <2>2, <2>3 DEF At
<1>9. AllRead => AllRead'
  BY <1>3, SendFrames DEF AllRead, Copy
<1>10. \A i \in DOMAIN list' : list'[i].n <= Len(kind')
  BY <1>1, <1>3, FrameFacts DEF FrameInv, N
<1> QED BY <1>3, <1>6, <1>8, <1>9, <1>10, FrameInvFrom DEF FrameInv

\* The frame on its way arrives.
LEMMA RunTaskFollows ==
    ASSUME FrameInv, IInv', RunTask PROVE FrameInv'
<1> USE DEF RunTask, netVars, bufferVars, frameVars
<1>1. PICK x \in Positions : seen => Upto(x) /\ At(x)
  BY Stands
<1>2. /\ Copy' = Copy /\ scheduled /\ ~scheduled' /\ Deliver /\ ~needDelivery
      /\ kind' = kind
  BY DEF FrameInv, IInv, OneAtATime, Copy
<1>3. frames' = Append(frames, Copy)
  BY <1>2 DEF Deliver, Copy
<1>4. /\ DOMAIN frames = 1 .. Len(frames) /\ Len(frames) \in Nat
      /\ DOMAIN frames' = 1 .. Len(frames) + 1
      /\ \A i \in DOMAIN frames : frames'[i] = frames[i]
      /\ frames'[Len(frames) + 1] = Copy
  <2>1. frames \in Seq(FrameRecords) /\ Copy \in FrameRecords
    BY FrameFacts DEF Copy, FrameRecords
  <2> HIDE DEF FrameRecords
  <2> QED BY <1>3, <2>1, AppendProperties, LenProperties
<1>5. \A P : Got(P) => Got(P)'
  <2> TAKE P
  <2>1. ASSUME Got(P) PROVE \E i \in DOMAIN frames' : IsReadOf(frames'[i], P)
    BY <1>4, <2>1 DEF Got
  <2> QED BY <2>1 DEF Got
<1>6. ASSUME seen PROVE At(x)'
  <2>1. StoredUpto(x)'
    BY <1>1, <1>6 DEF StoredUpto, At
  <2>2. ASSUME ~misled PROVE Followed(x)'
    <3>1. Followed(x)
      BY <1>1, <1>6, <2>2 DEF At
    <3>2. HeadUsed' <=> HeadUsed
      BY DEF HeadUsed
    <3>3. ~Holding(0, x) /\ \A b : ~Holding(b, x)
      BY <1>2 DEF Holding
    <3> QED BY <1>2, <1>5, <3>1, <3>2, <3>3, SameKind DEF Followed
  <2> QED BY <1>1, <1>6, <2>1, <2>2 DEF At
<1>7. AllRead => AllRead'
  <2>1. ASSUME AllRead, NEW i \in DOMAIN frames'
        PROVE  \E f \in SenderFrames : IsReadOf(frames'[i], f.parts)
    BY <1>2, <1>4, <2>1 DEF AllRead
  <2> QED BY <1>2, <2>1, SameKind DEF AllRead
<1> QED BY <1>6, <1>7, SameKind, FrameInvFrom DEF FrameInv

\* A packet is stored, or not.
LEMMA ReadPacketFollows ==
    ASSUME FrameInv, IInv', NEW n \in Packets, ReadPacket(n) PROVE FrameInv'
<1> DEFINE e == [n |-> n, in |-> ReadInto, first |-> ~seen, uses |-> 0]
<1>1. /\ seen' = TRUE /\ expected' = IF seen THEN expected ELSE SeqNo(n)
      /\ list' = IF SeqNumLT(SeqNo(n), expected') THEN list ELSE Store(e)
      /\ stored' = IF list' = list THEN stored ELSE stored \cup {n}
      /\ UNCHANGED <<kind, needDelivery, scheduled, lossInFrame, frame, truncated, frames, misled>>
      /\ n <= Len(kind)
  BY DEF ReadPacket, frameVars
<1>2. n \in Nat /\ IInv
  BY DEF Packets, FrameInv
<1>3. PICK x \in Positions :
        /\ expected' = SeqNo(x) /\ (~seen => x = n)
        /\ seen => Upto(x)
        /\ SeqNumLT(SeqNo(n), expected') <=> n < x
  BY <1>1, <1>2, ReadUpto
<1>4. x \in Nat /\ 1 <= x
  BY DEF Positions
<1>5. ReadInto \in Descriptors /\ e \in Entries /\ e.n = n /\ e.uses = 0 /\ e.first = ~seen
  BY <1>2 DEF ReadInto, FreePacket, Descriptors, Entries, IInv, TypeOK
<1> HIDE DEF e
<1>6. ~seen => list = <<>> /\ frames = <<>> /\ ~scheduled /\ (needDelivery => frame = <<>>)
                /\ stored = {}
  BY <1>2 DEF FrameInv, IInv, Placed
<1>7. seen => At(x)
  <2>1. ASSUME seen PROVE At(x)
    <3>1. PICK y \in Positions : Upto(y) /\ At(y)
      BY <2>1 DEF FrameInv
    <3>2. SeqNo(x) = SeqNo(y)
      BY <1>3, <2>1, <3>1 DEF Upto
    <3>3. x = y
      BY <3>2, SeqNumOrder
    <3> QED BY <3>1, <3>3
  <2> QED BY <2>1
\* What the list becomes.
<1>8. \/ list' = list
      \/ /\ x <= n
         /\ \E at \in DOMAIN list' : list'[at] = e
         /\ \A i \in DOMAIN list' : list'[i] = e \/ \E j \in DOMAIN list : list'[i] = list[j]
         /\ \A j \in DOMAIN list : \E i \in DOMAIN list' : list'[i] = list[j]
         /\ HeadUsed' => HeadUsed
         /\ ~seen => DOMAIN list' = {1} /\ list'[1] = e
  <2> SUFFICES ASSUME list' # list
               PROVE  /\ x <= n
                      /\ \E at \in DOMAIN list' : list'[at] = e
                      /\ \A i \in DOMAIN list' : list'[i] = e \/ \E j \in DOMAIN list : list'[i] = list[j]
                      /\ \A j \in DOMAIN list : \E i \in DOMAIN list' : list'[i] = list[j]
                      /\ HeadUsed' => HeadUsed
                      /\ ~seen => DOMAIN list' = {1} /\ list'[1] = e
    OBVIOUS
  <2>1. x <= n /\ list' = Store(e)
    BY <1>1, <1>2, <1>3, <1>4
  <2>2. list' \in Seq(Entries) /\ Len(list') = Len(list) + 1
    BY <1>2, <1>5, <2>1, StoreFacts
  <2>3. PICK at \in 1 .. Len(list) + 1 :
          /\ list'[at] = e
          /\ \A j \in 1 .. at - 1 : list'[j] = list[j] /\ list[j].n < n
          /\ \A j \in at + 1 .. Len(list) + 1 :
                list'[j] = list[j - 1] /\ n < list[j - 1].n
    <3>1. e \in Entries /\ Store(e) # list
      BY <1>5, <2>1
    <3>2. \E at \in 1 .. Len(list) + 1 :
            /\ Store(e)[at] = e
            /\ \A j \in 1 .. at - 1 : Store(e)[j] = list[j] /\ list[j].n < e.n
            /\ \A j \in at + 1 .. Len(list) + 1 :
                  Store(e)[j] = list[j - 1] /\ e.n < list[j - 1].n
      BY <1>2, <3>1, StoreFacts, Zenon
    <3> QED BY <1>5, <2>1, <3>2
  <2>4. DOMAIN list' = 1 .. Len(list) + 1 /\ DOMAIN list = 1 .. Len(list) /\ Len(list) \in Nat
    BY <2>2, LenProperties, FrameFacts
  <2>5. \A i \in DOMAIN list' : list'[i] = e \/ \E j \in DOMAIN list : list'[i] = list[j]
    <3> TAKE i \in DOMAIN list'
    <3>1. CASE i < at
      BY <2>3, <2>4, <3>1
    <3>2. CASE at < i
      <4>1. i - 1 \in DOMAIN list /\ list'[i] = list[i - 1]
        BY <2>3, <2>4, <3>2
      <4> QED BY <4>1
    <3> QED BY <2>3, <2>4, <3>1, <3>2
  <2>6. \A j \in DOMAIN list : \E i \in DOMAIN list' : list'[i] = list[j]
    <3> TAKE j \in DOMAIN list
    <3>1. CASE j < at
      BY <2>3, <2>4, <3>1
    <3>2. CASE at <= j
      <4>1. j + 1 \in DOMAIN list' /\ list'[j + 1] = list[(j + 1) - 1] /\ (j + 1) - 1 = j
        BY <2>3, <2>4, <3>2
      <4> QED BY <4>1
    <3> QED BY <2>3, <2>4, <3>1, <3>2
  <2>7. HeadUsed' => HeadUsed
    <3>1. ASSUME HeadUsed' PROVE HeadUsed
      <4>1. list'[1].uses = 1 /\ 1 \in DOMAIN list'
        BY <2>4, <3>1 DEF HeadUsed
      <4>2. PICK j \in DOMAIN list : list'[1] = list[j]
        BY <1>5, <2>5, <4>1
      <4>3. j = 1
        BY <1>2, <4>1, <4>2 DEF IInv, Sorted
      <4>4. list # <<>>
        BY <2>4, <4>2, LenProperties
      <4> QED BY <4>1, <4>2, <4>3, <4>4 DEF HeadUsed
    <3> QED BY <3>1
  <2>8. ASSUME ~seen PROVE DOMAIN list' = {1} /\ list'[1] = e
    <3>1. Len(list) = 0
      BY <1>6, <2>8
    <3> QED BY <2>3, <2>4, <3>1
  <2> QED BY <2>1, <2>3, <2>4, <2>5, <2>6, <2>7, <2>8
<1>9. ~seen => list' # list
  <2> SUFFICES ASSUME ~seen PROVE list' # list
    OBVIOUS
  <2>1. list' = Store(e) /\ list = <<>> /\ DOMAIN list = {} /\ Len(list) = 0
    BY <1>1, <1>2, <1>3, <1>4, <1>6
  <2>2. Store(e) = InsertAt(list, 1, e)
    BY <2>1 DEF Store
  <2>3. Len(InsertAt(list, 1, e)) = Len(list) + 1
    <3>1. list \in Seq(Entries) /\ e \in Entries /\ 1 \in 1 .. Len(list) + 1
      BY <1>5, <2>1, FrameFacts
    <3> QED BY <3>1, InsertAtFacts
  <2> QED BY <2>1, <2>2, <2>3
<1>10. stored \subseteq Packets /\ stored' \subseteq Packets
       /\ \A m \in stored' : m \in stored \/ (m = n /\ x <= n)
  BY <1>1, <1>8 DEF FrameInv
<1>11. \A i \in DOMAIN list' : list'[i].n <= Len(kind')
  BY <1>1, <1>5, <1>8 DEF FrameInv
<1>12. StoredUpto(x)'
  <2>1. x <= Len(kind') + 1
    <3>1. seen => x <= Len(kind) + 1
      BY <1>7 DEF At, StoredUpto
    <3>2. Len(kind) \in Nat
      BY FrameFacts
    <3> QED BY <1>1, <1>2, <1>3, <3>1, <3>2
  <2>2. \A m \in stored' : m < x \/ \E i \in DOMAIN list' : list'[i].n = m
    <3> TAKE m \in stored'
    <3>1. CASE m \in stored
      <4>1. seen
        BY <1>6, <3>1
      <4>2. m < x \/ \E j \in DOMAIN list : list[j].n = m
        BY <1>7, <3>1, <4>1 DEF At, StoredUpto
      <4> QED BY <1>8, <4>2
    <3>2. CASE m = n /\ m \notin stored
      <4>1. list' # list
        BY <1>1, <3>2
      <4> QED BY <1>5, <1>8, <3>2, <4>1
    <3> QED BY <1>10, <3>1, <3>2
  <2>3. ASSUME NEW i \in DOMAIN list', list'[i].first
        PROVE  list'[i].n = x /\ \A m \in stored' : x <= m
    <3>1. CASE seen
      <4>1. list'[i] # e
        BY <1>5, <2>3, <3>1
      <4>2. PICK j \in DOMAIN list : list'[i] = list[j]
        BY <1>8, <2>3, <4>1
      <4>3. list[j].n = x /\ \A m \in stored : x <= m
        BY <1>7, <2>3, <3>1, <4>2 DEF At, StoredUpto
      <4> QED BY <1>10, <4>2, <4>3
    <3>2. CASE ~seen
      <4>1. list'[i] = e /\ x = n /\ \A m \in stored' : m = n
        BY <1>3, <1>6, <1>8, <1>9, <1>10, <2>3, <3>2
      <4> QED BY <1>2, <1>5, <4>1
    <3> QED BY <3>1, <3>2
  <2> QED BY <2>1, <2>2, <2>3 DEF StoredUpto
<1>13. \A P : Got(P)' <=> Got(P)
  BY <1>1 DEF Got, Copy
<1>14. \A b : Holding(b, x)' <=> Holding(b, x)
  BY <1>1, SameKind DEF Holding, Copy
<1>15. DOMAIN kind \subseteq Nat
  BY FrameFacts
<1>16. ASSUME ~misled PROVE Followed(x)'
  <2>1. CASE seen
    <3>1. Followed(x)
      BY <1>7, <1>16, <2>1 DEF At
    <3>2. (\E i \in DOMAIN list : list[i].first) => \E i \in DOMAIN list' : list'[i].first
      BY <1>8
    <3>3. \A b, e1 \in Nat : e1 < x /\ b .. e1 \subseteq stored' => b .. e1 \subseteq stored
      BY <1>2, <1>4, <1>10
    <3>4. HeadUsed' => HeadUsed
      BY <1>8 DEF HeadUsed
    <3>5. ASSUME NEW b \in DOMAIN kind, Begun(b, x), b .. x - 1 \subseteq stored'
          PROVE  Holding(b, x) /\ ~lossInFrame
      <4>1. x - 1 \in Nat /\ x - 1 < x /\ b \in Nat
        BY <1>4, <1>15
      <4>2. b .. x - 1 \subseteq stored
        BY <3>3, <3>5, <4>1
      <4> QED BY <3>1, <3>5, <4>2 DEF Followed
    <3>6. ASSUME NEW f \in SenderFrames, f.e < x, f.b .. f.e \subseteq stored'
          PROVE  Got(f.parts)
      <4>1. f.b .. f.e \subseteq stored
        BY <1>15, <3>3, <3>6, FrameEnds
      <4> QED BY <3>1, <3>6, <4>1 DEF Followed
    <3>7. \A b \in DOMAIN kind' : Begun(b, x)' =>
            lossInFrame' \/ Holding(b, x)' \/ \E i \in DOMAIN list' : list'[i].first
      BY <1>1, <1>14, <3>1, <3>2, SameKind DEF Followed
    <3>8. needDelivery' /\ frame' # <<>> /\ ~lossInFrame' => \E b \in DOMAIN kind' : Begun(b, x)'
      BY <1>1, <3>1, SameKind DEF Followed
    <3>9. \A b \in DOMAIN kind' : Begun(b, x)' /\ b .. x - 1 \subseteq stored' =>
            Holding(b, x)' /\ ~lossInFrame'
      BY <1>1, <1>14, <3>5, SameKind
    <3>10. HeadUsed' => kind'[x] = "pair" /\ Got({<<x, 1>>})'
      BY <1>1, <1>13, <3>1, <3>4 DEF Followed
    <3>11. \A f \in SenderFrames' : f.e < x /\ f.b .. f.e \subseteq stored' => Got(f.parts)'
      BY <1>1, <1>13, <3>6, SameKind
    <3> QED BY <3>7, <3>8, <3>9, <3>10, <3>11 DEF Followed
  <2>2. CASE ~seen
    <3>1. list' # list /\ DOMAIN list' = {1} /\ list'[1] = e /\ e.first
      BY <1>5, <1>8, <1>9, <2>2
    <3>2. \E i \in DOMAIN list' : list'[i].first
      BY <3>1
    <3>3. needDelivery' => frame' = <<>>
      BY <1>1, <1>6, <2>2
    <3>4. \A m \in stored' : m = x
      BY <1>3, <1>6, <1>10, <2>2
    <3>5. ASSUME NEW b \in DOMAIN kind, Begun(b, x) PROVE ~(b .. x - 1 \subseteq stored')
      <4>1. b \in Nat /\ b < x /\ b \in b .. x - 1
        BY <1>4, <1>15, <3>5 DEF Begun
      <4> QED BY <1>4, <3>4, <4>1
    <3>6. ASSUME NEW f \in SenderFrames, f.e < x PROVE ~(f.b .. f.e \subseteq stored')
      <4>1. f.e \in Nat /\ f.e \in f.b .. f.e
        BY <1>15, FrameEnds
      <4> QED BY <1>4, <3>4, <3>6, <4>1
    <3>7. ~HeadUsed'
      BY <1>5, <3>1 DEF HeadUsed
    <3>8. \A b \in DOMAIN kind' : Begun(b, x)' => ~(b .. x - 1 \subseteq stored')
      BY <1>1, <3>5, SameKind
    <3>9. \A f \in SenderFrames' : f.e < x => ~(f.b .. f.e \subseteq stored')
      BY <1>1, <3>6, SameKind
    <3> QED BY <3>2, <3>3, <3>7, <3>8, <3>9 DEF Followed
  <2> QED BY <2>1, <2>2
<1>17. AllRead => AllRead'
  BY <1>1, SameKind DEF AllRead, Copy
<1>18. At(x)'
  BY <1>1, <1>3, <1>12, <1>16 DEF At
<1> QED BY <1>1, <1>10, <1>11, <1>17, <1>18, SameKind, FrameInvFrom DEF FrameInv

-----------------------------------------------------------------------------
(* The head of the list is taken: whole frames.                            *)

\* The packet n that is taken, and what is expected then.
TakenAt(x, loss) ==
    LET n == list[1].n IN
    /\ expected = SeqNo(x) /\ StoredUpto(x) /\ (~misled => Followed(x))
    /\ x <= n /\ (HeadUsed => n = x)
    /\ \A m \in stored : m < n => m < x
    /\ ~loss => n = x /\ \A i \in DOMAIN list : ~list[i].first
    /\ \A b \in DOMAIN kind : b < n /\ b .. n - 1 \subseteq stored => n = x /\ ~loss

LEMMA TakeFacts ==
    ASSUME FrameInv, NEW loss \in BOOLEAN, TakesNext(loss)
    PROVE  /\ Next1 = list[1] /\ list[1] \in Entries /\ 1 \in DOMAIN list /\ list # <<>>
           /\ list[1].n \in Packets /\ list[1].n \in Nat /\ list[1].n \in DOMAIN kind
           /\ seen /\ needDelivery /\ ~scheduled
           /\ \E x \in Positions : TakenAt(x, loss)
<1> DEFINE n == list[1].n
<1>1. list # <<>> /\ needDelivery /\ loss = (Gap \/ Next1.first)
  BY DEF TakesNext
<1>2. list[1] \in Entries /\ 1 \in DOMAIN list /\ Next1 = list[1]
  BY <1>1, EmptySeq, FrameFacts DEF Next1
<1>3. n \in Packets /\ n \in Nat /\ n \in DOMAIN kind
  <2>1. n \in Packets /\ n <= Len(kind)
    BY <1>2 DEF Entries, FrameInv
  <2> QED BY <2>1, FrameFacts DEF Packets
<1>4. seen /\ ~scheduled
  BY <1>1 DEF FrameInv, IInv, Placed, OneAtATime
<1>5. PICK x \in Positions : Upto(x) /\ At(x)
  BY <1>4 DEF FrameInv
<1>6. x \in Nat /\ 1 <= x /\ n \in Positions
  BY <1>3, BoundsFacts DEF Positions, Packets
<1>7. /\ expected = SeqNo(x) /\ StoredUpto(x) /\ (~misled => Followed(x))
      /\ x <= n /\ (HeadUsed => n = x)
  BY <1>2, <1>5 DEF Upto, At
<1>8. \A i \in DOMAIN list : i # 1 => n < list[i].n
  BY <1>2, FrameFacts DEF FrameInv, IInv, Sorted
<1>9. Gap <=> n # x
  BY <1>2, <1>6, <1>7, SeqNumOrder DEF Gap
<1> HIDE DEF n
<1>10. ASSUME NEW m \in stored, m < n PROVE m < x
  <2>1. m \in Nat
    BY DEF FrameInv, Packets
  <2>2. ASSUME NEW i \in DOMAIN list, list[i].n = m PROVE FALSE
    BY <1>3, <1>8, <1>10, <2>1, <2>2 DEF n
  <2> QED BY <1>7, <2>2 DEF StoredUpto
<1>11. ASSUME ~loss PROVE n = x /\ \A i \in DOMAIN list : ~list[i].first
  <2>1. n = x /\ ~list[1].first
    BY <1>1, <1>2, <1>9, <1>11
  <2>2. ASSUME NEW i \in DOMAIN list, list[i].first PROVE FALSE
    <3>1. i # 1 /\ list[i].n = x
      BY <1>7, <2>1, <2>2 DEF StoredUpto
    <3> QED BY <1>3, <1>8, <2>1, <3>1
  <2> QED BY <2>1, <2>2
<1>12. ASSUME NEW b \in DOMAIN kind, b < n, b .. n - 1 \subseteq stored PROVE n = x /\ ~loss
  <2>1. b \in Nat /\ b \in b .. n - 1 /\ n - 1 \in b .. n - 1 /\ n - 1 < n
    BY <1>3, <1>12, FrameFacts
  <2>2. n - 1 < x /\ b \in stored
    BY <1>10, <1>12, <2>1
  <2>3. n = x
    BY <1>3, <1>6, <1>7, <2>2
  <2>4. ~list[1].first
    BY <1>2, <1>6, <1>7, <1>12, <2>1, <2>2, <2>3 DEF StoredUpto
  <2> QED BY <1>1, <1>2, <1>9, <2>3, <2>4
<1>13. TakenAt(x, loss)
  BY <1>7, <1>10, <1>11, <1>12 DEF TakenAt, n
<1> QED BY <1>1, <1>2, <1>3, <1>4, <1>13 DEF n

\* The packet leaves the list.
LEMMA StoredReleased ==
    ASSUME FrameInv, NEW loss \in BOOLEAN, TakesNext(loss), Release,
           UNCHANGED <<inProgress, stored, kind>>, NEW n, n = list[1].n
    PROVE  /\ expected' = SeqNo(n + 1) /\ n + 1 \in Positions /\ StoredUpto(n + 1)'
           /\ \A i \in DOMAIN list' : list'[i].n <= Len(kind')
           /\ seen' /\ ~HeadUsed'
<1>1. /\ list # <<>> /\ list[1] \in Entries /\ n \in Nat /\ n \in DOMAIN kind
      /\ \E x \in Positions : TakenAt(x, loss)
  BY TakeFacts
<1>2. PICK x \in Positions : TakenAt(x, loss)
  BY <1>1
<1>3. /\ expected' = SeqNo(n + 1) /\ n + 1 \in Positions /\ seen' /\ ~HeadUsed'
  BY <1>1, ReleaseFacts DEF FrameInv
<1>4. list \in Seq(Entries) /\ DOMAIN list = 1 .. Len(list) /\ Len(list) \in Nat \ {0}
  BY <1>1, EmptySeq, FrameFacts
<1>5. /\ DOMAIN list' = 1 .. Len(list) - 1
      /\ \A i \in DOMAIN list' : i + 1 \in DOMAIN list /\ list'[i] = list[i + 1]
  <2>1. list' = Tail(list)
    BY DEF Release
  <2>2. /\ list' \in Seq(Entries) /\ Len(list') = Len(list) - 1
        /\ \A i \in 1 .. Len(list') : list'[i] = list[i + 1]
    BY <1>1, <1>4, <2>1, HeadTailProperties
  <2> QED BY <1>4, <2>2, LenProperties
<1>6. x \in Nat /\ x <= n /\ StoredUpto(x)
  BY <1>2 DEF TakenAt, Positions
<1>7. \A i \in DOMAIN list : i # 1 => n < list[i].n /\ list[i].n \in Nat
  <2>1. 1 \in DOMAIN list /\ \A i \in DOMAIN list : i # 1 => 1 < i
    BY <1>4
  <2>2. \A i \in DOMAIN list : list[i].n \in Nat
    BY FrameFacts
  <2>3. \A i \in DOMAIN list : i # 1 => list[1].n < list[i].n
    BY <2>1 DEF FrameInv, IInv, Sorted
  <2> QED BY <2>2, <2>3
<1>8. \A i \in DOMAIN list' : ~list'[i].first
  <2>1. ASSUME NEW i \in DOMAIN list', list'[i].first PROVE FALSE
    <3>1. i + 1 \in DOMAIN list /\ i + 1 # 1 /\ list[i + 1].first
      BY <1>5, <2>1
    <3>2. list[i + 1].n = x
      BY <1>6, <3>1 DEF StoredUpto
    <3> QED BY <1>1, <1>6, <1>7, <3>1, <3>2
  <2> QED BY <2>1
<1>9. ASSUME NEW m \in stored
      PROVE  m < n + 1 \/ \E i \in DOMAIN list' : list'[i].n = m
  <2>1. m \in Nat
    BY DEF FrameInv, Packets
  <2>2. CASE m < x
    BY <1>1, <1>6, <2>1, <2>2
  <2>3. ASSUME NEW i \in DOMAIN list, list[i].n = m
        PROVE  m < n + 1 \/ \E j \in DOMAIN list' : list'[j].n = m
    <3>1. CASE i = 1
      BY <1>1, <2>3, <3>1
    <3>2. CASE i # 1
      <4>1. i - 1 \in DOMAIN list' /\ (i - 1) + 1 = i
        BY <1>4, <1>5, <3>2
      <4> QED BY <1>5, <2>3, <4>1
    <3> QED BY <3>1, <3>2
  <2> QED BY <1>6, <2>2, <2>3 DEF StoredUpto
<1>10. n + 1 <= Len(kind') + 1
  BY <1>1, FrameFacts
<1>11. \A i \in DOMAIN list' : list'[i].n <= Len(kind')
  BY <1>5 DEF FrameInv
<1>12. StoredUpto(n + 1)'
  BY <1>8, <1>9, <1>10 DEF StoredUpto
<1> QED BY <1>3, <1>11, <1>12

\* An aggregation stays for its second unit.
LEMMA StoredKept ==
    ASSUME FrameInv, NEW loss \in BOOLEAN, TakesNext(loss), KeepForNext,
           UNCHANGED <<inProgress, stored, kind>>, NEW n, n = list[1].n
    PROVE  /\ expected' = SeqNo(n) /\ n \in Positions /\ StoredUpto(n)'
           /\ \A i \in DOMAIN list' : list'[i].n <= Len(kind')
           /\ seen' /\ list' # <<>>
<1> DEFINE h == [list[1] EXCEPT !.uses = 1]
<1>1. /\ list # <<>> /\ list[1] \in Entries /\ n \in Nat /\ n \in DOMAIN kind
      /\ 1 \in DOMAIN list
      /\ \E x \in Positions : TakenAt(x, loss)
  BY TakeFacts
<1>2. PICK x \in Positions : TakenAt(x, loss)
  BY <1>1
<1>3. expected' = SeqNo(n) /\ n \in Positions /\ seen' /\ HeadUsed'
  BY <1>1, KeepForNextFacts DEF FrameInv
<1>4. h.n = n /\ h.first = list[1].first
  BY <1>1 DEF Entries
<1>5. list' = [list EXCEPT ![1] = h]
  BY DEF KeepForNext
<1> HIDE DEF h
<1>6. /\ DOMAIN list' = DOMAIN list
      /\ \A i \in DOMAIN list : list'[i].n = list[i].n /\ list'[i].first = list[i].first
  BY <1>1, <1>4, <1>5, FrameFacts
<1>7. x \in Nat /\ x <= n /\ StoredUpto(x)
  BY <1>2 DEF TakenAt, Positions
<1>8. \A i \in DOMAIN list : i # 1 => n < list[i].n /\ list[i].n \in Nat
  BY <1>1, FrameFacts DEF FrameInv, IInv, Sorted
<1>9. ASSUME NEW i \in DOMAIN list', list'[i].first
      PROVE  list'[i].n = n /\ \A m \in stored : n <= m
  <2>1. list[i].n = x /\ (\A m \in stored : x <= m) /\ i \in DOMAIN list
    BY <1>6, <1>7, <1>9 DEF StoredUpto
  <2>2. i = 1 /\ n = x
    BY <1>1, <1>7, <1>8, <2>1
  <2> QED BY <1>6, <2>1, <2>2
<1>10. \A m \in stored : m < n \/ \E i \in DOMAIN list' : list'[i].n = m
  <2> TAKE m \in stored
  <2>1. m \in Nat
    BY DEF FrameInv, Packets
  <2> QED BY <1>1, <1>6, <1>7, <2>1 DEF StoredUpto
<1>11. n <= Len(kind') + 1
  BY <1>1, FrameFacts
<1>12. StoredUpto(n)'
  BY <1>9, <1>10, <1>11 DEF StoredUpto
<1>13. \A i \in DOMAIN list' : list'[i].n <= Len(kind')
  BY <1>6 DEF FrameInv
<1> QED BY <1>3, <1>12, <1>13 DEF HeadUsed

\* What the reader's buffer holds when a packet was used.
LEMMA UsedFrame ==
    ASSUME FrameInv, NEW loss \in BOOLEAN, UsePacket(loss), ~misled',
           NEW n, n = list[1].n
    PROVE  LET u == list[1].uses IN
           /\ ~misled /\ kind[n] # "empty" /\ (completes' <=> kind[n] \notin {"begin", "middle"})
           /\ u = 1 => kind[n] = "pair"
           /\ kind[n] \in {"single", "pair", "begin"} => IsReadOf(Copy', {<<n, u + 1>>})
           /\ kind[n] \in {"middle", "end"} =>
                 \E b \in DOMAIN kind : Begun(b, n) /\ IsReadOf(Copy', PartsOf(b, n))
<1> DEFINE u == list[1].uses
           c == Copied(loss)
           p == <<n, u + 1>>
<1>1. /\ TakesNext(loss) /\ kind[n] # "empty" /\ Next1 = list[1] /\ Flags /\ ~Unusable(loss)
      /\ truncated' = (Len(c) = MaxSize)
      /\ frame' = IF truncated' THEN c ELSE Append(c, p)
      /\ misled' = (misled \/ (kind[n] = "pair" /\ ~completes'))
  BY TakeFacts DEF UsePacket
<1>2. /\ list[1] \in Entries /\ list # <<>> /\ n \in Packets /\ n \in Nat /\ n \in DOMAIN kind
      /\ needDelivery /\ u \in 0 .. 1 /\ kind[n] \in Kinds
  BY <1>1, TakeFacts, FrameFacts DEF Entries
<1>3. PICK x \in Positions : TakenAt(x, loss)
  BY <1>1, TakeFacts
<1>4. ~misled /\ (completes' <=> kind[n] \notin {"begin", "middle"})
  BY <1>1, <1>2 DEF Flags
<1>5. Followed(x) /\ (~loss => n = x /\ \A i \in DOMAIN list : ~list[i].first)
      /\ (HeadUsed => n = x)
  BY <1>3, <1>4 DEF TakenAt
<1>6. u = 1 => kind[n] = "pair"
  BY <1>2, <1>5 DEF Followed, HeadUsed
<1>7. /\ kind[n] \in {"single", "begin"} => begins'
      /\ kind[n] \in {"middle", "end"} => ~begins'
      /\ ~begins' => ~lossInFrame /\ ~loss
  BY <1>1 DEF Flags, Unusable
<1>8. c = IF begins' /\ (loss \/ lossInFrame) THEN <<>> ELSE frame
  BY DEF Copied
<1> HIDE DEF c, u
<1>9. ASSUME kind[n] \in {"single", "pair", "begin"} PROVE c = <<>>
  <2>1. ASSUME ~loss, ~lossInFrame PROVE frame = <<>>
    <3>1. ~ \E b \in DOMAIN kind : Begun(b, x)
      BY <1>2, <1>5, <1>9, <2>1 DEF FrameInv, Disciplined
    <3> QED BY <1>2, <1>5, <2>1, <3>1 DEF Followed
  <2> QED BY <1>7, <1>8, <2>1
<1>10. p \in FrameParts
  BY <1>2 DEF FrameParts
<1>11. ASSUME kind[n] \in {"single", "pair", "begin"} PROVE IsReadOf(Copy', {p})
  <2>1. Len(c) = 0 /\ Len(c) # MaxSize /\ Append(c, p) = <<p>>
    <3> HIDE DEF p
    <3>1. Len(<<>>) = 0 /\ Append(<<>>, p) = <<p>>
      OBVIOUS
    <3> QED BY <1>9, <1>11, <3>1, BoundsFacts
  <2>2. Copy' = [parts |-> <<p>>, truncated |-> FALSE]
    BY <1>1, <2>1 DEF Copy
  <2> QED BY <2>2, FirstPart
<1>12. ASSUME kind[n] \in {"middle", "end"}
       PROVE  \E b \in DOMAIN kind : Begun(b, n) /\ IsReadOf(Copy', PartsOf(b, n))
  <2>1. ~loss /\ ~lossInFrame /\ c = frame /\ n = x /\ u = 0
    BY <1>2, <1>5, <1>6, <1>7, <1>8, <1>12
  <2>2. PICK b \in DOMAIN kind : Begun(b, n)
    BY <1>2, <1>12 DEF FrameInv, Disciplined
  <2>3. IsReadOf(Copy, PartsOf(b, n - 1))
    BY <1>5, <2>1, <2>2 DEF Followed, Holding
  <2>4. b \in Packets /\ b < n
    BY <2>2, FrameFacts DEF Begun
  <2>5. /\ PartsOf(b, n) = PartsOf(b, n - 1) \cup {<<n, 1>>}
        /\ PartsOf(b, n - 1) \subseteq FrameParts
        /\ \A q \in PartsOf(b, n - 1) : Earlier(q, <<n, 1>>)
    BY <1>1, <1>2, <2>4, PartsOfNext
  <2>6. p = <<n, 1>>
    BY <2>1
  <2>7. /\ frame \in Seq(FrameParts) /\ Len(frame) <= MaxSize /\ truncated \in BOOLEAN
        /\ IsReadOf([parts |-> frame, truncated |-> truncated], PartsOf(b, n - 1))
    BY <2>3, FrameFacts DEF Copy
  <2> DEFINE full == Len(frame) = MaxSize
  <2>8. IsReadOf([parts |-> IF full THEN frame ELSE Append(frame, p), truncated |-> full],
                 PartsOf(b, n - 1) \cup {p})
    BY <1>10, <2>5, <2>6, <2>7, NextPart
  <2>9. Copy' = [parts |-> IF full THEN frame ELSE Append(frame, p), truncated |-> full]
    BY <1>1, <2>1 DEF Copy
  <2> QED BY <2>2, <2>5, <2>6, <2>8, <2>9
<1> QED BY <1>1, <1>4, <1>6, <1>11, <1>12 DEF u

\* One packet further.
LEMMA BegunNext ==
    ASSUME FrameInv, NEW b \in DOMAIN kind, NEW n \in DOMAIN kind
    PROVE  Begun(b, n + 1) <=> \/ b = n /\ kind[n] = "begin"
                               \/ Begun(b, n) /\ kind[n] \in {"middle", "empty"}
<1>1. b \in Nat /\ n \in Nat
  BY FrameFacts
<1>2. b < n => b + 1 .. (n + 1) - 1 = (b + 1 .. n - 1) \cup {n}
  BY <1>1
<1>3. b = n => b + 1 .. (n + 1) - 1 = {}
  BY <1>1
<1>4. b < n + 1 <=> b < n \/ b = n
  BY <1>1
<1>5. ~(n < n)
  BY <1>1
<1> QED BY <1>2, <1>3, <1>4, <1>5 DEF Begun

\* Only one frame is begun at a time.
LEMMA BegunOnce ==
    ASSUME FrameInv, NEW b \in DOMAIN kind, NEW c \in DOMAIN kind, NEW x \in Nat,
           Begun(b, x), Begun(c, x)
    PROVE  b = c
<1>1. b \in Nat /\ c \in Nat
  BY FrameFacts
<1>2. b < c => c \in b + 1 .. x - 1
  BY <1>1 DEF Begun
<1>3. c < b => b \in c + 1 .. x - 1
  BY <1>1 DEF Begun
<1> QED BY <1>1, <1>2, <1>3 DEF Begun

\* Frames that end before the packet taken were given before.
LEMMA GotBefore ==
    ASSUME FrameInv, ~misled, NEW loss \in BOOLEAN, NEW x \in Positions, TakenAt(x, loss),
           NEW f \in SenderFrames, f.e < list[1].n, f.b .. f.e \subseteq stored
    PROVE  Got(f.parts)
<1>1. f.e \in Nat /\ f.b \in Nat /\ f.b <= f.e
  BY FrameEnds, FrameFacts
<1>2. f.e \in stored
  BY <1>1
<1>3. f.e < x
  BY <1>2 DEF TakenAt
<1> QED BY <1>3 DEF TakenAt, Followed

\* An empty packet that hides no gap changes nothing.
LEMMA RejectEmptyFollows ==
    ASSUME FrameInv, IInv', NEW loss \in BOOLEAN, RejectEmpty(loss) PROVE FrameInv'
<1>1. /\ TakesNext(loss) /\ kind[list[1].n] = "empty" /\ Release
      /\ misled' = (misled \/ loss)
      /\ UNCHANGED <<kind, inProgress, needDelivery, scheduled, lossInFrame, frame, truncated,
                     frames, stored>>
  BY TakeFacts DEF RejectEmpty, netVars, frameVars
<1>2. PICK n \in Packets : n = list[1].n
  BY <1>1, TakeFacts
<1>3. /\ n \in Nat /\ n \in DOMAIN kind /\ kind[n] = "empty" /\ 1 \in DOMAIN list
      /\ ~scheduled /\ needDelivery
  BY <1>1, <1>2, TakeFacts
<1>4. PICK x \in Positions : TakenAt(x, loss)
  BY <1>1, TakeFacts
<1>5. /\ expected' = SeqNo(n + 1) /\ n + 1 \in Positions /\ StoredUpto(n + 1)'
      /\ \A i \in DOMAIN list' : list'[i].n <= Len(kind')
      /\ seen' /\ ~HeadUsed'
  BY <1>1, <1>2, StoredReleased
<1>6. ASSUME ~misled' PROVE Followed(n + 1)'
  <2>1. ~misled /\ ~loss /\ n = x /\ Followed(x) /\ \A i \in DOMAIN list : ~list[i].first
    BY <1>1, <1>2, <1>4, <1>6 DEF TakenAt
  <2>2. \A b \in DOMAIN kind : Begun(b, n + 1) <=> Begun(b, x)
    BY <1>3, <2>1, BegunNext
  <2>3. ASSUME NEW b \in DOMAIN kind, Begun(b, x)
        PROVE  Holding(b, n + 1)' <=> Holding(b, x)
    <3>1. b \in Packets /\ b < n
      BY <2>1, <2>3, FrameFacts DEF Begun
    <3>2. PartsOf(b, n) = PartsOf(b, n - 1)
      <4>1. PartsOf(b, n) = PartsOf(b, n - 1) \cup
              (IF kind[n] = "empty" THEN {} ELSE {<<n, 1>>})
        BY <1>2, <1>3, <3>1, PartsOfNext
      <4> QED BY <1>3, <4>1
    <3>3. (n + 1) - 1 = n
      BY <1>3
    <3> QED BY <1>1, <2>1, <3>2, <3>3, SameKind DEF Holding, Copy
  <2>4. \A P : Got(P)' <=> Got(P)
    BY <1>1 DEF Got, Copy
  <2>5. ASSUME NEW f \in SenderFrames, f.e < n + 1, f.b .. f.e \subseteq stored
        PROVE  Got(f.parts)
    <3>1. f.e \in Nat /\ f.e # n
      BY <1>3, FrameFacts, FrameKinds DEF IsSenderFrame
    <3> QED BY <1>2, <1>3, <1>4, <2>1, <2>5, <3>1, GotBefore
  <2>6. \A b \in DOMAIN kind : b .. (n + 1) - 1 \subseteq stored => b .. x - 1 \subseteq stored
    BY <1>3, <2>1, FrameFacts
  <2>7. \A b \in DOMAIN kind' : Begun(b, n + 1)' =>
          lossInFrame' \/ Holding(b, n + 1)' \/ \E i \in DOMAIN list' : list'[i].first
    BY <1>1, <2>1, <2>2, <2>3, SameKind DEF Followed
  <2>8. needDelivery' /\ frame' # <<>> /\ ~lossInFrame' =>
          \E b \in DOMAIN kind' : Begun(b, n + 1)'
    BY <1>1, <2>1, <2>2, SameKind DEF Followed
  <2>9. \A b \in DOMAIN kind' : Begun(b, n + 1)' /\ b .. (n + 1) - 1 \subseteq stored' =>
          Holding(b, n + 1)' /\ ~lossInFrame'
    BY <1>1, <2>1, <2>2, <2>3, <2>6, SameKind DEF Followed
  <2>10. \A f \in SenderFrames' : f.e < n + 1 /\ f.b .. f.e \subseteq stored' => Got(f.parts)'
    BY <1>1, <2>4, <2>5, SameKind
  <2> QED BY <1>5, <2>7, <2>8, <2>9, <2>10 DEF Followed
<1>7. AllRead => AllRead'
  BY <1>1, <1>3, SameKind DEF AllRead
<1>8. At(n + 1)'
  BY <1>5, <1>6 DEF At
<1> QED BY <1>1, <1>5, <1>7, <1>8, SameKind, FrameInvFrom DEF FrameInv

\* A fragment is dropped only for one that is missing before it.
LEMMA RejectFragmentFollows ==
    ASSUME FrameInv, IInv', NEW loss \in BOOLEAN, RejectFragment(loss) PROVE FrameInv'
<1>1. /\ TakesNext(loss) /\ kind[list[1].n] # "empty" /\ Release /\ Flags /\ Unusable(loss)
      /\ Next1 = list[1] /\ lossInFrame' = TRUE
      /\ misled' = (misled \/ kind[list[1].n] = "pair")
      /\ UNCHANGED <<kind, inProgress, needDelivery, scheduled, frame, truncated, frames, stored>>
  BY TakeFacts DEF RejectFragment, netVars
<1>2. PICK n \in Packets : n = list[1].n
  BY <1>1, TakeFacts
<1>3. /\ n \in Nat /\ n \in DOMAIN kind /\ kind[n] \in Kinds /\ ~scheduled
  BY <1>1, <1>2, TakeFacts, FrameFacts
<1>4. PICK x \in Positions : TakenAt(x, loss)
  BY <1>1, TakeFacts
<1>5. /\ expected' = SeqNo(n + 1) /\ n + 1 \in Positions /\ StoredUpto(n + 1)'
      /\ \A i \in DOMAIN list' : list'[i].n <= Len(kind')
      /\ seen' /\ ~HeadUsed'
  BY <1>1, <1>2, StoredReleased
<1>6. ASSUME ~misled' PROVE Followed(n + 1)'
  <2>1. ~misled /\ kind[n] \in {"middle", "end"} /\ (lossInFrame \/ loss)
    BY <1>1, <1>2, <1>3, <1>6 DEF Flags, Unusable, Kinds
  \* Had all before it been stored, it could be used.
  <2>2. ASSUME NEW b \in DOMAIN kind, Begun(b, n), b .. n - 1 \subseteq stored PROVE FALSE
    <3>1. n = x /\ ~loss
      BY <1>2, <1>4, <2>2 DEF TakenAt, Begun
    <3> QED BY <1>4, <2>1, <2>2, <3>1 DEF TakenAt, Followed
  <2>3. ASSUME NEW b \in DOMAIN kind, Begun(b, n), b .. n \subseteq stored PROVE FALSE
    <3>1. b .. n - 1 \subseteq stored
      BY <1>3, <2>3, FrameFacts
    <3> QED BY <2>2, <2>3, <3>1
  <2>4. \A P : Got(P)' <=> Got(P)
    BY <1>1, <1>3 DEF Got, Copy
  <2>5. ASSUME NEW f \in SenderFrames, f.e < n + 1, f.b .. f.e \subseteq stored
        PROVE  Got(f.parts)
    <3>1. f.e \in Nat /\ f.b \in DOMAIN kind
      BY FrameFacts, FrameEnds
    <3>2. CASE f.e = n
      <4>1. Begun(f.b, n)
        BY <2>1, <3>2, FrameKinds DEF IsSenderFrame
      <4> QED BY <2>3, <2>5, <3>1, <3>2, <4>1
    <3>3. CASE f.e < n
      BY <1>2, <1>4, <2>1, <2>5, <3>3, GotBefore
    <3> QED BY <1>3, <2>5, <3>1, <3>2, <3>3
  <2>6. ASSUME NEW b \in DOMAIN kind, Begun(b, n + 1)
        PROVE  ~(b .. (n + 1) - 1 \subseteq stored)
    <3>1. Begun(b, n) /\ (n + 1) - 1 = n
      BY <1>3, <2>1, <2>6, BegunNext
    <3> QED BY <2>3, <3>1
  <2>7. \A b \in DOMAIN kind' : Begun(b, n + 1)' => ~(b .. (n + 1) - 1 \subseteq stored')
    BY <1>1, <2>6, SameKind
  <2>8. \A f \in SenderFrames' : f.e < n + 1 /\ f.b .. f.e \subseteq stored' => Got(f.parts)'
    BY <1>1, <2>4, <2>5, SameKind
  <2> QED BY <1>1, <1>5, <2>7, <2>8 DEF Followed
<1>7. AllRead => AllRead'
  BY <1>1, <1>3, SameKind DEF AllRead
<1>8. At(n + 1)'
  BY <1>5, <1>6 DEF At
<1> QED BY <1>1, <1>5, <1>7, <1>8, SameKind, FrameInvFrom DEF FrameInv

\* What a packet that completes a frame does to the frames that were given.
LEMMA UsedGot ==
    ASSUME FrameInv, NEW loss \in BOOLEAN, UsePacket(loss)
    PROVE  /\ \A P : Got(P) => Got(P)'
           /\ \A P : completes' /\ IsReadOf(Copy', P) => Got(P)'
           /\ AllRead /\ (completes' => \E f \in SenderFrames : IsReadOf(Copy', f.parts))
                 => AllRead'
<1>1. /\ IF completes' /\ list' = <<>> THEN Deliver ELSE UNCHANGED <<frames, inReader>>
      /\ scheduled' = (completes' /\ list' # <<>>) /\ kind' = kind
      /\ ~scheduled
  BY TakeFacts DEF UsePacket, netVars
<1>2. frames \in Seq(FrameRecords) /\ DOMAIN frames = 1 .. Len(frames) /\ Len(frames) \in Nat
  BY FrameFacts, LenProperties
<1>3. ASSUME completes', list' = <<>>
      PROVE  /\ DOMAIN frames' = 1 .. Len(frames) + 1
             /\ \A i \in DOMAIN frames : frames'[i] = frames[i]
             /\ frames'[Len(frames) + 1] = Copy'
  <2>1. frames' = Append(frames, Copy')
    BY <1>1, <1>3 DEF Deliver, Copy
  <2>2. Copy' \in FrameRecords
    BY CopiedFacts DEF Copy, FrameRecords, FrameInv
  <2> HIDE DEF FrameRecords
  <2> QED BY <1>2, <2>1, <2>2, AppendProperties, LenProperties
<1>4. ~(completes' /\ list' = <<>>) => frames' = frames
  BY <1>1
<1>5. ASSUME NEW P, Got(P) PROVE Got(P)'
  <2>1. PICK i \in DOMAIN frames : IsReadOf(frames[i], P)
    BY <1>1, <1>5 DEF Got
  <2>2. i \in DOMAIN frames' /\ frames'[i] = frames[i]
    BY <1>2, <1>3, <1>4
  <2> QED BY <2>1, <2>2 DEF Got
<1>6. ASSUME NEW P, completes', IsReadOf(Copy', P) PROVE Got(P)'
  <2>1. CASE list' = <<>>
    <3>1. Len(frames) + 1 \in DOMAIN frames' /\ frames'[Len(frames) + 1] = Copy'
      BY <1>2, <1>3, <1>6, <2>1
    <3> QED BY <1>6, <3>1 DEF Got
  <2>2. CASE list' # <<>>
    BY <1>1, <1>6, <2>2 DEF Got
  <2> QED BY <2>1, <2>2
<1>7. ASSUME AllRead, completes' => \E f \in SenderFrames : IsReadOf(Copy', f.parts)
      PROVE  AllRead'
  <2>1. ASSUME NEW i \in DOMAIN frames'
        PROVE  \E f \in SenderFrames : IsReadOf(frames'[i], f.parts)
    <3>1. CASE i \in DOMAIN frames
      BY <1>3, <1>4, <1>7, <3>1 DEF AllRead
    <3>2. CASE i \notin DOMAIN frames
      <4>1. completes' /\ list' = <<>>
        BY <1>4, <2>1, <3>2
      <4>2. i = Len(frames) + 1
        BY <1>2, <1>3, <2>1, <3>2, <4>1
      <4> QED BY <1>3, <1>7, <4>1, <4>2
    <3> QED BY <3>1, <3>2
  <2> QED BY <1>1, <1>7, <2>1, SameKind DEF AllRead
<1> QED BY <1>5, <1>6, <1>7

LEMMA UsePacketFollows ==
    ASSUME FrameInv, IInv', NEW loss \in BOOLEAN, UsePacket(loss) PROVE FrameInv'
<1> DEFINE u == list[1].uses
<1>1. /\ TakesNext(loss) /\ kind[list[1].n] # "empty" /\ Next1 = list[1]
      /\ lossInFrame' = FALSE /\ needDelivery' = ~completes'
      /\ IF kind[list[1].n] = "pair" /\ u = 0 THEN KeepForNext ELSE Release
      /\ misled' = (misled \/ (kind[list[1].n] = "pair" /\ ~completes'))
      /\ UNCHANGED <<kind, inProgress, stored>>
  BY TakeFacts DEF UsePacket, netVars
<1>2. PICK n \in Packets : n = list[1].n
  BY <1>1, TakeFacts
<1>3. /\ n \in Nat /\ n \in DOMAIN kind /\ kind[n] \in Kinds /\ ~scheduled /\ u \in 0 .. 1
      /\ list # <<>>
  BY <1>1, <1>2, TakeFacts, FrameFacts DEF Entries
<1>4. PICK x \in Positions : TakenAt(x, loss)
  BY <1>1, TakeFacts
\* The frame, unless the source was misled.
<1>5. ASSUME ~misled'
      PROVE  /\ ~misled /\ kind[n] # "empty"
             /\ completes' <=> kind[n] \notin {"begin", "middle"}
             /\ u = 1 => kind[n] = "pair"
             /\ kind[n] \in {"single", "pair", "begin"} => IsReadOf(Copy', {<<n, u + 1>>})
             /\ kind[n] \in {"middle", "end"} =>
                   \E b \in DOMAIN kind : Begun(b, n) /\ IsReadOf(Copy', PartsOf(b, n))
  BY <1>2, <1>5, UsedFrame
<1> HIDE DEF u
\* The first part of packet n, or the second.
<1>p. /\ u = 0 => {<<n, u + 1>>} = {<<n, 1>>}
      /\ u = 1 => {<<n, u + 1>>} = {<<n, 2>>}
  OBVIOUS
<1>6. ASSUME ~misled', NEW b \in DOMAIN kind, Begun(b, n), kind[n] \in {"middle", "end"}
      PROVE  IsReadOf(Copy', PartsOf(b, n))
  <2>1. PICK c \in DOMAIN kind : Begun(c, n) /\ IsReadOf(Copy', PartsOf(c, n))
    BY <1>5, <1>6
  <2>2. b = c
    BY <1>3, <1>6, <2>1, BegunOnce
  <2> QED BY <2>1, <2>2
<1>7. ASSUME ~misled', completes' PROVE \E f \in SenderFrames : IsReadOf(Copy', f.parts)
  <2>1. CASE kind[n] \in {"single", "pair"}
    <3>1. u = 0 \/ (u = 1 /\ kind[n] = "pair")
      BY <1>3, <1>5, <1>7
    <3> DEFINE f == [b |-> n, e |-> n, parts |-> {<<n, u + 1>>}]
    <3>2. f.parts = {<<n, 1>>} \/ (f.parts = {<<n, 2>>} /\ kind[n] = "pair")
      <4>1. CASE u = 0
        BY <1>p, <4>1
      <4>2. CASE u = 1 /\ kind[n] = "pair"
        BY <1>p, <4>2
      <4> QED BY <3>1, <4>1, <4>2
    <3>3. IsSenderFrame(f)
      BY <1>3, <2>1, <3>2 DEF IsSenderFrame
    <3>4. f \in SenderFrames
      BY <3>3, FrameKinds
    <3> QED BY <1>5, <1>7, <2>1, <3>4
  <2>2. CASE kind[n] = "end"
    <3>1. PICK b \in DOMAIN kind : Begun(b, n) /\ IsReadOf(Copy', PartsOf(b, n))
      BY <1>5, <1>7, <2>2
    <3> DEFINE f == [b |-> b, e |-> n, parts |-> PartsOf(b, n)]
    <3>2. IsSenderFrame(f)
      BY <1>3, <2>2, <3>1 DEF IsSenderFrame
    <3>3. f \in SenderFrames
      BY <3>2, FrameKinds
    <3> QED BY <3>1, <3>3
  <2> QED BY <1>3, <1>5, <1>7, <2>1, <2>2 DEF Kinds
<1>8. ~misled' => AllRead'
  BY <1>1, <1>7, UsedGot DEF FrameInv
<1>9. ASSUME ~misled', NEW f \in SenderFrames, f.e < n, f.b .. f.e \subseteq stored
      PROVE  Got(f.parts)'
  BY <1>2, <1>4, <1>5, <1>9, GotBefore, UsedGot
<1>10. CASE KeepForNext /\ kind[n] = "pair" /\ u = 0
  <2>1. /\ expected' = SeqNo(n) /\ n \in Positions /\ StoredUpto(n)'
        /\ \A i \in DOMAIN list' : list'[i].n <= Len(kind')
        /\ seen'
    BY <1>1, <1>2, <1>10, StoredKept
  <2>2. ASSUME ~misled' PROVE Followed(n)'
    <3>1. completes' /\ ~needDelivery' /\ IsReadOf(Copy', {<<n, 1>>})
      BY <1>1, <1>5, <1>10, <2>2
    <3>2. Got({<<n, 1>>})'
      BY <3>1, UsedGot
    <3>3. \A b \in DOMAIN kind : ~Begun(b, n)
      BY <1>3, <1>10 DEF FrameInv, Disciplined
    <3>4. \A b \in DOMAIN kind' : ~Begun(b, n)'
      BY <1>1, <3>3, SameKind
    <3>5. \A f \in SenderFrames' : f.e < n /\ f.b .. f.e \subseteq stored' => Got(f.parts)'
      BY <1>1, <1>9, <2>2, SameKind
    <3> QED BY <1>1, <1>10, <3>1, <3>2, <3>4, <3>5 DEF Followed
  <2>3. At(n)'
    BY <2>1, <2>2 DEF At
  <2> QED BY <1>1, <1>8, <2>1, <2>3, SameKind, FrameInvFrom DEF FrameInv
<1>11. CASE Release /\ ~(kind[n] = "pair" /\ u = 0)
  <2>1. /\ expected' = SeqNo(n + 1) /\ n + 1 \in Positions /\ StoredUpto(n + 1)'
        /\ \A i \in DOMAIN list' : list'[i].n <= Len(kind')
        /\ seen' /\ ~HeadUsed'
    BY <1>1, <1>2, <1>11, StoredReleased
  <2>2. ASSUME ~misled' PROVE Followed(n + 1)'
    <3>1. ASSUME NEW b \in DOMAIN kind, Begun(b, n + 1)
          PROVE  Holding(b, n + 1)'
      <4>1. (n + 1) - 1 = n /\ PartsOf(b, n)' = PartsOf(b, n)
        BY <1>1, <1>3, SameKind
      <4>2. CASE b = n /\ kind[n] = "begin"
        <5>1. u = 0 /\ needDelivery' /\ IsReadOf(Copy', {<<n, u + 1>>})
          <6>1. u # 1 /\ ~completes' /\ IsReadOf(Copy', {<<n, u + 1>>})
            BY <1>5, <2>2, <4>2
          <6>2. u = 0
            BY <1>3, <6>1
          <6>3. needDelivery' = ~completes'
            BY <1>1
          <6> QED BY <6>1, <6>2, <6>3
        <5>2. PartsOf(b, n) = {<<n, 1>>}
          BY <1>2, <4>2, PartsOfOne
        <5> QED BY <1>p, <4>1, <4>2, <5>1, <5>2 DEF Holding
      <4>3. CASE Begun(b, n) /\ kind[n] \in {"middle", "empty"}
        <5>1. kind[n] = "middle" /\ needDelivery'
          BY <1>1, <1>5, <2>2, <4>3
        <5>2. IsReadOf(Copy', PartsOf(b, n))
          BY <1>6, <2>2, <4>3, <5>1
        <5> QED BY <4>1, <5>1, <5>2 DEF Holding
      <4> QED BY <1>3, <3>1, <4>2, <4>3, BegunNext
    <3>2. needDelivery' => \E b \in DOMAIN kind : Begun(b, n + 1)
      <4>1. ASSUME needDelivery' PROVE \E b \in DOMAIN kind : Begun(b, n + 1)
        <5>1. kind[n] \in {"begin", "middle"}
          BY <1>1, <1>5, <2>2, <4>1
        <5>2. CASE kind[n] = "begin"
          BY <1>3, <5>2, BegunNext
        <5>3. CASE kind[n] = "middle"
          <6>1. PICK b \in DOMAIN kind : Begun(b, n)
            BY <1>5, <2>2, <5>3
          <6> QED BY <1>3, <5>3, <6>1, BegunNext
        <5> QED BY <5>1, <5>2, <5>3
      <4> QED BY <4>1
    <3>3. ASSUME NEW f \in SenderFrames, f.e < n + 1, f.b .. f.e \subseteq stored
          PROVE  Got(f.parts)'
      <4>1. f.e \in Nat /\ f.b \in DOMAIN kind /\ IsSenderFrame(f)
        BY FrameFacts, FrameEnds, FrameKinds
      <4>2. CASE f.e < n
        BY <1>9, <2>2, <3>3, <4>2
      <4>3. CASE f.e = n /\ kind[n] = "end"
        <5>1. Begun(f.b, n) /\ f.parts = PartsOf(f.b, n)
          BY <4>1, <4>3 DEF IsSenderFrame
        <5>2. IsReadOf(Copy', f.parts) /\ completes'
          BY <1>5, <1>6, <2>2, <4>1, <4>3, <5>1
        <5> QED BY <5>2, UsedGot
      <4>4. CASE f.e = n /\ kind[n] = "single"
        <5>1. f.parts = {<<n, 1>>}
          BY <4>1, <4>4 DEF IsSenderFrame
        <5>2. u = 0 /\ completes' /\ IsReadOf(Copy', {<<n, u + 1>>})
          BY <1>3, <1>5, <2>2, <4>4
        <5> QED BY <1>p, <5>1, <5>2, UsedGot
      <4>5. CASE f.e = n /\ kind[n] = "pair"
        <5>1. f.parts = {<<n, 1>>} \/ f.parts = {<<n, 2>>}
          BY <4>1, <4>5 DEF IsSenderFrame
        <5>2. u = 1 /\ completes' /\ IsReadOf(Copy', {<<n, u + 1>>})
          BY <1>3, <1>5, <1>11, <2>2, <4>5
        <5>3. HeadUsed /\ x = n /\ Followed(x)
          BY <1>2, <1>3, <1>4, <1>5, <2>2, <5>2 DEF HeadUsed, TakenAt, u
        <5>4. Got({<<n, 1>>})
          BY <5>3 DEF Followed
        <5> QED BY <1>p, <5>1, <5>2, <5>4, UsedGot
      <4>6. f.e = n => kind[n] \in {"single", "pair", "end"}
        BY <4>1 DEF IsSenderFrame
      <4> QED BY <1>3, <3>3, <4>1, <4>2, <4>3, <4>4, <4>5, <4>6
    <3>4. \A b \in DOMAIN kind' : Begun(b, n + 1)' => Holding(b, n + 1)'
      BY <1>1, <3>1, SameKind
    <3>5. needDelivery' => \E b \in DOMAIN kind' : Begun(b, n + 1)'
      BY <1>1, <3>2, SameKind
    <3>6. \A f \in SenderFrames' : f.e < n + 1 /\ f.b .. f.e \subseteq stored' => Got(f.parts)'
      BY <1>1, <3>3, SameKind
    <3> QED BY <1>1, <2>1, <3>4, <3>5, <3>6 DEF Followed
  <2>3. At(n + 1)'
    BY <2>1, <2>2 DEF At
  <2> QED BY <1>1, <1>8, <2>1, <2>3, SameKind, FrameInvFrom DEF FrameInv
<1> QED BY <1>1, <1>2, <1>10, <1>11

-----------------------------------------------------------------------------

LEMMA NextFrameInv == FrameInv /\ [Next]_vars => FrameInv'
<1> SUFFICES ASSUME FrameInv, [Next]_vars PROVE FrameInv'
  OBVIOUS
<1>1. IInv'
  BY NextIInv DEF FrameInv
<1>2. CASE UNCHANGED vars
  BY <1>1, <1>2, QuietKeeps DEF vars, netVars, bufferVars, frameVars
<1>3. ASSUME NEW k \in Kinds, Send(k) PROVE FrameInv'
  BY <1>1, <1>3, SendFollows
<1>4. ASSUME NEW n \in Packets, ReadPacket(n) PROVE FrameInv'
  BY <1>1, <1>4, ReadPacketFollows
<1>5. ASSUME NEW loss \in BOOLEAN,
             RejectEmpty(loss) \/ RejectFragment(loss) \/ UsePacket(loss)
      PROVE  FrameInv'
  BY <1>1, <1>5, RejectEmptyFollows, RejectFragmentFollows, UsePacketFollows
<1>6. CASE ReadPart \/ ReadBad \/ LoopEnds \/ ReaderReturns
  BY <1>1, <1>6, QuietKeeps
     DEF ReadPart, ReadBad, LoopEnds, ReaderReturns, netVars, bufferVars, frameVars
<1>7. CASE RunTask \/ GetNextFrame \/ StopGettingFrames
  BY <1>1, <1>7, RunTaskFollows, GetNextFrameFollows, StopGettingFramesFollows
<1> QED BY <1>2, <1>3, <1>4, <1>5, <1>6, <1>7 DEF Next

LEMMA FrameInvariant == Spec => []FrameInv
  BY InitFrameInv, NextFrameInv, PTL DEF Spec

\* However packets are lost, repeated or reordered, what the reader gets is a
\* frame of the sender, whole, or its beginning and told so: for frames of any
\* number of packets, and any room the reader has.
THEOREM FramesAreWhole == Spec => []WholeFrames
<1>1. FrameInv => WholeFrames
  BY DEF FrameInv, WholeFrames, AllRead
<1> QED BY <1>1, FrameInvariant, PTL

\* A frame all of whose packets came in time is given to the reader.
THEOREM NothingDropped == Spec => []NoFrameDropped
<1>1. FrameInv => NoFrameDropped
  <2> SUFFICES ASSUME FrameInv, ~misled, NEW f \in SenderFrames,
                      f.b .. f.e \subseteq stored,
                      \A i \in DOMAIN list : list[i].n \notin f.b .. f.e
               PROVE  \/ \E i \in DOMAIN frames : IsReadOf(frames[i], f.parts)
                      \/ scheduled /\ IsReadOf(Copy, f.parts)
    BY DEF NoFrameDropped
  <2>1. f.e \in Nat /\ f.b \in Nat /\ f.b <= f.e
    BY FrameEnds, FrameFacts
  <2>2. f.e \in stored /\ f.e \in f.b .. f.e
    BY <2>1
  <2>3. seen
    BY <2>2 DEF FrameInv
  <2>4. PICK x \in Positions : At(x)
    BY <2>3 DEF FrameInv
  <2>5. f.e < x
    BY <2>2, <2>4 DEF At, StoredUpto
  <2>6. Got(f.parts)
    BY <2>4, <2>5 DEF At, Followed
  <2> QED BY <2>6 DEF Got
<1> QED BY <1>1, FrameInvariant, PTL
=============================================================================
