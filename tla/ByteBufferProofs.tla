--------------------------- MODULE ByteBufferProofs ---------------------------
(***************************************************************************)
(* What is proved of byte_buffer, for any number of handles and blocks and *)
(* any size: positions stay in order, every write fits into its block, and *)
(* a handle that has its block to itself reads what it wrote.              *)
(***************************************************************************)
EXTENDS ByteBuffer, SequenceFacts

\* A handle that is not constructed has no block; without one there is no room.
ShapeInv ==
    /\ size[NoBlock] = 0
    /\ \A h \in Handles :
          /\ h \notin live => blk[h] = NoBlock /\ gpos[h] = 0 /\ ppos[h] = 0
          /\ gpos[h] <= ppos[h] /\ ppos[h] <= size[blk[h]]

\* A block with two handles has been marked as shared.
SharedInv ==
    \A g, h \in live : g # h /\ blk[g] = blk[h] /\ blk[h] # NoBlock => blk[h] \in shared

\* ContentsKept, of every handle that is constructed.
KeptInv == \A h \in live : blk[h] \notin shared => Contents(h) = unread[h]

BInv ==
    /\ TypeOK
    /\ ShapeInv
    /\ NoOverrun
    /\ SharedInv
    /\ KeptInv

-----------------------------------------------------------------------------
\* What is read between two positions of a block is a sequence of its words.
LEMMA WindowSeq ==
    ASSUME NEW m \in [Positions -> Int], NEW g \in Positions, NEW p \in Positions, g <= p
    PROVE  LET s == [i \in 1 .. p - g |-> m[g + i - 1]] IN
           /\ s \in Seq(Int)
           /\ Len(s) = p - g
           /\ \A i \in 1 .. p - g : s[i] = m[g + i - 1]
<1> DEFINE s == [i \in 1 .. p - g |-> m[g + i - 1]]
<1>1. p - g \in Nat
  BY MaxSizeAssumption DEF Positions
<1>2. \A i \in 1 .. p - g : g + i - 1 \in Positions
  BY MaxSizeAssumption DEF Positions
<1>3. s \in [1 .. p - g -> Int]
  BY <1>2
<1>4. \A i \in 1 .. p - g : s[i] = m[g + i - 1]
  OBVIOUS
<1> HIDE DEF s
<1>5. s \in Seq(Int) /\ Len(s) = p - g
  BY <1>1, <1>3
<1> QED BY <1>4, <1>5 DEF s

LEMMA ContentsSeq ==
    ASSUME TypeOK, ShapeInv, NEW h \in Handles
    PROVE  /\ Contents(h) \in Seq(Int)
           /\ Gsize(h) \in Nat /\ Gsize(h) <= MaxSize
           /\ Len(Contents(h)) = Gsize(h)
           /\ \A i \in 1 .. Gsize(h) :
                 Contents(h)[i] = mem[blk[h]][gpos[h] + i - 1] /\ gpos[h] + i - 1 \in Positions
<1>1. /\ mem[blk[h]] \in [Positions -> Int]
      /\ gpos[h] \in Positions /\ ppos[h] \in Positions /\ gpos[h] <= ppos[h]
  BY DEF TypeOK, ShapeInv
<1>2. Gsize(h) \in Nat /\ Gsize(h) <= MaxSize
  BY <1>1, MaxSizeAssumption DEF Gsize, Positions
<1>3. \A i \in 1 .. Gsize(h) : gpos[h] + i - 1 \in Positions
  BY <1>1, MaxSizeAssumption DEF Gsize, Positions
<1> QED BY <1>1, <1>2, <1>3, WindowSeq DEF Contents, Gsize

\* Two windows on blocks that agree there show the same.
LEMMA SameWindow ==
    ASSUME NEW m, NEW n, NEW g \in Int, NEW p \in Int,
           \A i \in 1 .. p - g : m[g + i - 1] = n[g + i - 1]
    PROVE  [i \in 1 .. p - g |-> m[g + i - 1]] = [i \in 1 .. p - g |-> n[g + i - 1]]
OBVIOUS

\* A handle shows the same as long as its positions and its block stay.
LEMMA OtherWindow ==
    ASSUME TypeOK, ShapeInv, NEW g \in Handles,
           blk'[g] = blk[g], gpos'[g] = gpos[g], ppos'[g] = ppos[g],
           blk[g] # NoBlock => mem'[blk[g]] = mem[blk[g]]
    PROVE  Contents(g)' = Contents(g)
<1>1. CASE blk[g] = NoBlock
  <2>1. gpos[g] = 0 /\ ppos[g] = 0
    BY <1>1 DEF TypeOK, ShapeInv, Positions
  <2>2. \A i \in 1 .. 0 - 0 : FALSE
    OBVIOUS
  <2>3. Contents(g)' = [i \in 1 .. 0 - 0 |-> mem'[blk[g]][0 + i - 1]]
        /\ Contents(g) = [i \in 1 .. 0 - 0 |-> mem[blk[g]][0 + i - 1]]
    BY <2>1 DEF Contents, Gsize
  <2> QED BY <2>2, <2>3
<1>2. CASE blk[g] # NoBlock
  BY <1>2 DEF Contents, Gsize
<1> QED BY <1>1, <1>2

\* f is m with the words ws at word p of block b.
Wrote(f, m, b, p, ws) ==
    /\ f \in [Blocks \cup {NoBlock} -> [Positions -> Int]]
    /\ \A c \in Blocks \cup {NoBlock} : c # b => f[c] = m[c]
    /\ \A i \in Positions : i \in p .. p + Len(ws) - 1 => f[b][i] = ws[i - p + 1]
    /\ \A i \in Positions : i \notin p .. p + Len(ws) - 1 => f[b][i] = m[b][i]

\* memcpy changes the words it is given, and nothing else.
LEMMA PutWrote ==
    ASSUME NEW m \in [Blocks \cup {NoBlock} -> [Positions -> Int]],
           NEW b \in Blocks \cup {NoBlock}, NEW p \in Positions, NEW ws \in Seq(Int)
    PROVE  Wrote(Put(m, b, p, ws), m, b, p, ws)
<1>1. Len(ws) \in Nat /\ \A j \in 1 .. Len(ws) : ws[j] \in Int
  BY LenProperties, ElementOfSeq
<1>2. \A i \in p .. p + Len(ws) - 1 : i - p + 1 \in 1 .. Len(ws)
  BY <1>1, MaxSizeAssumption DEF Positions
<1>3. [i \in Positions |-> IF i \in p .. p + Len(ws) - 1 THEN ws[i - p + 1] ELSE m[b][i]]
        \in [Positions -> Int]
  BY <1>1, <1>2
<1> QED BY <1>3 DEF Put, Wrote

\* Releasing a handle's block changes no other block.
LEMMA ReleasedType ==
    ASSUME NEW m \in [Blocks \cup {NoBlock} -> [Positions -> Int]], NEW h \in Handles,
           blk \in [Handles -> Blocks \cup {NoBlock}]
    PROVE  /\ Released(m, h) \in [Blocks \cup {NoBlock} -> [Positions -> Int]]
           /\ \A c \in Blocks \cup {NoBlock} : c # blk[h] => Released(m, h)[c] = m[c]
           /\ blk[h] = NoBlock => Released(m, h) = m
<1>1. 0 \in Positions
  BY MaxSizeAssumption DEF Positions
<1>2. [i \in Positions |-> IF Others(h) = {} THEN 0
                           ELSE IF i = 0 THEN m[blk[h]][0] - 1 ELSE m[blk[h]][i]]
        \in [Positions -> Int]
  BY <1>1
<1> QED BY <1>2 DEF Released

\* What a window shows after writing: s as before, and the words ws behind it.
LEMMA WindowAfterWrite ==
    ASSUME NEW s \in Seq(Int), NEW ws \in Seq(Int), NEW t,
           t = [i \in 1 .. Len(s) + Len(ws) |->
                  IF i <= Len(s) THEN s[i] ELSE ws[i - Len(s)]]
    PROVE  t = s \o ws
<1>1. Len(s) \in Nat /\ Len(ws) \in Nat
  BY LenProperties
<1>2. t \in Seq(Int) /\ Len(t) = Len(s) + Len(ws)
  <2>1. \A i \in 1 .. Len(s) : s[i] \in Int
    BY ElementOfSeq
  <2>2. \A i \in 1 .. Len(ws) : ws[i] \in Int
    BY ElementOfSeq
  <2>3. \A i \in 1 .. Len(s) + Len(ws) : ~(i <= Len(s)) => i - Len(s) \in 1 .. Len(ws)
    BY <1>1
  <2>4. \A i \in 1 .. Len(s) + Len(ws) : i <= Len(s) => i \in 1 .. Len(s)
    BY <1>1
  <2>5. t \in [1 .. Len(s) + Len(ws) -> Int]
    BY <2>1, <2>2, <2>3, <2>4
  <2> QED BY <1>1, <2>5
<1>3. /\ s \o ws \in Seq(Int) /\ Len(s \o ws) = Len(s) + Len(ws)
      /\ \A i \in 1 .. Len(s) + Len(ws) :
            (s \o ws)[i] = IF i <= Len(s) THEN s[i] ELSE ws[i - Len(s)]
  BY ConcatProperties
<1> QED BY <1>2, <1>3, SeqEqual

\* f is m with the words s and then ws at the start of block b.
WroteTwo(f, m, b, s, ws) ==
    /\ f \in [Blocks \cup {NoBlock} -> [Positions -> Int]]
    /\ \A c \in Blocks \cup {NoBlock} : c # b => f[c] = m[c]
    /\ [i \in 1 .. Len(s) + Len(ws) |-> f[b][i - 1]] = s \o ws

\* Two writes, one behind the other, from the start of a block.
LEMMA TwoPuts ==
    ASSUME NEW m \in [Blocks \cup {NoBlock} -> [Positions -> Int]],
           NEW b \in Blocks \cup {NoBlock},
           NEW s \in Seq(Int), NEW ws \in Seq(Int),
           Len(s) \in Positions, Len(s) + Len(ws) <= MaxSize
    PROVE  WroteTwo(Put(Put(m, b, 0, s), b, Len(s), ws), m, b, s, ws)
<1> DEFINE f == Put(Put(m, b, 0, s), b, Len(s), ws)
<1> DEFINE first == Put(m, b, 0, s)
<1>1. Len(s) \in Nat /\ Len(ws) \in Nat /\ 0 \in Positions
  BY LenProperties, MaxSizeAssumption DEF Positions
<1>2. Wrote(first, m, b, 0, s)
  BY <1>1, PutWrote
<1> HIDE DEF first, f
<1>3. f = Put(first, b, Len(s), ws) /\ first \in [Blocks \cup {NoBlock} -> [Positions -> Int]]
  BY <1>2 DEF first, f, Wrote
<1>4. Wrote(f, first, b, Len(s), ws)
  BY <1>3, PutWrote
<1>5. ASSUME NEW i \in 1 .. Len(s) + Len(ws)
      PROVE  f[b][i - 1] = IF i <= Len(s) THEN s[i] ELSE ws[i - Len(s)]
  <2>1. i - 1 \in Positions
    BY <1>1, MaxSizeAssumption DEF Positions
  <2>2. CASE i <= Len(s)
    <3>1. i - 1 \in 0 .. 0 + Len(s) - 1 /\ i - 1 \notin Len(s) .. Len(s) + Len(ws) - 1
      BY <1>1, <2>2
    <3>2. f[b][i - 1] = s[i - 1 - 0 + 1]
      BY <2>1, <3>1, <1>2, <1>4 DEF Wrote
    <3> QED BY <3>2, <2>2
  <2>3. CASE ~(i <= Len(s))
    <3>1. i - 1 \in Len(s) .. Len(s) + Len(ws) - 1
      BY <1>1, <2>3
    <3>2. f[b][i - 1] = ws[i - 1 - Len(s) + 1]
      BY <2>1, <3>1, <1>4 DEF Wrote
    <3>3. i - 1 - Len(s) + 1 = i - Len(s)
      BY <1>1
    <3> QED BY <3>2, <3>3, <2>3
  <2> QED BY <2>2, <2>3
<1> DEFINE t == [i \in 1 .. Len(s) + Len(ws) |-> f[b][i - 1]]
<1>6. t = [i \in 1 .. Len(s) + Len(ws) |-> IF i <= Len(s) THEN s[i] ELSE ws[i - Len(s)]]
  BY <1>5
<1>7. t = s \o ws
  BY <1>6, WindowAfterWrite
<1>8. f \in [Blocks \cup {NoBlock} -> [Positions -> Int]]
  BY <1>4 DEF Wrote
<1>9. \A c \in Blocks \cup {NoBlock} : c # b => f[c] = m[c]
  BY <1>2, <1>4 DEF Wrote
<1> QED BY <1>7, <1>8, <1>9 DEF WroteTwo, f

\* The contents of a handle whose read position is at the start of its block.
LEMMA WindowFromStart ==
    ASSUME NEW h \in Handles, gpos'[h] = 0, ppos'[h] \in Nat
    PROVE  Contents(h)' = [i \in 1 .. ppos'[h] |-> mem'[blk'[h]][i - 1]]
<1>1. Contents(h)' = [i \in 1 .. ppos'[h] - 0 |-> mem'[blk'[h]][0 + i - 1]]
  BY DEF Contents, Gsize
<1>2. ppos'[h] - 0 = ppos'[h] /\ \A i \in 1 .. ppos'[h] : 0 + i - 1 = i - 1
  OBVIOUS
<1> QED BY <1>1, <1>2

-----------------------------------------------------------------------------
LEMMA BufferInit == Init => BInv
<1> SUFFICES ASSUME Init PROVE BInv
  OBVIOUS
<1>1. 0 \in Positions /\ 0 <= 0
  BY MaxSizeAssumption DEF Positions
<1>2. TypeOK
  <2>1. unread \in [Handles -> Seq(Int)]
    BY EmptySeq DEF Init
  <2>2. [i \in Positions |-> 0] \in [Positions -> Int]
    OBVIOUS
  <2>3. mem \in [Blocks \cup {NoBlock} -> [Positions -> Int]]
    BY <2>2 DEF Init
  <2> QED BY <1>1, <2>1, <2>3 DEF Init, TypeOK
<1>3. ShapeInv /\ NoOverrun /\ SharedInv /\ KeptInv
  BY DEF Init, ShapeInv, NoOverrun, SharedInv, KeptInv
<1> QED BY <1>2, <1>3 DEF BInv

\* What every way of writing ws does: room is found behind the contents, and no
\* other handle that has its block to itself sees a change.
Filled(h, ws) ==
    /\ mem' \in [Blocks \cup {NoBlock} -> [Positions -> Int]]
    /\ size' \in [Blocks \cup {NoBlock} -> Positions]
    /\ size'[NoBlock] = 0
    /\ \E b \in Blocks \cup {NoBlock} : blk' = [blk EXCEPT ![h] = b]
    /\ \E g \in Positions : gpos' = [gpos EXCEPT ![h] = g]
    /\ \E p \in Positions : ppos' = [ppos EXCEPT ![h] = p]
    /\ gpos'[h] <= ppos'[h] /\ ppos'[h] <= size'[blk'[h]]
    /\ allocated' \in SUBSET Blocks
    /\ shared' \in SUBSET Blocks
    /\ overrun' = FALSE
    /\ Contents(h)' = Contents(h) \o ws
    /\ \A g \in live \ {h} :
          /\ size'[blk[g]] = size[blk[g]]
          /\ blk[g] \notin shared' => blk[g] \notin shared /\ Contents(g)' = Contents(g)
          /\ blk'[h] = blk[g] /\ blk[g] # NoBlock => blk[g] \in shared'
          /\ blk[g] \in shared => blk[g] \in shared'

LEMMA InPlaceFills ==
    ASSUME BInv, NEW h \in live, NEW n \in Positions, NEW ws \in Seq(Int), Len(ws) <= n,
           InPlace(h, n, ws)
    PROVE  Filled(h, ws)
<1> USE DEF BInv
<1>1. /\ h \in Handles /\ blk[h] \in Blocks \cup {NoBlock}
      /\ gpos[h] \in Positions /\ ppos[h] \in Positions /\ gpos[h] <= ppos[h]
      /\ size[blk[h]] \in Positions /\ ppos[h] <= size[blk[h]]
      /\ mem \in [Blocks \cup {NoBlock} -> [Positions -> Int]]
  BY DEF TypeOK, ShapeInv
<1>2. Len(ws) \in Nat
  BY LenProperties
<1>3. ppos[h] + Len(ws) \in Positions /\ ppos[h] + Len(ws) <= size[blk[h]]
  BY <1>1, <1>2, MaxSizeAssumption DEF InPlace, Psize, Positions
<1>4. ppos' = [ppos EXCEPT ![h] = ppos[h] + Len(ws)] /\ overrun' = FALSE
  <2>1. Len(ws) <= size[blk[h]] - ppos[h]
    BY <1>1, <1>2, <1>3 DEF Positions
  <2>2. ~(ppos[h] + Len(ws) > size[blk[h]])
    BY <1>1, <1>2, <1>3 DEF Positions
  <2> QED BY <2>1, <2>2 DEF InPlace, Advance, NoOverrun
<1>5. ppos'[h] = ppos[h] + Len(ws) /\ gpos' = gpos /\ blk' = blk /\ size' = size
      /\ shared' = shared /\ allocated' = allocated
  BY <1>1, <1>4 DEF InPlace, TypeOK
<1>6. mem' = Put(mem, blk[h], ppos[h], ws)
  BY DEF InPlace
<1>7. Wrote(mem', mem, blk[h], ppos[h], ws)
  BY <1>1, <1>6, PutWrote
<1>8. Contents(h)' = Contents(h) \o ws
  <2> DEFINE s == Contents(h)
             t == [i \in 1 .. Len(s) + Len(ws) |-> mem'[blk[h]][gpos[h] + i - 1]]
  <2>1. /\ s \in Seq(Int) /\ Gsize(h) \in Nat /\ Len(s) = Gsize(h)
        /\ \A i \in 1 .. Gsize(h) :
              s[i] = mem[blk[h]][gpos[h] + i - 1] /\ gpos[h] + i - 1 \in Positions
    BY <1>1, ContentsSeq
  <2>2. Gsize(h)' = Len(s) + Len(ws)
    BY <2>1, <1>1, <1>2, <1>5 DEF Gsize, Positions
  <2>3. Contents(h)' = t
    BY <2>2, <1>5 DEF Contents
  <2> HIDE DEF s
  <2>4. ASSUME NEW i \in 1 .. Len(s) + Len(ws)
        PROVE  mem'[blk[h]][gpos[h] + i - 1] = IF i <= Len(s) THEN s[i] ELSE ws[i - Len(s)]
    <3>1. Len(s) = ppos[h] - gpos[h]
      BY <2>1 DEF Gsize
    <3>2. CASE i <= Len(s)
      <4>1. i \in 1 .. Gsize(h)
        BY <2>1, <3>2
      <4>2. gpos[h] + i - 1 \notin ppos[h] .. ppos[h] + Len(ws) - 1
        BY <3>1, <3>2, <1>1, <1>2 DEF Positions
      <4> QED BY <4>1, <4>2, <2>1, <1>7, <3>2 DEF Wrote
    <3>3. CASE ~(i <= Len(s))
      <4>1. gpos[h] + i - 1 \in ppos[h] .. ppos[h] + Len(ws) - 1
        BY <3>1, <3>3, <1>1, <1>2 DEF Positions
      <4>2. gpos[h] + i - 1 \in Positions
        <5>1. ppos[h] \in Int /\ ppos[h] >= 0 /\ ppos[h] + Len(ws) <= MaxSize
          BY <1>1, <1>3 DEF Positions
        <5>2. /\ gpos[h] + i - 1 \in Int
              /\ gpos[h] + i - 1 >= ppos[h] /\ gpos[h] + i - 1 <= ppos[h] + Len(ws) - 1
          BY <4>1
        <5> HIDE <1>1, <1>3, <4>1
        <5> QED BY <5>1, <5>2, <1>2, MaxSizeAssumption DEF Positions
      <4>3. (gpos[h] + i - 1) - ppos[h] + 1 = i - Len(s)
        BY <3>1, <1>1 DEF Positions
      <4> QED BY <4>1, <4>2, <4>3, <1>7, <3>3 DEF Wrote
    <3> QED BY <3>2, <3>3
  <2>5. t = [i \in 1 .. Len(s) + Len(ws) |-> IF i <= Len(s) THEN s[i] ELSE ws[i - Len(s)]]
    BY <2>4
  <2>6. t = s \o ws
    BY <2>1, <2>5, WindowAfterWrite
  <2> QED BY <2>3, <2>6 DEF s
<1>9. ASSUME NEW g \in live \ {h}
      PROVE  /\ size'[blk[g]] = size[blk[g]]
             /\ blk[g] \notin shared' => blk[g] \notin shared /\ Contents(g)' = Contents(g)
             /\ blk'[h] = blk[g] /\ blk[g] # NoBlock => blk[g] \in shared'
             /\ blk[g] \in shared => blk[g] \in shared'
  <2>1. g \in Handles /\ blk[g] \in Blocks \cup {NoBlock} /\ gpos[g] \in Positions
        /\ ppos[g] \in Positions /\ ppos'[g] = ppos[g]
    BY <1>4 DEF TypeOK
  <2>2. blk'[h] = blk[g] /\ blk[g] # NoBlock => blk[g] \in shared'
    BY <1>5 DEF SharedInv
  <2>3. ASSUME blk[g] \notin shared PROVE Contents(g)' = Contents(g)
    <3>1. blk[g] # NoBlock => blk[g] # blk[h]
      BY <2>3 DEF SharedInv
    <3>2. blk[g] # NoBlock => mem'[blk[g]] = mem[blk[g]]
      BY <3>1, <2>1, <1>7 DEF Wrote
    <3> QED BY <3>2, <2>1, <1>5, OtherWindow
  <2> QED BY <2>2, <2>3, <1>5
<1>10. gpos'[h] <= ppos'[h] /\ ppos'[h] <= size'[blk'[h]]
  BY <1>1, <1>2, <1>3, <1>5 DEF Positions
<1>11. /\ blk' = [blk EXCEPT ![h] = blk[h]] /\ gpos' = [gpos EXCEPT ![h] = gpos[h]]
       /\ size' \in [Blocks \cup {NoBlock} -> Positions] /\ size'[NoBlock] = 0
       /\ allocated' \in SUBSET Blocks /\ shared' \in SUBSET Blocks
  BY <1>5 DEF TypeOK, ShapeInv
<1>12. mem' \in [Blocks \cup {NoBlock} -> [Positions -> Int]]
  BY <1>7 DEF Wrote
<1> QED BY <1>1, <1>3, <1>4, <1>8, <1>9, <1>10, <1>11, <1>12 DEF Filled

LEMMA ShiftFills ==
    ASSUME BInv, NEW h \in live, NEW n \in Positions, NEW ws \in Seq(Int), Len(ws) <= n,
           Shift(h, n, ws)
    PROVE  Filled(h, ws)
<1> USE DEF BInv
<1>1. /\ h \in Handles /\ blk[h] \in Blocks \cup {NoBlock}
      /\ size[blk[h]] \in Positions /\ Gsize(h) \in Nat /\ Gsize(h) <= MaxSize
      /\ Contents(h) \in Seq(Int) /\ Len(Contents(h)) = Gsize(h)
      /\ mem \in [Blocks \cup {NoBlock} -> [Positions -> Int]]
  BY ContentsSeq DEF TypeOK
<1>2. Len(ws) \in Nat
  BY LenProperties
<1>3. /\ Gsize(h) \in Positions
      /\ Gsize(h) + Len(ws) \in Positions /\ Gsize(h) + Len(ws) <= size[blk[h]]
  <2>1. size[blk[h]] - Gsize(h) >= n
    BY DEF Shift
  <2> QED BY <2>1, <1>1, <1>2, MaxSizeAssumption DEF Positions
<1>4. /\ ppos' = [ppos EXCEPT ![h] = Gsize(h) + Len(ws)] /\ overrun' = FALSE
      /\ gpos' = [gpos EXCEPT ![h] = 0]
  <2>1. Len(ws) <= size[blk[h]] - Gsize(h) /\ ~(Gsize(h) + Len(ws) > size[blk[h]])
    BY <1>1, <1>2, <1>3 DEF Positions
  <2> QED BY <2>1 DEF Shift, Advance, NoOverrun
<1>5. /\ ppos'[h] = Gsize(h) + Len(ws) /\ gpos'[h] = 0
      /\ blk' = blk /\ size' = size /\ shared' = shared /\ allocated' = allocated
  BY <1>1, <1>4 DEF Shift, TypeOK
<1>6. mem' = Put(Put(mem, blk[h], 0, Contents(h)), blk[h], Len(Contents(h)), ws)
  BY <1>1 DEF Shift
<1>7. WroteTwo(mem', mem, blk[h], Contents(h), ws)
  <2>1. Len(Contents(h)) \in Positions /\ Len(Contents(h)) + Len(ws) <= MaxSize
    BY <1>1, <1>2, <1>3, MaxSizeAssumption DEF Positions
  <2> QED BY <2>1, <1>1, <1>6, TwoPuts
<1>8. Contents(h)' = Contents(h) \o ws
  <2>1. ppos'[h] = Len(Contents(h)) + Len(ws) /\ ppos'[h] \in Nat
    BY <1>1, <1>2, <1>5
  <2>2. Contents(h)' = [i \in 1 .. ppos'[h] |-> mem'[blk'[h]][i - 1]]
    BY <2>1, <1>1, <1>5, WindowFromStart
  <2> QED BY <2>1, <2>2, <1>5, <1>7 DEF WroteTwo
<1>9. ASSUME NEW g \in live \ {h}
      PROVE  /\ size'[blk[g]] = size[blk[g]]
             /\ blk[g] \notin shared' => blk[g] \notin shared /\ Contents(g)' = Contents(g)
             /\ blk'[h] = blk[g] /\ blk[g] # NoBlock => blk[g] \in shared'
             /\ blk[g] \in shared => blk[g] \in shared'
  <2>1. g \in Handles /\ blk[g] \in Blocks \cup {NoBlock}
        /\ gpos'[g] = gpos[g] /\ ppos'[g] = ppos[g]
    BY <1>4 DEF TypeOK
  <2>2. blk'[h] = blk[g] /\ blk[g] # NoBlock => blk[g] \in shared'
    BY <1>5 DEF SharedInv
  <2>3. ASSUME blk[g] \notin shared PROVE Contents(g)' = Contents(g)
    <3>1. blk[g] # NoBlock => mem'[blk[g]] = mem[blk[g]]
      BY <2>1, <2>3, <1>7 DEF SharedInv, WroteTwo
    <3> QED BY <3>1, <2>1, <1>5, OtherWindow
  <2> QED BY <2>2, <2>3, <1>5
<1>10. gpos'[h] <= ppos'[h] /\ ppos'[h] <= size'[blk'[h]]
  BY <1>1, <1>2, <1>3, <1>5 DEF Positions
<1>11. /\ blk' = [blk EXCEPT ![h] = blk[h]] /\ 0 \in Positions
       /\ size' \in [Blocks \cup {NoBlock} -> Positions] /\ size'[NoBlock] = 0
       /\ allocated' \in SUBSET Blocks /\ shared' \in SUBSET Blocks
  BY <1>5, MaxSizeAssumption DEF TypeOK, ShapeInv, Positions
<1>12. mem' \in [Blocks \cup {NoBlock} -> [Positions -> Int]]
  BY <1>7 DEF WroteTwo
<1> QED BY <1>1, <1>3, <1>4, <1>8, <1>9, <1>10, <1>11, <1>12 DEF Filled

LEMMA GrowFills ==
    ASSUME BInv, NEW h \in live, NEW n \in Positions, NEW ws \in Seq(Int), Len(ws) <= n,
           Grow(h, n, ws)
    PROVE  Filled(h, ws)
<1> USE DEF BInv
<1>1. /\ h \in Handles /\ blk[h] \in Blocks \cup {NoBlock}
      /\ Gsize(h) \in Nat /\ Gsize(h) <= MaxSize
      /\ Contents(h) \in Seq(Int) /\ Len(Contents(h)) = Gsize(h)
      /\ mem \in [Blocks \cup {NoBlock} -> [Positions -> Int]]
  BY ContentsSeq DEF TypeOK
<1>2. Len(ws) \in Nat /\ n \in Nat
  BY LenProperties DEF Positions
<1>3. PICK b \in Free :
          /\ mem' = Released(Put(Put([mem EXCEPT ![b] = Fresh], b, 0, Contents(h)),
                                 b, Gsize(h), ws), h)
          /\ allocated' = StillAllocated(h) \cup {b}
          /\ blk' = [blk EXCEPT ![h] = b]
          /\ size' = [size EXCEPT ![b] = NewSize(h, n)]
          /\ shared' = shared \ {b}
  BY DEF Grow
<1>4. b \in Blocks /\ b # NoBlock /\ \A g \in live : blk[g] # b
  BY NoBlockAssumption DEF Free
<1>5. /\ Gsize(h) \in Positions /\ NewSize(h, n) \in Positions
      /\ Gsize(h) + Len(ws) \in Positions /\ Gsize(h) + Len(ws) <= NewSize(h, n)
  <2>1. Gsize(h) + n <= MaxSize
    BY DEF Grow
  <2> QED BY <2>1, <1>1, <1>2, MaxSizeAssumption DEF Positions, NewSize
<1>6. /\ ppos' = [ppos EXCEPT ![h] = Gsize(h) + Len(ws)] /\ overrun' = FALSE
      /\ gpos' = [gpos EXCEPT ![h] = 0]
  <2>1. Len(ws) <= NewSize(h, n) - Gsize(h) /\ ~(Gsize(h) + Len(ws) > NewSize(h, n))
    BY <1>1, <1>2, <1>5 DEF Positions
  <2> QED BY <2>1 DEF Grow, Advance, NoOverrun
<1>7. ppos'[h] = Gsize(h) + Len(ws) /\ gpos'[h] = 0 /\ blk'[h] = b
  BY <1>1, <1>3, <1>6 DEF TypeOK
<1> DEFINE fresh == [mem EXCEPT ![b] = Fresh]
           filled == Put(Put(fresh, b, 0, Contents(h)), b, Gsize(h), ws)
<1>8. /\ fresh \in [Blocks \cup {NoBlock} -> [Positions -> Int]]
      /\ \A c \in Blocks \cup {NoBlock} : c # b => fresh[c] = mem[c]
  <2>1. Fresh \in [Positions -> Int]
    BY DEF Fresh
  <2> QED BY <2>1, <1>1
<1> HIDE DEF fresh
<1>9. WroteTwo(filled, fresh, b, Contents(h), ws)
  <2>1. Len(Contents(h)) \in Positions /\ Len(Contents(h)) + Len(ws) <= MaxSize
    BY <1>1, <1>2, <1>5, MaxSizeAssumption DEF Positions
  <2>2. WroteTwo(Put(Put(fresh, b, 0, Contents(h)), b, Len(Contents(h)), ws),
                 fresh, b, Contents(h), ws)
    BY <2>1, <1>1, <1>4, <1>8, TwoPuts
  <2> QED BY <2>2, <1>1
<1>10. mem' = Released(filled, h)
  BY <1>3 DEF fresh
<1> HIDE DEF filled
<1>11. /\ mem' \in [Blocks \cup {NoBlock} -> [Positions -> Int]]
       /\ \A c \in Blocks \cup {NoBlock} : c # blk[h] => mem'[c] = filled[c]
  <2>1. filled \in [Blocks \cup {NoBlock} -> [Positions -> Int]]
    BY <1>9 DEF WroteTwo
  <2> QED BY <2>1, <1>1, <1>10, ReleasedType DEF TypeOK
<1>12. Contents(h)' = Contents(h) \o ws
  <2>1. mem'[blk'[h]] = filled[b]
    BY <1>4, <1>7, <1>11
  <2>2. ppos'[h] = Len(Contents(h)) + Len(ws) /\ ppos'[h] \in Nat
    BY <1>1, <1>2, <1>7
  <2>3. Contents(h)' = [i \in 1 .. ppos'[h] |-> mem'[blk'[h]][i - 1]]
    BY <2>2, <1>1, <1>7, WindowFromStart
  <2> QED BY <2>1, <2>2, <2>3, <1>9 DEF WroteTwo
<1>13. ASSUME NEW g \in live \ {h}
       PROVE  /\ size'[blk[g]] = size[blk[g]]
              /\ blk[g] \notin shared' => blk[g] \notin shared /\ Contents(g)' = Contents(g)
              /\ blk'[h] = blk[g] /\ blk[g] # NoBlock => blk[g] \in shared'
              /\ blk[g] \in shared => blk[g] \in shared'
  <2>1. g \in Handles /\ blk[g] \in Blocks \cup {NoBlock} /\ blk[g] # b
        /\ gpos'[g] = gpos[g] /\ ppos'[g] = ppos[g] /\ blk'[g] = blk[g]
    BY <1>3, <1>4, <1>6 DEF TypeOK
  <2>2. size'[blk[g]] = size[blk[g]]
    BY <2>1, <1>3 DEF TypeOK
  <2>3. ASSUME blk[g] \notin shared PROVE Contents(g)' = Contents(g)
    <3>1. blk[g] # NoBlock => blk[g] # blk[h]
      BY <2>3 DEF SharedInv
    <3>2. blk[g] # NoBlock => mem'[blk[g]] = mem[blk[g]]
      BY <3>1, <2>1, <1>8, <1>9, <1>11 DEF WroteTwo
    <3> QED BY <3>2, <2>1, OtherWindow
  <2> QED BY <2>1, <2>2, <2>3, <1>3, <1>7
<1>14. gpos'[h] <= ppos'[h] /\ ppos'[h] <= size'[blk'[h]]
  <2>1. size'[b] = NewSize(h, n)
    BY <1>3, <1>4 DEF TypeOK
  <2> QED BY <2>1, <1>1, <1>2, <1>5, <1>7
<1>15. /\ \E c \in Blocks \cup {NoBlock} : blk' = [blk EXCEPT ![h] = c]
       /\ size' \in [Blocks \cup {NoBlock} -> Positions] /\ size'[NoBlock] = 0
       /\ allocated' \in SUBSET Blocks /\ shared' \in SUBSET Blocks
       /\ 0 \in Positions
  BY <1>3, <1>4, <1>5, MaxSizeAssumption DEF TypeOK, ShapeInv, StillAllocated, Positions
<1> QED BY <1>5, <1>6, <1>11, <1>12, <1>13, <1>14, <1>15 DEF Filled

-----------------------------------------------------------------------------
LEMMA FillInv ==
    ASSUME BInv, NEW h \in Handles, NEW n \in Positions, NEW ws \in Seq(Int), Len(ws) <= n,
           Fill(h, n, ws)
    PROVE  BInv'
<1>1. h \in live /\ live' = live
  BY DEF Fill, Usable
<1>2. Filled(h, ws)
  BY <1>1, InPlaceFills, ShiftFills, GrowFills DEF Fill
<1>3. \A g \in Handles \ {h} : blk'[g] = blk[g] /\ gpos'[g] = gpos[g] /\ ppos'[g] = ppos[g]
                               /\ unread'[g] = unread[g]
  BY <1>2 DEF Filled, Fill, BInv, TypeOK
<1>4. Contents(h) \in Seq(Int) /\ Known(h) \in Seq(Int) /\ Known(h) = Contents(h)
  <2>1. Contents(h) \in Seq(Int)
    BY ContentsSeq DEF BInv
  <2>2. Known(h) = Contents(h)
    BY <1>1 DEF Known, BInv, KeptInv
  <2> QED BY <2>1, <2>2
<1>5. Known(h) \o ws \in Seq(Int)
  BY <1>4, ConcatProperties
<1>6. TypeOK'
  <2>1. unread' \in [Handles -> Seq(Int)]
    BY <1>5 DEF Fill, BInv, TypeOK
  <2>2. /\ blk' \in [Handles -> Blocks \cup {NoBlock}]
        /\ gpos' \in [Handles -> Positions] /\ ppos' \in [Handles -> Positions]
    BY <1>2 DEF Filled, BInv, TypeOK
  <2> QED BY <1>1, <1>2, <2>1, <2>2 DEF Filled, BInv, TypeOK
<1>7. ShapeInv'
  <2> SUFFICES ASSUME NEW g \in Handles
               PROVE  /\ g \notin live' => blk'[g] = NoBlock /\ gpos'[g] = 0 /\ ppos'[g] = 0
                      /\ gpos'[g] <= ppos'[g] /\ ppos'[g] <= size'[blk'[g]]
    BY <1>2 DEF ShapeInv, Filled
  <2>1. CASE g = h
    BY <2>1, <1>1, <1>2 DEF Filled
  <2>2. CASE g # h
    <3>1. size'[blk[g]] = size[blk[g]]
      BY <2>2, <1>2 DEF Filled, BInv, ShapeInv
    <3> QED BY <3>1, <2>2, <1>1, <1>3 DEF BInv, ShapeInv
  <2> QED BY <2>1, <2>2
<1>8. SharedInv'
  <2> SUFFICES ASSUME NEW g \in live, NEW k \in live, g # k, blk'[g] = blk'[k], blk'[k] # NoBlock
               PROVE  blk'[k] \in shared'
    BY <1>1 DEF SharedInv
  <2>0. g \in Handles /\ k \in Handles
    BY DEF BInv, TypeOK
  <2>1. CASE g = h
    BY <2>0, <2>1, <1>2, <1>3 DEF Filled
  <2>2. CASE k = h
    BY <2>0, <2>2, <1>2, <1>3 DEF Filled
  <2>3. CASE g # h /\ k # h
    BY <2>0, <2>3, <1>2, <1>3 DEF Filled, BInv, SharedInv
  <2> QED BY <2>1, <2>2, <2>3
<1>9. KeptInv'
  <2> SUFFICES ASSUME NEW g \in live, blk'[g] \notin shared' PROVE Contents(g)' = unread'[g]
    BY <1>1 DEF KeptInv
  <2>0. g \in Handles
    BY DEF BInv, TypeOK
  <2>1. CASE g = h
    <3>1. unread'[h] = Known(h) \o ws
      BY DEF Fill, BInv, TypeOK
    <3> QED BY <2>1, <3>1, <1>2, <1>4 DEF Filled
  <2>2. CASE g # h
    BY <2>0, <2>2, <1>2, <1>3 DEF Filled, BInv, KeptInv
  <2> QED BY <2>1, <2>2
<1>10. NoOverrun'
  BY <1>2 DEF Filled, NoOverrun
<1> QED BY <1>6, <1>7, <1>8, <1>9, <1>10 DEF BInv

\* A step of handle h, as every other handle sees it.
OthersKeep(h) ==
    \A g \in Handles \ {h} :
        /\ g \in live' <=> g \in live
        /\ blk'[g] = blk[g] /\ gpos'[g] = gpos[g] /\ ppos'[g] = ppos[g]
        /\ unread'[g] = unread[g]
        /\ size'[blk[g]] = size[blk[g]]
        /\ g \in live => /\ blk[g] \in shared => blk[g] \in shared'
                         /\ blk[g] \notin shared' /\ blk[g] # NoBlock =>
                               mem'[blk[g]] = mem[blk[g]]

\* A step of handle h, as h sees it.
OwnStep(h) ==
    /\ h \notin live' => blk'[h] = NoBlock /\ gpos'[h] = 0 /\ ppos'[h] = 0
    /\ gpos'[h] <= ppos'[h] /\ ppos'[h] <= size'[blk'[h]]
    /\ \A g \in live \ {h} :
          h \in live' /\ blk'[h] = blk[g] /\ blk[g] # NoBlock => blk[g] \in shared'
    /\ h \in live' /\ blk'[h] \notin shared' => Contents(h)' = unread'[h]

LEMMA HandleStep ==
    ASSUME BInv, TypeOK', NEW h \in Handles, OthersKeep(h), OwnStep(h),
           size'[NoBlock] = 0, overrun' = overrun
    PROVE  BInv'
<1> USE DEF BInv
<1>0. live \subseteq Handles /\ live' \subseteq Handles
  BY DEF TypeOK
<1>1. ShapeInv'
  <2> SUFFICES ASSUME NEW g \in Handles
               PROVE  /\ g \notin live' => blk'[g] = NoBlock /\ gpos'[g] = 0 /\ ppos'[g] = 0
                      /\ gpos'[g] <= ppos'[g] /\ ppos'[g] <= size'[blk'[g]]
    BY DEF ShapeInv
  <2>1. CASE g = h
    BY <2>1 DEF OwnStep
  <2>2. CASE g # h
    BY <2>2 DEF OthersKeep, ShapeInv
  <2> QED BY <2>1, <2>2
<1>2. SharedInv'
  <2> SUFFICES ASSUME NEW g \in live', NEW k \in live', g # k, blk'[g] = blk'[k],
                      blk'[k] # NoBlock
               PROVE  blk'[k] \in shared'
    BY DEF SharedInv
  <2>1. CASE g = h
    BY <2>1, <1>0 DEF OwnStep, OthersKeep
  <2>2. CASE k = h
    BY <2>2, <1>0 DEF OwnStep, OthersKeep
  <2>3. CASE g # h /\ k # h
    BY <2>3, <1>0 DEF OthersKeep, SharedInv
  <2> QED BY <2>1, <2>2, <2>3
<1>3. KeptInv'
  <2> SUFFICES ASSUME NEW g \in live', blk'[g] \notin shared' PROVE Contents(g)' = unread'[g]
    BY DEF KeptInv
  <2>1. CASE g = h
    BY <2>1 DEF OwnStep
  <2>2. CASE g # h
    <3>1. /\ g \in Handles /\ g \in live
          /\ blk'[g] = blk[g] /\ gpos'[g] = gpos[g] /\ ppos'[g] = ppos[g]
          /\ unread'[g] = unread[g] /\ blk[g] \notin shared
          /\ blk[g] # NoBlock => mem'[blk[g]] = mem[blk[g]]
      BY <2>2, <1>0 DEF OthersKeep
    <3>2. Contents(g)' = Contents(g)
      BY <3>1, OtherWindow
    <3> QED BY <3>1, <3>2 DEF KeptInv
  <2> QED BY <2>1, <2>2
<1>4. NoOverrun'
  BY DEF NoOverrun
<1> QED BY <1>1, <1>2, <1>3, <1>4

\* A handle between whose positions there is nothing has nothing to be read.
LEMMA NothingToRead ==
    ASSUME NEW h \in Handles, gpos'[h] = 0, ppos'[h] = 0, unread'[h] = <<>>
    PROVE  Contents(h)' = unread'[h]
<1>1. Contents(h)' = [i \in 1 .. 0 - 0 |-> mem'[blk'[h]][0 + i - 1]]
  BY DEF Contents, Gsize
<1>2. Contents(h)' \in Seq(Int) /\ Len(Contents(h)') = 0
  <2>1. \A i \in 1 .. 0 - 0 : FALSE
    OBVIOUS
  <2>2. Contents(h)' \in [1 .. 0 -> Int]
    BY <1>1, <2>1
  <2> QED BY <2>2
<1> QED BY <1>2, EmptySeq

LEMMA ConstructInv ==
    ASSUME BInv, NEW h \in Handles, NEW n \in Positions, Construct(h, n) PROVE BInv'
<1> USE DEF BInv
<1>1. 0 \in Positions /\ h \notin live /\ blk[h] = NoBlock
  BY MaxSizeAssumption DEF Construct, ShapeInv, Positions
<1>2. /\ live' = live \cup {h} /\ overrun' = overrun
      /\ gpos' = [gpos EXCEPT ![h] = 0] /\ ppos' = [ppos EXCEPT ![h] = 0]
      /\ unread' = [unread EXCEPT ![h] = <<>>]
      /\ gpos'[h] = 0 /\ ppos'[h] = 0 /\ unread'[h] = <<>>
  BY DEF Construct, TypeOK
<1>3. unread' \in [Handles -> Seq(Int)]
  BY <1>2, EmptySeq DEF TypeOK
<1>4. CASE n = 0 /\ blk' = [blk EXCEPT ![h] = NoBlock]
           /\ UNCHANGED <<allocated, size, mem, shared>>
  <2>1. TypeOK'
    BY <1>1, <1>2, <1>3, <1>4 DEF TypeOK
  <2>2. OthersKeep(h)
    BY <1>1, <1>2, <1>4 DEF OthersKeep, TypeOK
  <2>3. Contents(h)' = unread'[h]
    BY <1>2, NothingToRead
  <2>4. blk'[h] = NoBlock
    BY <1>4 DEF TypeOK
  <2>5. OwnStep(h)
    BY <1>2, <1>4, <2>3, <2>4 DEF OwnStep, ShapeInv
  <2>6. size'[NoBlock] = 0
    BY <1>4 DEF ShapeInv
  <2> QED BY <1>2, <2>1, <2>2, <2>5, <2>6, HandleStep
<1>5. ASSUME NEW b \in Free, blk' = [blk EXCEPT ![h] = b], allocated' = allocated \cup {b},
             size' = [size EXCEPT ![b] = n], mem' = [mem EXCEPT ![b] = Fresh],
             shared' = shared \ {b}
      PROVE  BInv'
  <2>1. b \in Blocks /\ b # NoBlock /\ \A g \in live : blk[g] # b
    BY NoBlockAssumption DEF Free
  <2>2. Fresh \in [Positions -> Int]
    BY DEF Fresh
  <2>3. TypeOK'
    BY <1>1, <1>2, <1>3, <1>5, <2>1, <2>2 DEF TypeOK
  <2>4. OthersKeep(h)
    <3> SUFFICES ASSUME NEW g \in Handles \ {h} PROVE OthersKeep(h)!(g)
      BY DEF OthersKeep
    <3>1. blk[g] # b
      BY <2>1 DEF ShapeInv
    <3> QED BY <1>2, <1>5, <3>1 DEF TypeOK
  <2>5. Contents(h)' = unread'[h]
    BY <1>2, NothingToRead
  <2>6. blk'[h] = b /\ size'[b] = n /\ 0 <= n /\ h \in live'
    BY <1>2, <1>5, <2>1 DEF TypeOK, Positions
  <2>7. OwnStep(h)
    BY <1>2, <2>1, <2>5, <2>6 DEF OwnStep
  <2>8. size'[NoBlock] = 0
    BY <1>5, <2>1 DEF ShapeInv, TypeOK
  <2> QED BY <1>2, <2>3, <2>4, <2>7, <2>8, HandleStep
<1> QED BY <1>4, <1>5 DEF Construct

LEMMA CopyInv ==
    ASSUME BInv, NEW h \in Handles, NEW rhs \in Handles, Copy(h, rhs) PROVE BInv'
<1> USE DEF BInv
<1>1. h \notin live /\ rhs \in live /\ h # rhs
  BY DEF Copy, Usable
<1>2. /\ live' = live \cup {h} /\ overrun' = overrun /\ size' = size /\ allocated' = allocated
      /\ blk' = [blk EXCEPT ![h] = blk[rhs]]
      /\ gpos' = [gpos EXCEPT ![h] = gpos[rhs]] /\ ppos' = [ppos EXCEPT ![h] = ppos[rhs]]
      /\ unread' = [unread EXCEPT ![h] = unread[rhs]]
      /\ shared' = shared \cup ({blk[rhs]} \ {NoBlock})
      /\ blk'[h] = blk[rhs] /\ gpos'[h] = gpos[rhs] /\ ppos'[h] = ppos[rhs]
      /\ unread'[h] = unread[rhs]
  BY DEF Copy, TypeOK
<1>3. /\ mem' \in [Blocks \cup {NoBlock} -> [Positions -> Int]]
      /\ \A c \in Blocks \cup {NoBlock} : c # blk[rhs] \/ c = NoBlock => mem'[c] = mem[c]
  <2>1. 0 \in Positions
    BY MaxSizeAssumption DEF Positions
  <2>2. CASE blk[rhs] = NoBlock
    BY <2>2 DEF Copy, TypeOK
  <2>3. CASE blk[rhs] # NoBlock
    <3>1. mem' = [mem EXCEPT ![blk[rhs]][0] = @ + 1]
      BY <2>3 DEF Copy
    <3>2. mem[blk[rhs]] \in [Positions -> Int] /\ mem[blk[rhs]][0] + 1 \in Int
      BY <2>1 DEF TypeOK
    <3>3. [mem[blk[rhs]] EXCEPT ![0] = mem[blk[rhs]][0] + 1] \in [Positions -> Int]
      BY <3>2
    <3>4. mem' = [mem EXCEPT ![blk[rhs]] = [mem[blk[rhs]] EXCEPT ![0] = mem[blk[rhs]][0] + 1]]
      BY <3>1
    <3> QED BY <3>3, <3>4, <2>3 DEF TypeOK
  <2> QED BY <2>2, <2>3
<1>4. TypeOK'
  BY <1>2, <1>3 DEF TypeOK
<1>5. OthersKeep(h)
  <2> SUFFICES ASSUME NEW g \in Handles \ {h} PROVE OthersKeep(h)!(g)
    BY DEF OthersKeep
  <2>1. blk[g] \in Blocks \cup {NoBlock}
    BY DEF TypeOK
  <2> QED BY <2>1, <1>2, <1>3 DEF TypeOK
<1>6. h \in live' /\ blk'[h] \notin shared' => Contents(h)' = unread'[h]
  <2> SUFFICES ASSUME blk[rhs] \notin shared' PROVE Contents(h)' = unread[rhs]
    BY <1>2
  <2>1. blk[rhs] = NoBlock /\ blk[rhs] \notin shared
    BY <1>2 DEF TypeOK
  <2>2. mem'[blk[rhs]] = mem[blk[rhs]]
    BY <2>1, <1>3
  <2>3. Contents(h)' = Contents(rhs)
    BY <2>2, <1>2 DEF Contents, Gsize
  <2> QED BY <2>1, <2>3, <1>1 DEF KeptInv
<1>7. OwnStep(h)
  BY <1>1, <1>2, <1>6 DEF OwnStep, ShapeInv, TypeOK
<1> QED BY <1>2, <1>4, <1>5, <1>7, HandleStep DEF ShapeInv

LEMMA DestroyInv == ASSUME BInv, NEW h \in Handles, Destroy(h) PROVE BInv'
<1> USE DEF BInv
<1>1. /\ h \in live /\ live' = live \ {h} /\ overrun' = overrun /\ size' = size
      /\ shared' = shared /\ mem' = Released(mem, h) /\ allocated' = StillAllocated(h)
      /\ blk' = [blk EXCEPT ![h] = NoBlock]
      /\ gpos' = [gpos EXCEPT ![h] = 0] /\ ppos' = [ppos EXCEPT ![h] = 0]
      /\ unread' = [unread EXCEPT ![h] = <<>>]
  BY DEF Destroy, Usable
<1>2. 0 \in Positions
  BY MaxSizeAssumption DEF Positions
<1>3. /\ mem' \in [Blocks \cup {NoBlock} -> [Positions -> Int]]
      /\ \A c \in Blocks \cup {NoBlock} : c # blk[h] => mem'[c] = mem[c]
  BY <1>1, ReleasedType DEF TypeOK
<1>4. TypeOK'
  <2>1. unread' \in [Handles -> Seq(Int)]
    BY <1>1, EmptySeq DEF TypeOK
  <2> QED BY <1>1, <1>2, <1>3, <2>1 DEF TypeOK, StillAllocated
<1>5. OthersKeep(h)
  <2> SUFFICES ASSUME NEW g \in Handles \ {h} PROVE OthersKeep(h)!(g)
    BY DEF OthersKeep
  <2>1. g \in live /\ blk[g] \notin shared /\ blk[g] # NoBlock => blk[g] # blk[h]
    BY <1>1 DEF SharedInv
  <2>2. blk[g] \in Blocks \cup {NoBlock}
    BY DEF TypeOK
  <2> QED BY <2>1, <2>2, <1>1, <1>3 DEF TypeOK
<1>6. OwnStep(h)
  BY <1>1 DEF OwnStep, ShapeInv, TypeOK
<1> QED BY <1>1, <1>4, <1>5, <1>6, HandleStep DEF ShapeInv

LEMMA SeekInv ==
    ASSUME BInv, NEW h \in Handles, NEW g \in Positions, NEW p \in Positions,
           g <= p, p <= size[blk[h]], Seek(h, g, p)
    PROVE  BInv'
<1> USE DEF BInv
<1>1. /\ h \in live /\ live' = live /\ overrun' = overrun /\ size' = size /\ blk' = blk
      /\ shared' = shared /\ mem' = mem /\ allocated' = allocated
      /\ gpos' = [gpos EXCEPT ![h] = g] /\ ppos' = [ppos EXCEPT ![h] = p]
      /\ gpos'[h] = g /\ ppos'[h] = p
  BY DEF Seek, Usable, TypeOK
<1> DEFINE s == [i \in 1 .. p - g |-> mem[blk[h]][g + i - 1]]
<1>2. unread' = [unread EXCEPT ![h] = s]
  BY DEF Seek
<1>3. s \in Seq(Int)
  BY WindowSeq DEF TypeOK
<1>4. Contents(h)' = s
  BY <1>1 DEF Contents, Gsize
<1> HIDE DEF s
<1>5. TypeOK' /\ unread'[h] = s
  BY <1>1, <1>2, <1>3 DEF TypeOK
<1>6. OthersKeep(h)
  BY <1>1, <1>2 DEF OthersKeep, TypeOK
<1>7. OwnStep(h)
  BY <1>1, <1>4, <1>5 DEF OwnStep, SharedInv
<1> QED BY <1>1, <1>5, <1>6, <1>7, HandleStep DEF ShapeInv

LEMMA SeekGetInv ==
    ASSUME BInv, NEW h \in Handles, NEW seek \in Int, SeekGet(h, seek) PROVE BInv'
<1>1. /\ gpos[h] \in Positions /\ ppos[h] \in Positions
      /\ gpos[h] <= ppos[h] /\ ppos[h] <= size[blk[h]]
  BY DEF BInv, TypeOK, ShapeInv
<1>2. /\ Clamp(gpos[h] + seek, 0, ppos[h]) \in Positions
      /\ Clamp(gpos[h] + seek, 0, ppos[h]) <= ppos[h]
  BY <1>1, MaxSizeAssumption DEF Clamp, Positions
<1> QED BY <1>1, <1>2, SeekInv DEF SeekGet

LEMMA SeekPutInv ==
    ASSUME BInv, NEW h \in Handles, NEW seek \in Int, SeekPut(h, seek) PROVE BInv'
<1>1. /\ gpos[h] \in Positions /\ ppos[h] \in Positions /\ size[blk[h]] \in Positions
      /\ gpos[h] <= ppos[h] /\ ppos[h] <= size[blk[h]]
  BY DEF BInv, TypeOK, ShapeInv
<1>2. /\ Clamp(ppos[h] + seek, gpos[h], size[blk[h]]) \in Positions
      /\ gpos[h] <= Clamp(ppos[h] + seek, gpos[h], size[blk[h]])
      /\ Clamp(ppos[h] + seek, gpos[h], size[blk[h]]) <= size[blk[h]]
  BY <1>1, MaxSizeAssumption DEF Clamp, Positions
<1> QED BY <1>1, <1>2, SeekInv DEF SeekPut

LEMMA ClearInv == ASSUME BInv, NEW h \in Handles, Clear(h) PROVE BInv'
<1> USE DEF BInv
<1>1. /\ h \in live /\ live' = live /\ overrun' = overrun /\ size' = size /\ blk' = blk
      /\ shared' = shared /\ mem' = mem /\ allocated' = allocated
      /\ gpos' = [gpos EXCEPT ![h] = 0] /\ ppos' = [ppos EXCEPT ![h] = 0]
      /\ unread' = [unread EXCEPT ![h] = <<>>]
      /\ gpos'[h] = 0 /\ ppos'[h] = 0 /\ unread'[h] = <<>>
  BY DEF Clear, Usable, TypeOK
<1>2. 0 \in Positions
  BY MaxSizeAssumption DEF Positions
<1>3. TypeOK'
  <2>1. unread' \in [Handles -> Seq(Int)]
    BY <1>1, EmptySeq DEF TypeOK
  <2> QED BY <1>1, <1>2, <2>1 DEF TypeOK
<1>4. OthersKeep(h)
  BY <1>1 DEF OthersKeep, TypeOK
<1>5. Contents(h)' = unread'[h]
  BY <1>1, NothingToRead
<1>6. 0 <= size[blk[h]]
  BY DEF TypeOK, Positions
<1>7. OwnStep(h)
  BY <1>1, <1>5, <1>6 DEF OwnStep, SharedInv
<1> QED BY <1>1, <1>3, <1>4, <1>7, HandleStep DEF ShapeInv

LEMMA BufferStep == BInv /\ [Next]_vars => BInv'
<1> SUFFICES ASSUME BInv, [Next]_vars PROVE BInv'
  OBVIOUS
<1>1. ASSUME NEW h \in Handles, NEW n \in Positions, Construct(h, n) PROVE BInv'
  BY <1>1, ConstructInv
<1>2. ASSUME NEW h \in Handles, NEW rhs \in Handles, Copy(h, rhs) PROVE BInv'
  BY <1>2, CopyInv
<1>3. ASSUME NEW h \in Handles, Destroy(h) PROVE BInv'
  BY <1>3, DestroyInv
<1>4. ASSUME NEW h \in Handles, NEW n \in Positions, Reserve(h, n) PROVE BInv'
  <2>1. <<>> \in Seq(Int) /\ Len(<<>>) = 0 /\ 0 <= n
    BY MaxSizeAssumption DEF Positions
  <2> QED BY <1>4, <2>1, FillInv DEF Reserve
<1>5. ASSUME NEW h \in Handles, NEW n \in 1 .. MaxSize, NEW ws \in [1 .. n -> Words],
             Write(h, ws)
      PROVE  BInv'
  <2>0. ws \in [1 .. n -> Int]
    BY WordsAssumption
  <2>1. n \in Nat /\ n \in Positions
    BY MaxSizeAssumption DEF Positions
  <2>2. ws \in Seq(Int) /\ Len(ws) = n /\ n <= n
    BY <2>0, <2>1
  <2>3. Fill(h, n, ws)
    BY <1>5, <2>2 DEF Write
  <2> QED BY <2>1, <2>2, <2>3, FillInv
<1>6. ASSUME NEW h \in Handles, NEW seek \in -MaxSize .. MaxSize,
             SeekGet(h, seek) \/ SeekPut(h, seek)
      PROVE  BInv'
  <2>1. seek \in Int
    BY MaxSizeAssumption
  <2> QED BY <1>6, <2>1, SeekGetInv, SeekPutInv
<1>7. ASSUME NEW h \in Handles, Clear(h) PROVE BInv'
  BY <1>7, ClearInv
<1>8. CASE UNCHANGED vars
  BY <1>8 DEF BInv, TypeOK, ShapeInv, NoOverrun, SharedInv, KeptInv, Contents, Gsize, vars
<1> QED BY <1>1, <1>2, <1>3, <1>4, <1>5, <1>6, <1>7, <1>8 DEF Next

LEMMA BufferInvariance == Spec => []BInv
BY BufferInit, BufferStep, PTL DEF Spec

\* Positions, sizes and the words of a block stay in their range, for any
\* number of handles and blocks of any size.
THEOREM BufferTypeCorrect == Spec => []TypeOK
<1>1. BInv => TypeOK
  BY DEF BInv
<1> QED BY <1>1, BufferInvariance, PTL

\* The read position never passes the write position, nor that the end.
THEOREM PositionsOrderedAlways == Spec => []PositionsOrdered
<1>1. BInv => PositionsOrdered
  BY DEF BInv, TypeOK, ShapeInv, PositionsOrdered, Positions
<1> QED BY <1>1, BufferInvariance, PTL

\* reserve() makes the room write() uses.
THEOREM NoOverrunAlways == Spec => []NoOverrun
<1>1. BInv => NoOverrun
  BY DEF BInv
<1> QED BY <1>1, BufferInvariance, PTL

\* What was written to a block of one's own is what is there to be read.
THEOREM ContentsKeptAlways == Spec => []ContentsKept
<1>1. BInv => ContentsKept
  BY DEF BInv, KeptInv, ContentsKept
<1> QED BY <1>1, BufferInvariance, PTL
=============================================================================
