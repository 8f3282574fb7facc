----------------------------- MODULE ByteBuffer -----------------------------
(***************************************************************************)
(* byte_buffer: a handle (basic_buffer) with a read and a write position   *)
(* on a block of memory (memory_block) that copies of the handle share.    *)
(* The block counts its handles in a std::atomic<int> which lies at the    *)
(* start of the allocation; ptr(), where the data begins, is the same      *)
(* address.  Writing data overwrites the count, and counting changes data. *)
(*                                                                         *)
(* Memory is divided into words of the size of the counter, so that word 0 *)
(* is both the first datum and the counter; sizes and positions count      *)
(* words.  A handle whose block was freed under it is not used any more by *)
(* the model: C++ says nothing of it.                                      *)
(***************************************************************************)
EXTENDS Integers, Sequences, FiniteSets

CONSTANTS
    Handles,       \* the objects that can hold a basic_buffer
    Blocks,        \* the addresses the allocator returns
    NoBlock,       \* _value.second() is null
    Words,         \* what is written
    MaxSize        \* bound: the words of a block

ASSUME MaxSizeAssumption == MaxSize \in Nat
ASSUME WordsAssumption == Words \subseteq Int
ASSUME NoBlockAssumption == NoBlock \notin Blocks

VARIABLES
    live,          \* the handles that are constructed
    blk,           \* _block of a handle
    gpos, ppos,    \* _gpos, _ppos
    allocated,     \* the blocks that are allocated
    size,          \* _size, the same in every handle of a block
    mem,           \* the words of a block; mem[b][0] is counter()
    shared,        \* history: the blocks that have had two handles
    unread,        \* history: what was written to a handle and not yet read
    overrun        \* history: a write went past the end of its block

vars == <<live, blk, gpos, ppos, allocated, size, mem, shared, unread, overrun>>

Positions == 0 .. MaxSize

TypeOK ==
    /\ live \in SUBSET Handles
    /\ blk \in [Handles -> Blocks \cup {NoBlock}]
    /\ gpos \in [Handles -> Positions]
    /\ ppos \in [Handles -> Positions]
    /\ allocated \in SUBSET Blocks
    /\ size \in [Blocks \cup {NoBlock} -> Positions]
    /\ mem \in [Blocks \cup {NoBlock} -> [Positions -> Int]]
    /\ shared \in SUBSET Blocks
    /\ unread \in [Handles -> Seq(Int)]
    /\ overrun \in BOOLEAN

Init ==
    /\ live = {} /\ allocated = {} /\ shared = {}
    /\ blk = [h \in Handles |-> NoBlock]
    /\ gpos = [h \in Handles |-> 0]
    /\ ppos = [h \in Handles |-> 0]
    /\ size = [b \in Blocks \cup {NoBlock} |-> 0]
    /\ mem = [b \in Blocks \cup {NoBlock} |-> [i \in Positions |-> 0]]
    /\ unread = [h \in Handles |-> <<>>]
    /\ overrun = FALSE

Usable(h) == h \in live /\ blk[h] \in allocated \cup {NoBlock}

\* gsize(), psize(), block_refs() and the words between the two positions.
Gsize(h) == ppos[h] - gpos[h]
Psize(h) == size[blk[h]] - ppos[h]
Refs(h) == IF blk[h] = NoBlock THEN 0 ELSE mem[blk[h]][0]
Contents(h) == [i \in 1 .. Gsize(h) |-> mem[blk[h]][gpos[h] + i - 1]]

\* The destructor of memory_block: fetch_sub on the counter, and the handle for
\* which it was 1 frees the block.  What a block holds that no handle has any
\* more is forgotten, be it freed or not.
Others(h) == {g \in live \ {h} : blk[g] = blk[h]}
Released(m, h) ==
    LET b == blk[h] IN
    IF b = NoBlock THEN m
    ELSE [m EXCEPT ![b] = [i \in Positions |->
             IF Others(h) = {} THEN 0 ELSE IF i = 0 THEN @[0] - 1 ELSE @[i]]]
StillAllocated(h) ==
    IF blk[h] # NoBlock /\ mem[blk[h]][0] = 1 THEN allocated \ {blk[h]} ELSE allocated

\* Whoever has the block at an address the allocator hands out again is gone
\* from the model: no handle that could be used has it.
Free == Blocks \ (allocated \cup {blk[h] : h \in live})

\* The constructor of memory_block puts the counter in place.
Fresh == [i \in Positions |-> IF i = 0 THEN 1 ELSE 0]

-----------------------------------------------------------------------------
\* basic_buffer(), for n = 0, and basic_buffer(n)
Construct(h, n) ==
    /\ h \notin live
    /\ live' = live \cup {h}
    /\ \/ /\ n = 0
          /\ blk' = [blk EXCEPT ![h] = NoBlock]
          /\ UNCHANGED <<allocated, size, mem, shared>>
       \/ /\ n > 0
          /\ \E b \in Free :
                /\ blk' = [blk EXCEPT ![h] = b]
                /\ allocated' = allocated \cup {b}
                /\ size' = [size EXCEPT ![b] = n]
                /\ mem' = [mem EXCEPT ![b] = Fresh]
                /\ shared' = shared \ {b}
    /\ gpos' = [gpos EXCEPT ![h] = 0]
    /\ ppos' = [ppos EXCEPT ![h] = 0]
    /\ unread' = [unread EXCEPT ![h] = <<>>]
    /\ UNCHANGED overrun

\* basic_buffer(rhs): the handles share the block, and are counted in word 0.
Copy(h, rhs) ==
    /\ h \notin live /\ Usable(rhs)
    /\ live' = live \cup {h}
    /\ blk' = [blk EXCEPT ![h] = blk[rhs]]
    /\ gpos' = [gpos EXCEPT ![h] = gpos[rhs]]
    /\ ppos' = [ppos EXCEPT ![h] = ppos[rhs]]
    /\ unread' = [unread EXCEPT ![h] = unread[rhs]]
    /\ mem' = IF blk[rhs] = NoBlock THEN mem ELSE [mem EXCEPT ![blk[rhs]][0] = @ + 1]
    /\ shared' = shared \cup ({blk[rhs]} \ {NoBlock})
    /\ UNCHANGED <<allocated, size, overrun>>

\* ~basic_buffer
Destroy(h) ==
    /\ Usable(h)
    /\ live' = live \ {h}
    /\ allocated' = StillAllocated(h)
    /\ mem' = Released(mem, h)
    /\ blk' = [blk EXCEPT ![h] = NoBlock]
    /\ gpos' = [gpos EXCEPT ![h] = 0]
    /\ ppos' = [ppos EXCEPT ![h] = 0]
    /\ unread' = [unread EXCEPT ![h] = <<>>]
    /\ UNCHANGED <<size, shared, overrun>>

\* memcpy of ws to word p of block b.
Put(m, b, p, ws) ==
    [m EXCEPT ![b] = [i \in Positions |-> IF i \in p .. p + Len(ws) - 1
                                          THEN ws[i - p + 1] ELSE @[i]]]

\* The write position goes on by at most what there is room for: pptr(seek).
Advance(p, n, end) == IF n <= end - p THEN p + n ELSE end

\* The three ways of write(ws), after reserve(n): there is room,
InPlace(h, n, ws) ==
    /\ Psize(h) >= n
    /\ mem' = Put(mem, blk[h], ppos[h], ws)
    /\ ppos' = [ppos EXCEPT ![h] = Advance(@, Len(ws), size[blk[h]])]
    /\ overrun' = (overrun \/ ppos[h] + Len(ws) > size[blk[h]])
    /\ UNCHANGED <<blk, gpos, allocated, size, shared>>

\* Mutant: the write position stays behind when the contents move.
ShiftKeepsPpos(h, n, ws) ==
    /\ Psize(h) < n
    /\ size[blk[h]] - Gsize(h) >= n /\ Refs(h) <= 1
    /\ LET moved == Put(mem, blk[h], 0, Contents(h)) IN
           mem' = Put(moved, blk[h], ppos[h], ws)
    /\ gpos' = [gpos EXCEPT ![h] = 0]
    /\ ppos' = [ppos EXCEPT ![h] = Advance(@, Len(ws), size[blk[h]])]
    /\ overrun' = (overrun \/ ppos[h] + Len(ws) > size[blk[h]])
    /\ UNCHANGED <<blk, allocated, size, shared>>

\* or room once what was read is dropped, when nobody else has the block,
Shift(h, n, ws) ==
    /\ Psize(h) < n
    /\ size[blk[h]] - Gsize(h) >= n /\ Refs(h) <= 1
    /\ LET moved == Put(mem, blk[h], 0, Contents(h)) IN
           mem' = Put(moved, blk[h], Gsize(h), ws)
    /\ gpos' = [gpos EXCEPT ![h] = 0]
    /\ ppos' = [ppos EXCEPT ![h] = Advance(Gsize(h), Len(ws), size[blk[h]])]
    /\ overrun' = (overrun \/ Gsize(h) + Len(ws) > size[blk[h]])
    /\ UNCHANGED <<blk, allocated, size, shared>>

\* Mutant: the new block has room for what is written only.
NewSizeWithoutContents(h, n) == n

\* The size of the block reserve(n) allocates.
NewSize(h, n) == Gsize(h) + n

\* or the contents go to a new block, and the old one is released.
Grow(h, n, ws) ==
    /\ Psize(h) < n
    /\ size[blk[h]] - Gsize(h) < n \/ Refs(h) > 1
    /\ Gsize(h) + n <= MaxSize
    /\ \E b \in Free : LET
           fresh == [mem EXCEPT ![b] = Fresh]
           filled == Put(Put(fresh, b, 0, Contents(h)), b, Gsize(h), ws)
       IN
           /\ mem' = Released(filled, h)
           /\ allocated' = StillAllocated(h) \cup {b}
           /\ blk' = [blk EXCEPT ![h] = b]
           /\ size' = [size EXCEPT ![b] = NewSize(h, n)]
           /\ shared' = shared \ {b}
    /\ gpos' = [gpos EXCEPT ![h] = 0]
    /\ ppos' = [ppos EXCEPT ![h] = Advance(Gsize(h), Len(ws), NewSize(h, n))]
    /\ overrun' = (overrun \/ Gsize(h) + Len(ws) > NewSize(h, n))

\* What is unread by now: for a block that was shared, whatever it holds.
Known(h) == IF blk[h] \in shared THEN Contents(h) ELSE unread[h]

Fill(h, n, ws) ==
    /\ Usable(h)
    /\ InPlace(h, n, ws) \/ Shift(h, n, ws) \/ Grow(h, n, ws)
    /\ unread' = [unread EXCEPT ![h] = Known(h) \o ws]
    /\ UNCHANGED live

Reserve(h, n) == Fill(h, n, <<>>)
Write(h, ws) == Fill(h, Len(ws), ws)

Clamp(x, low, high) == IF x < low THEN low ELSE IF x > high THEN high ELSE x

\* gptr(seek), which stays between 0 and the write position, and pptr(seek),
\* between the read position and the end: what lies between them is unread.
Seek(h, g, p) ==
    /\ Usable(h)
    /\ gpos' = [gpos EXCEPT ![h] = g]
    /\ ppos' = [ppos EXCEPT ![h] = p]
    /\ unread' = [unread EXCEPT ![h] = [i \in 1 .. p - g |-> mem[blk[h]][g + i - 1]]]
    /\ UNCHANGED <<live, blk, allocated, size, mem, shared, overrun>>

SeekGet(h, seek) == Seek(h, Clamp(gpos[h] + seek, 0, ppos[h]), ppos[h])

SeekPut(h, seek) == Seek(h, gpos[h], Clamp(ppos[h] + seek, gpos[h], size[blk[h]]))

\* clear()
Clear(h) ==
    /\ Usable(h)
    /\ gpos' = [gpos EXCEPT ![h] = 0]
    /\ ppos' = [ppos EXCEPT ![h] = 0]
    /\ unread' = [unread EXCEPT ![h] = <<>>]
    /\ UNCHANGED <<live, blk, allocated, size, mem, shared, overrun>>

Next ==
    \E h \in Handles :
        \/ \E n \in Positions : Construct(h, n)
        \/ \E rhs \in Handles : Copy(h, rhs)
        \/ Destroy(h)
        \/ \E n \in Positions : Reserve(h, n)
        \/ \E n \in 1 .. MaxSize : \E ws \in [1 .. n -> Words] : Write(h, ws)
        \/ \E seek \in -MaxSize .. MaxSize : SeekGet(h, seek) \/ SeekPut(h, seek)
        \/ Clear(h)

Spec == Init /\ [][Next]_vars

-----------------------------------------------------------------------------
\* The positions stay in order and inside the block, whatever is sought.
PositionsOrdered ==
    \A h \in live : 0 <= gpos[h] /\ gpos[h] <= ppos[h] /\ ppos[h] <= size[blk[h]]

\* reserve() makes the room it is asked for, whichever way it takes: no write
\* goes past the end of its block.
NoOverrun == ~overrun

\* Until a second handle has the block, what was written is what is there to be
\* read, through every move and reallocation.
ContentsKept ==
    \A h \in live : Usable(h) /\ blk[h] \notin shared => Contents(h) = unread[h]

\* block_refs() is the number of handles, as the test of memory_block asserts
\* of a block with two handles and with one.
RefsAreHandles ==
    \A h \in live : blk[h] # NoBlock =>
        Refs(h) = Cardinality({g \in live : blk[g] = blk[h]})
=============================================================================
