------------------------------ MODULE RtpSource ------------------------------
(***************************************************************************)
(* MultiFramedRTPSource with its ReorderingPacketBuffer, as                *)
(* H264VideoRTPSource uses it: RTP packets come in any order, twice or not *)
(* at all; the reader asks for one frame at a time.  A packet holds one    *)
(* frame, two (an aggregation), a fragment of one, or nothing but padding. *)
(*                                                                         *)
(* Everything runs on the thread of the event loop.  The sender and the    *)
(* network are external: packets get consecutive numbers, of which         *)
(* NumSeqNos values stand for the 2^16 of RTP; a packet is late by less    *)
(* than half of them.  Time is not counted: a packet behind a gap may be   *)
(* found to have waited for too long whenever that is tested.              *)
(***************************************************************************)
EXTENDS Integers, Sequences, SequencesExt, FiniteSets

CONSTANTS
    NumSeqNos,     \* the sequence numbers there are
    FirstSeq,      \* that of the first packet
    MaxPackets,    \* bound: the packets the sender sends
    MaxCopies,     \* bound: how often one of them comes
    MaxSize        \* fMaxSize of the reader, in NAL units or fragments

ASSUME SeqAssumption == NumSeqNos \in Nat \ {0} /\ FirstSeq \in 0 .. NumSeqNos - 1
ASSUME BoundsAssumption ==
    /\ MaxPackets \in 1 .. NumSeqNos \div 2 - 1
    /\ MaxCopies \in Nat \ {0}
    /\ MaxSize \in Nat \ {0}

VARIABLES
    \* of the sender and the network
    kind,          \* what each packet sent is
    copies,        \* how often each of them has come
    \* of the reorder buffer
    list,          \* the packets from fHeadPacket to fTailPacket
    seen,          \* fHaveSeenFirstPacket
    expected,      \* fNextExpectedSeqNo
    savedMade,     \* fSavedPacket is not NULL
    savedFree,     \* fSavedPacketFree
    \* of the source
    inProgress,    \* fPacketReadInProgress
    reading,       \* fAreDoingNetworkReads
    needDelivery,  \* fNeedDelivery
    scheduled,     \* the task that calls afterGetting is scheduled
    begins,        \* fCurrentPacketBeginsFrame
    completes,     \* fCurrentPacketCompletesFrame
    lossInFrame,   \* fPacketLossInFragmentedFrame
    frame,         \* what fTo and fFrameSize hold: the parts copied
    truncated,     \* fNumTruncatedBytes is not 0
    delivering,    \* doGetNextFrame1 is running
    inReader,      \* the reader's handler is running
    \* history
    frames,        \* the frames delivered, with truncated
    stored,        \* the packets storePacket accepted
    misled         \* a packet was taken for what it is not: an empty one, first
                   \* behind a gap, hid the gap, or an aggregation was given the
                   \* flags of a fragment before it

netVars == <<kind, copies>>
bufferVars == <<list, seen, expected, savedMade, savedFree>>
frameVars == <<begins, completes, lossInFrame, frame, truncated>>
vars == <<netVars, bufferVars, inProgress, reading, needDelivery, scheduled,
          frameVars, delivering, inReader, frames, stored, misled>>

Packets == 1 .. MaxPackets
Kinds == {"single", "pair", "begin", "middle", "end", "empty"}
Descriptors == {"none", "saved", "new"}
SeqNo(n) == (FirstSeq + n) % NumSeqNos

\* An entry of the list: a packet, the descriptor that holds it, isFirstPacket
\* and useCount.
Entries == [n : Packets, in : Descriptors, first : BOOLEAN, uses : 0 .. 1]
FrameParts == Packets \X (1 .. 2)

TypeOK ==
    /\ kind \in Seq(Kinds) /\ Len(kind) <= MaxPackets
    /\ copies \in [Packets -> 0 .. MaxCopies]
    /\ list \in Seq(Entries)
    /\ seen \in BOOLEAN /\ expected \in 0 .. NumSeqNos - 1
    /\ savedMade \in BOOLEAN /\ savedFree \in BOOLEAN
    /\ inProgress \in Descriptors
    /\ reading \in BOOLEAN /\ needDelivery \in BOOLEAN /\ scheduled \in BOOLEAN
    /\ begins \in BOOLEAN /\ completes \in BOOLEAN /\ lossInFrame \in BOOLEAN
    /\ frame \in Seq(FrameParts) /\ Len(frame) <= MaxSize
    /\ truncated \in BOOLEAN /\ delivering \in BOOLEAN /\ inReader \in BOOLEAN
    /\ frames \in Seq([parts : Seq(FrameParts), truncated : BOOLEAN])
    /\ stored \subseteq Packets
    /\ misled \in BOOLEAN

Init ==
    /\ kind = <<>> /\ copies = [n \in Packets |-> 0]
    /\ list = <<>> /\ seen = FALSE /\ expected = 0
    /\ savedMade = FALSE /\ savedFree = TRUE /\ inProgress = "none"
    /\ reading = FALSE /\ needDelivery = FALSE /\ scheduled = FALSE
    /\ begins = TRUE /\ completes = TRUE /\ lossInFrame = FALSE
    /\ frame = <<>> /\ truncated = FALSE
    /\ delivering = FALSE /\ inReader = FALSE
    /\ frames = <<>> /\ stored = {} /\ misled = FALSE

Idle == ~delivering /\ ~inReader

-----------------------------------------------------------------------------
(* The sender and the network.                                             *)

\* A fragmented frame begins with packet b, and what comes before x is of it, or
\* empty.
Begun(b, x) ==
    /\ b < x /\ kind[b] = "begin"
    /\ \A n \in b + 1 .. x - 1 : kind[n] \in {"middle", "empty"}

\* The sender is in the midst of a fragmented frame.
InFragments == \E b \in DOMAIN kind : Begun(b, Len(kind) + 1)

Send(k) ==
    /\ Len(kind) < MaxPackets
    /\ k \in {"middle", "end"} => InFragments
    /\ k \in {"single", "pair", "begin"} => ~InFragments
    /\ kind' = Append(kind, k)
    /\ UNCHANGED <<copies, bufferVars, inProgress, reading, needDelivery, scheduled,
                   frameVars, delivering, inReader, frames, stored, misled>>

-----------------------------------------------------------------------------
(* ReorderingPacketBuffer                                                  *)

\* Mutant: numbers are compared as they are.
SeqNumLTNoWrap(s1, s2) == s1 < s2

\* Is s1 before s2?
SeqNumLT(s1, s2) ==
    LET diff == s2 - s1
        half == NumSeqNos \div 2
    IN IF diff > 0 THEN diff < half ELSE diff < -half

\* getFreePacket: the descriptor that the next packet is read into.
FreePacket == IF savedMade /\ ~savedFree THEN "new" ELSE "saved"

\* storePacket, past the test for late packets: the place of the packet in the
\* list is before the first one that is later; a duplicate has none.
Store(e) ==
    LET s == SeqNo(e.n)
        later == {i \in DOMAIN list : SeqNumLT(s, SeqNo(list[i].n))}
        at == IF later = {} THEN Len(list) + 1 ELSE CHOOSE i \in later : \A j \in later : i <= j
    IN IF \E i \in DOMAIN list : SeqNo(list[i].n) = s THEN list ELSE InsertAt(list, at, e)

-----------------------------------------------------------------------------
(* networkReadHandler1                                                     *)

\* The descriptor that the packet at hand is read into.
ReadInto == IF inProgress = "none" THEN FreePacket ELSE inProgress

\* A part of a packet comes, over TCP; the rest is read the next time.
ReadPart ==
    /\ Idle /\ reading /\ inProgress = "none"
    /\ inProgress' = FreePacket
    /\ savedMade' = TRUE /\ savedFree' = FALSE
    /\ UNCHANGED <<netVars, list, seen, expected, reading, needDelivery, scheduled,
                   frameVars, delivering, inReader, frames, stored, misled>>

\* Nothing can be read, or no RTP packet of this stream.
ReadBad ==
    /\ Idle /\ reading
    /\ inProgress' = "none"
    /\ savedMade' = TRUE /\ savedFree' = (savedFree \/ ReadInto = "saved")
    /\ delivering' = TRUE
    /\ UNCHANGED <<netVars, list, seen, expected, reading, needDelivery, scheduled,
                   frameVars, inReader, frames, stored, misled>>

\* Packet n is read and, when it is not late, stored.
ReadPacket(n) ==
    /\ Idle /\ reading
    /\ n <= Len(kind) /\ copies[n] < MaxCopies
    /\ copies' = [copies EXCEPT ![n] = @ + 1]
    /\ seen' = TRUE
    /\ expected' = IF seen THEN expected ELSE SeqNo(n)
    /\ list' = IF SeqNumLT(SeqNo(n), expected') THEN list
               ELSE Store([n |-> n, in |-> ReadInto, first |-> ~seen, uses |-> 0])
    /\ stored' = IF list' = list THEN stored ELSE stored \cup {n}
    /\ savedMade' = TRUE
    /\ savedFree' = IF ReadInto = "saved" THEN list' = list ELSE savedFree
    /\ inProgress' = "none"
    /\ delivering' = TRUE
    /\ UNCHANGED <<kind, reading, needDelivery, scheduled, frameVars, inReader,
                   frames, misled>>

-----------------------------------------------------------------------------
(* doGetNextFrame1: the turns of its loop.                                 *)

Next1 == Head(list)
Gap == SeqNo(Next1.n) # expected

\* getNextCompletedPacket has a packet.  It waits for those before no longer
\* than the threshold, whenever it is asked.
TakesNext(loss) ==
    /\ delivering /\ ~inReader /\ needDelivery
    /\ list # <<>>
    /\ loss = (Gap \/ Next1.first)

\* Mutant: the saved packet is not marked free.
ReleaseKeepsSaved ==
    /\ expected' = (SeqNo(Next1.n) + 1) % NumSeqNos
    /\ list' = Tail(list)
    /\ UNCHANGED <<seen, savedMade, savedFree>>

\* releaseUsedPacket of the head, after fNextExpectedSeqNo was set to it.
Release ==
    /\ expected' = (SeqNo(Next1.n) + 1) % NumSeqNos
    /\ list' = Tail(list)
    /\ savedFree' = (savedFree \/ Next1.in = "saved")
    /\ UNCHANGED <<seen, savedMade>>

\* An aggregation is left at the head for its second unit.
KeepForNext ==
    /\ expected' = SeqNo(Next1.n)
    /\ list' = [list EXCEPT ![1].uses = 1]
    /\ UNCHANGED <<seen, savedMade, savedFree>>

\* processSpecialHeader refuses the packet.
RejectEmpty(loss) ==
    /\ TakesNext(loss) /\ kind[Next1.n] = "empty"
    /\ Release
    /\ misled' = (misled \/ loss)
    /\ UNCHANGED <<netVars, inProgress, reading, needDelivery, scheduled, frameVars,
                   delivering, inReader, frames, stored>>

\* processSpecialHeader, which leaves the flags as they are for an aggregation.
Flags ==
    LET k == kind[Next1.n] IN
    /\ begins' = IF k = "pair" THEN begins ELSE k \notin {"middle", "end"}
    /\ completes' = IF k = "pair" THEN completes ELSE k \notin {"begin", "middle"}

\* Mutant: a loss is not forgotten where the next frame begins.
UnusableSticky(loss) == lossInFrame \/ (~begins' /\ loss)

\* Not the beginning of a frame, and a packet of that frame is missing.
Unusable(loss) == ~begins' /\ (lossInFrame \/ loss)

\* A packet of a frame that misses one before: it is dropped.
RejectFragment(loss) ==
    /\ TakesNext(loss) /\ kind[Next1.n] # "empty"
    /\ Flags
    /\ Unusable(loss)
    /\ lossInFrame' = TRUE
    /\ Release
    /\ misled' = (misled \/ kind[Next1.n] = "pair")
    /\ UNCHANGED <<netVars, inProgress, reading, needDelivery, scheduled, frame,
                   truncated, delivering, inReader, frames, stored>>

\* Mutant: it is kept.
CopiedAlways(loss) == frame

\* What was copied of a frame that never was completed is forgotten.
Copied(loss) == IF begins' /\ (loss \/ lossInFrame) THEN <<>> ELSE frame

\* afterGetting: the reader gets the frame.
Deliver ==
    /\ frames' = Append(frames, [parts |-> frame', truncated |-> truncated'])
    /\ inReader' = TRUE

\* The packet, or its next unit, is copied for the reader, as far as there is
\* room.  A complete frame is delivered at once when nothing else waits, else
\* by the scheduler.
UsePacket(loss) ==
    /\ TakesNext(loss) /\ kind[Next1.n] # "empty"
    /\ Flags
    /\ ~Unusable(loss)
    /\ lossInFrame' = FALSE
    /\ truncated' = (Len(Copied(loss)) = MaxSize)
    /\ frame' = IF truncated' THEN Copied(loss)
                ELSE Append(Copied(loss), <<Next1.n, Next1.uses + 1>>)
    /\ IF kind[Next1.n] = "pair" /\ Next1.uses = 0 THEN KeepForNext ELSE Release
    /\ needDelivery' = ~completes'
    /\ IF completes' /\ list' = <<>> THEN Deliver ELSE UNCHANGED <<frames, inReader>>
    /\ scheduled' = (completes' /\ list' # <<>>)
    /\ misled' = (misled \/ (kind[Next1.n] = "pair" /\ ~completes'))
    /\ UNCHANGED <<netVars, inProgress, reading, delivering, stored>>

\* The loop ends: nothing is asked for, or the wanted packet is not there.
LoopEnds ==
    /\ delivering /\ ~inReader
    /\ (needDelivery /\ list # <<>>) => Gap
    /\ delivering' = FALSE
    /\ UNCHANGED <<netVars, bufferVars, inProgress, reading, needDelivery, scheduled,
                   frameVars, inReader, frames, stored, misled>>

\* The scheduler runs the task.
RunTask ==
    /\ Idle /\ scheduled
    /\ scheduled' = FALSE
    /\ UNCHANGED frameVars
    /\ Deliver
    /\ UNCHANGED <<netVars, bufferVars, inProgress, reading, needDelivery, delivering,
                   stored, misled>>

-----------------------------------------------------------------------------
(* The reader.                                                             *)

\* getNextFrame and doGetNextFrame, which begins with doGetNextFrame1.
GetNextFrame ==
    /\ Idle \/ inReader
    /\ ~needDelivery /\ ~scheduled
    /\ needDelivery' = TRUE /\ reading' = TRUE
    /\ frame' = <<>> /\ truncated' = FALSE
    /\ delivering' = TRUE /\ inReader' = FALSE
    /\ UNCHANGED <<netVars, bufferVars, inProgress, scheduled, begins, completes,
                   lossInFrame, frames, stored, misled>>

ReaderReturns ==
    /\ inReader
    /\ inReader' = FALSE
    /\ UNCHANGED <<netVars, bufferVars, inProgress, reading, needDelivery, scheduled,
                   frameVars, delivering, frames, stored, misled>>

\* stopGettingFrames and doStopGettingFrames; what comes later belongs to a new
\* stream.
StopGettingFrames ==
    /\ Idle \/ inReader
    /\ inProgress' = "none" /\ reading' = FALSE
    /\ needDelivery' = FALSE /\ scheduled' = FALSE
    /\ begins' = TRUE /\ completes' = TRUE /\ lossInFrame' = FALSE
    /\ list' = <<>> /\ seen' = FALSE /\ savedMade' = FALSE
    /\ savedFree' = (savedFree \/ inProgress = "saved")
    /\ frames' = <<>> /\ stored' = {} /\ misled' = FALSE
    /\ UNCHANGED <<netVars, expected, frame, truncated, delivering, inReader>>

Next ==
    \/ \E k \in Kinds : Send(k)
    \/ \E n \in Packets : ReadPacket(n)
    \/ \E loss \in BOOLEAN : RejectEmpty(loss) \/ RejectFragment(loss) \/ UsePacket(loss)
    \/ ReadPart \/ ReadBad \/ LoopEnds \/ RunTask
    \/ GetNextFrame \/ ReaderReturns \/ StopGettingFrames

Spec == Init /\ [][Next]_vars

-----------------------------------------------------------------------------
\* The parts that the packets b to e carry, of one frame.
PartsOf(b, e) == {<<n, 1>> : n \in {m \in b .. e : kind[m] # "empty"}}

\* The frames of the sender, each with the packets b to e that carry it.
SenderFrames ==
         {[b |-> n, e |-> n, parts |-> {<<n, 1>>}] :
             n \in {m \in DOMAIN kind : kind[m] \in {"single", "pair"}}}
    \cup {[b |-> n, e |-> n, parts |-> {<<n, 2>>}] : n \in {m \in DOMAIN kind : kind[m] = "pair"}}
    \cup UNION {{[b |-> b, e |-> e, parts |-> PartsOf(b, e)] :
                    e \in {m \in DOMAIN kind : Begun(b, m) /\ kind[m] = "end"}} : b \in DOMAIN kind}

\* Parts are ordered as they are sent.
Earlier(p, q) == p[1] < q[1] \/ (p[1] = q[1] /\ p[2] < q[2])

\* The reader gets, of a frame with these parts, the first ones, in order, as
\* many as it has room for, and whether that is all.
IsReadOf(r, parts) ==
    LET missing == parts \ Range(r.parts) IN
    /\ r.parts # <<>> /\ Range(r.parts) \subseteq parts
    /\ \A i, j \in DOMAIN r.parts : i < j => Earlier(r.parts[i], r.parts[j])
    /\ \A p \in missing : /\ Len(r.parts) = MaxSize
                          /\ \A q \in Range(r.parts) : Earlier(q, p)
    /\ r.truncated <=> missing # {}

\* Each frame the reader gets is one of the sender's, whole or cut off at the
\* end, which it is told: never parts of two frames, nor one with a hole, unless
\* the source was misled.
WholeFrames ==
    ~misled => \A i \in DOMAIN frames : \E f \in SenderFrames : IsReadOf(frames[i], f.parts)

\* Frames come in the order they were sent, none twice.
FramesInOrder ==
    \A i, j \in DOMAIN frames : i < j =>
        Earlier(Last(frames[i].parts), Head(frames[j].parts))

\* The frame that is being put together, or on its way.
Copy == [parts |-> frame, truncated |-> truncated]

\* A frame is dropped only for a packet that was lost or came too late: one
\* whose packets all were stored, and have left the list, was delivered or is
\* about to be.
NoFrameDropped ==
    ~misled => \A f \in SenderFrames :
        (f.b .. f.e \subseteq stored /\ \A i \in DOMAIN list : list[i].n \notin f.b .. f.e) =>
            \/ \E i \in DOMAIN frames : IsReadOf(frames[i], f.parts)
            \/ scheduled /\ IsReadOf(Copy, f.parts)

\* A reader that waits, with the thread in the event loop, waits for a packet
\* that is not there.
ReaderServed == Idle /\ needDelivery /\ list # <<>> => Gap

\* fSavedPacket holds at most one packet, and is marked free when it holds none:
\* no packet is read into a buffer that is in use, and none is leaked.
SavedPacketOnce ==
    LET holders == {i \in DOMAIN list : list[i].in = "saved"} IN
    Cardinality(holders) + (IF inProgress = "saved" THEN 1 ELSE 0)
        = IF savedMade /\ ~savedFree THEN 1 ELSE 0

\* The descriptors and the list fit each other and what the reader waits for.
Sound == TypeOK /\ SavedPacketOnce /\ ReaderServed
=============================================================================
