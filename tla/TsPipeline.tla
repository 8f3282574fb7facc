------------------------------ MODULE TsPipeline ------------------------------
(***************************************************************************)
(* What rtsp_to_ts_handler builds and feeds: frames appended to a          *)
(* simple_h264_framed_source are pulled by a multiplexor                   *)
(* (MPEG2TransportStreamFromESSource), which collects them until it has    *)
(* LOW_WATER_MARK bytes, cuts these into transport stream packets and      *)
(* hands the packets to a memory_buffer_sink.                              *)
(*                                                                         *)
(* Each pulls from the one before it with getNextFrame and is called back  *)
(* with afterGetting, usually before getNextFrame has returned: callbacks  *)
(* nest.  Here a step of the loop's thread goes on to the next call, and   *)
(* "depth" counts the callbacks that have not returned.  None of them has  *)
(* anything to do after the call it makes, so they all return together     *)
(* when there is nothing left to call.                                     *)
(*                                                                         *)
(* A byte is <<n, k>>, the k-th of the n-th frame.  The header of a PES    *)
(* packet counts as HeaderSize bytes and is not kept.  Presentation times  *)
(* are those of the sink, in seconds, and never 0.                         *)
(***************************************************************************)
EXTENDS MemoryBufferSink, FiniteSets

CONSTANTS
    FrameSizes,    \* the sizes of frames, with their four bytes of marker
    NumFrames,     \* bound: the frames that arrive
    HeaderSize,    \* SIMPLE_PES_HEADER_SIZE
    LowWater,      \* LOW_WATER_MARK
    MaxInput,      \* maxInputESFrameSize
    PacketSize,    \* TRANSPORT_PACKET_SIZE
    PacketData,    \* what a packet has room for
    PcrSize,       \* what the clock reference takes of that
    Batch,         \* every Batch-th packet goes through the event loop
    PatPeriod, PmtPeriod

ASSUME PacketsAssumption ==
    /\ FrameSizes \subseteq Nat \ {0} /\ NumFrames \in Nat
    /\ {HeaderSize, LowWater, MaxInput, PacketSize, PacketData, PcrSize} \subseteq Nat
    /\ HeaderSize < LowWater /\ LowWater <= MaxInput
    /\ PcrSize < PacketData /\ PacketData < PacketSize
    /\ {Batch, PatPeriod, PmtPeriod} \subseteq Nat \ {0}

InputBufferSize == HeaderSize + 2 * MaxInput

VARIABLES
    posted,        \* envir_loop's closures: the handler's and the client's
    built,         \* the handler's closure has run: _source is set
    described,     \* the client's has: frames may come
    \* simple_h264_framed_source
    backlog,       \* _buffers: a frame's time and bytes
    triggered,     \* its event trigger awaits handling
    waiting,       \* its fIsCurrentlyAwaitingData
    \* InputESSourceRecord
    pes,           \* the bytes in fInputBuffer after the header
    inUse,         \* fInputBufferInUse
    \* MPEG2TransportStreamFromESSource and its multiplexor, whose
    \* fIsCurrentlyAwaitingData is the sink's "asking"
    background,    \* fAwaitingBackgroundDelivery
    filled, used,  \* fInputBufferSize, fInputBufferBytesUsed
    packets,       \* fOutgoingPacketCounter
    announced,     \* fPIDState[fCurrentPID].counter is not 0
    time,          \* fPresentationTime
    missing,       \* fNumTruncatedBytes
    task,          \* nextTask() is scheduled
    \* the loop's thread
    pc,            \* the call that comes next, or "idle"
    depth,         \* callbacks that have not returned
    \* history
    arrived,       \* the sizes of the frames that arrived
    cutOff,        \* the bytes that found no room in the input buffer
    kinds,         \* what each packet was
    payload        \* and the bytes in it

loopVars == <<posted, built, described>>
feedVars == <<backlog, triggered, waiting>>
recordVars == <<pes, inUse>>
muxVars == <<background, filled, used, packets, announced, time, missing, task>>
historyVars == <<arrived, cutOff, kinds, payload>>
pipeVars == <<sinkVars, loopVars, feedVars, recordVars, muxVars, pc, depth, historyVars>>

Bytes == (1 .. NumFrames) \X Nat

PipeTypeOK ==
    /\ SinkTypeOK
    /\ posted \in Seq({"build", "describe"})
    /\ {built, described, triggered, waiting, inUse, background, announced, task}
          \subseteq BOOLEAN
    /\ backlog \in Seq([time : Times, bytes : Seq(Bytes)])
    /\ pes \in Seq(Bytes) /\ HeaderSize + Len(pes) <= InputBufferSize
    /\ used \in 0 .. filled /\ filled \in 0 .. InputBufferSize
    /\ kinds \in Seq({"PAT", "PMT", "first", "more"}) /\ payload \in Seq(Seq(Bytes))
    /\ packets = Len(kinds) /\ packets = Len(payload)
    /\ time \in Times \cup {0}
    /\ missing \in {0, PacketSize}
    /\ pc \in {"idle", "next", "await", "await old"} /\ depth \in Nat
    /\ arrived \in Seq(FrameSizes) /\ cutOff \subseteq Bytes

\* The program has made the handler and opened the client with it.
PipeInit ==
    /\ SinkInit
    /\ posted = <<"build", "describe">> /\ built = FALSE /\ described = FALSE
    /\ backlog = <<>> /\ triggered = FALSE /\ waiting = FALSE
    /\ pes = <<>> /\ inUse = FALSE
    /\ background = FALSE /\ filled = 0 /\ used = 0 /\ packets = 0
    /\ announced = FALSE /\ time = 0 /\ missing = 0 /\ task = FALSE
    /\ pc = "idle" /\ depth = 0
    /\ arrived = <<>> /\ cutOff = {} /\ kinds = <<>> /\ payload = <<>>

-----------------------------------------------------------------------------
(* rtsp_to_ts_handler                                                      *)

\* The loop runs the closure posted first (see EnvirLoop).
Runs(c) == posted # <<>> /\ c = Head(posted) /\ posted' = Tail(posted)

\* The constructor's closure: the sink starts to play.
Build ==
    /\ pc = "idle" /\ Runs("build")
    /\ built' = TRUE
    /\ Play /\ pc' = "next"
    /\ UNCHANGED <<described, feedVars, recordVars, muxVars, depth, historyVars>>

\* The closure of rtsp_client::open; RtspClient has what follows from it.
Describe ==
    /\ pc = "idle" /\ Runs("describe")
    /\ described' = TRUE
    /\ UNCHANGED <<sinkVars, built, feedVars, recordVars, muxVars, pc, depth,
                   historyVars>>

\* on_frame, called by the client's sink, and the source's append().
OnFrame(t, size) ==
    /\ pc = "idle" /\ described
    /\ Len(arrived) < NumFrames
    /\ arrived' = Append(arrived, size)
    /\ backlog' = Append(backlog, [time |-> t,
                                   bytes |-> [k \in 1 .. size |-> <<Len(arrived'), k>>]])
    /\ triggered' = TRUE
    /\ UNCHANGED <<sinkVars, loopVars, waiting, recordVars, muxVars, pc, depth,
                   cutOff, kinds, payload>>

-----------------------------------------------------------------------------
(* The source's frame comes to the record that asked for it.               *)

\* Mutant: the delivery that waited is left to the next request.
RetryNot(flag) == background' = flag /\ pc' = "idle" /\ depth' = 0

\* The end of afterGettingFrame1: a delivery that waited for data is retried.
Retry(flag) ==
    /\ background' = FALSE
    /\ IF flag THEN pc' = "await" /\ depth' = depth + 1 ELSE pc' = "idle" /\ depth' = 0

\* deliverFrame, which cuts off what does not fit behind the bytes b, and
\* afterGettingFrame1.
DeliverFrame(b, flag) ==
    LET f == Head(backlog)
        space == InputBufferSize - HeaderSize - Len(b)
        fits == IF Len(f.bytes) > space THEN space ELSE Len(f.bytes)
    IN /\ backlog' = Tail(backlog) /\ waiting' = FALSE
       /\ pes' = b \o SubSeq(f.bytes, 1, fits)
       /\ cutOff' = cutOff \cup ToSet(SubSeq(f.bytes, fits + 1, Len(f.bytes)))
       /\ time' = f.time
       /\ Retry(flag)

\* The loop calls the trigger's handler, deliverFrame0.
DeliverFrame0 ==
    /\ pc = "idle" /\ triggered
    /\ triggered' = FALSE
    /\ \/ /\ waiting /\ backlog # <<>>
          /\ DeliverFrame(pes, background)
       \/ /\ ~waiting \/ backlog = <<>>
          /\ UNCHANGED <<backlog, waiting, pes, cutOff, time, background, pc, depth>>
    /\ UNCHANGED <<sinkVars, loopVars, inUse, filled, used, packets, announced,
                   missing, task, arrived, kinds, payload>>

-----------------------------------------------------------------------------
(* The multiplexor                                                         *)

\* Mutant: the source is asked for more at once.
DeliverBufferAsksOn(b) ==
    /\ inUse' = TRUE /\ pes' = b
    /\ filled' = HeaderSize + Len(b) /\ used' = 0
    /\ pc' = "next"
    /\ background' = FALSE /\ waiting' = TRUE
    /\ UNCHANGED <<backlog, time, cutOff, depth>>

\* deliverBufferToClient and handleNewBuffer, for a record with the bytes b.
DeliverBuffer(b) ==
    /\ inUse' = TRUE /\ pes' = b
    /\ filled' = HeaderSize + Len(b) /\ used' = 0
    /\ pc' = "next"
    /\ background' = (pc = "await" /\ background)
    /\ UNCHANGED <<backlog, waiting, time, cutOff, depth>>

\* askForNewData and the source's getNextFrame: the frame is there, or the
\* source will call back.
AskForNewData(b) ==
    /\ inUse' = FALSE
    /\ \/ backlog # <<>> /\ DeliverFrame(b, TRUE)
       \/ /\ backlog = <<>>
          /\ waiting' = TRUE /\ background' = TRUE
          /\ pes' = b /\ pc' = "idle" /\ depth' = 0
          /\ UNCHANGED <<backlog, time, cutOff>>
    /\ UNCHANGED <<filled, used>>

\* What reset() leaves in the record: nothing of an old buffer.
Kept == IF pc = "await old" THEN <<>> ELSE pes

\* A record with the bytes b can be delivered.
Enough(b) == HeaderSize + Len(b) >= LowWater

\* awaitNewBuffer.  No record is asked that is in use or waits for its source:
\* the call comes when a buffer is used up or a frame has come.
AwaitNewBuffer ==
    /\ pc \in {"await", "await old"}
    /\ IF Enough(Kept) THEN DeliverBuffer(Kept) ELSE AskForNewData(Kept)
    /\ UNCHANGED <<sinkVars, loopVars, triggered, packets, announced, missing,
                   task, arrived, kinds, payload>>

PatDue == packets % PatPeriod = 0

\* The counter has been counted when it is looked at here.
PmtDue == (packets + 1) % PmtPeriod = 0 \/ ~announced

SendTable ==
    /\ kinds' = Append(kinds, IF PatDue THEN "PAT" ELSE "PMT")
    /\ announced' = (announced \/ ~PatDue)
    /\ payload' = Append(payload, <<>>)
    /\ UNCHANGED used

\* How much of the buffer the next packet takes: nothing if it has no room
\* for a packet.
Taken ==
    LET space == IF used = 0 THEN PacketData - PcrSize ELSE PacketData
        rest == filled - used
    IN IF room < PacketSize THEN 0 ELSE IF rest < space THEN rest ELSE space

\* The bytes between two places of the buffer.
Between(from, to) ==
    SubSeq(pes, IF from < HeaderSize THEN 1 ELSE from - HeaderSize + 1, to - HeaderSize)

\* Mutant: the place in the buffer moves on by a whole packet's data.
SendDataWhole ==
    /\ kinds' = Append(kinds, IF used = 0 THEN "first" ELSE "more")
    /\ used' = IF used + PacketData > filled THEN filled ELSE used + PacketData
    /\ payload' = Append(payload, Between(used, used + Taken))
    /\ UNCHANGED announced

\* deliverDataToClient
SendData ==
    /\ kinds' = Append(kinds, IF used = 0 THEN "first" ELSE "more")
    /\ used' = used + Taken
    /\ payload' = Append(payload, Between(used, used'))
    /\ UNCHANGED announced

\* Mutant: never.
ThroughLoopNever == FALSE

\* Every Batch-th packet is handed on by a task of the event loop.
ThroughLoop == (packets + 1) % Batch = 0

\* doGetNextFrame with data left in the buffer: a packet, and afterGetting.
DeliverPacket ==
    /\ pc = "next" /\ used < filled
    /\ packets' = packets + 1
    /\ missing' = IF room < PacketSize THEN PacketSize ELSE 0
    /\ IF PatDue \/ PmtDue THEN SendTable ELSE SendData
    /\ \/ /\ ThroughLoop
          /\ task' = TRUE /\ pc' = "idle" /\ depth' = 0
          /\ UNCHANGED sinkVars
       \/ /\ ~ThroughLoop
          /\ GetFrame(time, missing') /\ depth' = depth + 1
          /\ UNCHANGED <<task, pc>>
    /\ UNCHANGED <<loopVars, feedVars, recordVars, background, filled, time,
                   arrived, cutOff>>

\* doGetNextFrame with none: fInputBuffer is null before the first buffer.
NeedBuffer ==
    /\ pc = "next" /\ used >= filled
    /\ pc' = IF filled = 0 THEN "await" ELSE "await old"
    /\ UNCHANGED <<sinkVars, loopVars, feedVars, recordVars, muxVars, depth, historyVars>>

\* The task is afterGetting; the sink asks for the next packet.
HandleTask ==
    /\ pc = "idle" /\ task
    /\ task' = FALSE
    /\ GetFrame(time, missing)
    /\ pc' = "next" /\ depth' = depth + 1
    /\ UNCHANGED <<loopVars, feedVars, recordVars, background, filled, used, packets,
                   announced, time, missing, historyVars>>

LoopStep ==
    \/ Build \/ Describe \/ DeliverFrame0 \/ HandleTask
    \/ AwaitNewBuffer \/ DeliverPacket \/ NeedBuffer

PipeNext == LoopStep \/ \E t \in Times, size \in FrameSizes : OnFrame(t, size)

PipeSpec == PipeInit /\ [][PipeNext]_pipeVars

\* The loop's thread runs.  That it comes back to tasks and to triggers need not
\* be said: what makes work for one is made by the other, or by a frame.
PipeFairSpec == PipeSpec /\ WF_pipeVars(LoopStep)

-----------------------------------------------------------------------------
\* What arrived after the first n frames, in bytes.
ArrivedAfter(n) ==
    FoldSeq(LAMBDA size, sum : size + sum, 0, SubSeq(arrived, n + 1, Len(arrived)))

ArrivedBytes == UNION {{n} \X (1 .. arrived[n]) : n \in DOMAIN arrived}

\* Of an earlier frame, or earlier in the same.
Precedes(a, b) == a[1] < b[1] \/ (a[1] = b[1] /\ a[2] < b[2])

Ordered(s) == \A i, j \in DOMAIN s : i < j => Precedes(s[i], s[j])

PayloadOf(frames) == FlattenSeq([i \in DOMAIN frames |-> payload[frames[i].id]])

Delivered == PayloadOf(FlattenSeq(Parts))

InTask == IF task THEN payload[packets] ELSE <<>>

InRecord == IF inUse THEN Between(used, filled) ELSE pes

InBacklog == FlattenSeq([i \in DOMAIN backlog |-> backlog[i].bytes])

\* The bytes in the files and in the sink's buffer, and those on their way there.
Stream == Delivered \o (InTask \o (InRecord \o InBacklog))

\* Every byte that arrived is once, and in order, in the files, the sink's
\* buffer or on its way there, whatever packets, buffers and tasks it went
\* through.  Only bytes that found no room in the input buffer are missing, and
\* none of a frame that maxInputESFrameSize allows for.
EveryByteOnce ==
    /\ Ordered(Stream)
    /\ ToSet(Stream) = ArrivedBytes \ cutOff
    /\ \A b \in cutOff : b \in ArrivedBytes /\ arrived[b[1]] > MaxInput

\* A buffer is cut into so many packets at least.
PerBuffer == 1 + (LowWater - (PacketData - PcrSize) + PacketData - 1) \div PacketData

\* However long the source's backlog is, only so many callbacks nest: those of
\* one batch of packets, and those of the frames that fill the buffers the
\* batch takes.
StackBounded ==
    depth <= Batch + (1 + (Batch - 1) \div PerBuffer) * (LowWater - HeaderSize)

\* A file never ends inside a PES packet: all packets cut from one buffer go to
\* the same file, whenever frames and tasks come.
FilesEndBetweenPes ==
    \A i \in DOMAIN Parts : i > 1 => kinds[Parts[i][1].id] # "more"

\* A frame reaches the handler only when the handler has its source.
FramesFindSource == described => built

\* The closures, the source's state and the files fit each other.
Sound == PipeTypeOK /\ FramesFindSource /\ CutInTime

\* The n-th frame has arrived, and what came after it fills a buffer.
Due(n) == n <= Len(arrived) /\ HeaderSize + ArrivedAfter(n) >= LowWater

\* All of the n-th frame that found room is in the files or the sink's buffer.
Out(n) ==
    n <= Len(arrived) =>
        \A k \in 1 .. arrived[n] :
            <<n, k>> \in cutOff \cup ToSet(Delivered)

\* A frame goes out once enough has come after it to fill a buffer: the chain
\* of requests and callbacks never breaks off.
Flushed == \A n \in 1 .. NumFrames : Due(n) ~> Out(n)
=============================================================================
