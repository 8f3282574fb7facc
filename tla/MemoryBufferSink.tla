--------------------------- MODULE MemoryBufferSink ---------------------------
(***************************************************************************)
(* memory_buffer_sink: asks its source for frame after frame, collects     *)
(* them in a buffer, and writes the buffer to a numbered file when a frame *)
(* comes that is more than Slice seconds later than the first one of it.   *)
(* A frame larger than the frame buffer arrives cut off and is dropped,    *)
(* and the frame buffer grows.                                             *)
(*                                                                         *)
(* TsPipeline gives it a source, which delivers one frame for each         *)
(* request.  The two byte_buffers are taken as what ByteBuffer shows of    *)
(* them: one is the number of bytes it has room for, the other the         *)
(* sequence of frames that were written to it.  Opening and writing a file *)
(* are taken to succeed (a null FILE is not checked for).                  *)
(***************************************************************************)
EXTENDS Integers, Sequences, SequencesExt

CONSTANTS
    Times,         \* presentation times in seconds
    Rooms          \* what the constructor may reserve

ASSUME TimesAssumption == Times \subseteq Nat \ {0} /\ Rooms \subseteq Nat

Slice == 10

VARIABLES
    asking,        \* a request is with the source
    room,          \* _frame_buffer.psize()
    sec,           \* _sec
    buffer,        \* _buffer: the frames in it
    files,         \* the files written; _index is the number of the next
    count          \* history: the number of frames that were delivered

sinkVars == <<asking, room, sec, buffer, files, count>>

Frame == [time : Times, id : Nat]

SinkTypeOK ==
    /\ asking \in BOOLEAN
    /\ room \in Nat /\ count \in Nat
    /\ sec \in Times \cup {0}
    /\ buffer \in Seq(Frame) /\ files \in Seq(Seq(Frame))

\* The constructor.
SinkInit ==
    /\ asking = FALSE
    /\ room \in Rooms
    /\ sec = 0 /\ count = 0
    /\ buffer = <<>> /\ files = <<>>

\* startPlaying() and its continuePlaying()
Play ==
    /\ ~asking
    /\ asking' = TRUE
    /\ UNCHANGED <<room, sec, buffer, files, count>>

\* The part of afterGettingFrame for a frame of which bytes were cut off:
\* reserve(size() + numTruncatedBytes)
Drop(cut) ==
    /\ room' = room + cut
    /\ UNCHANGED <<sec, buffer, files>>

\* _sec when the time t comes
Begun(t) == IF sec = 0 THEN t ELSE sec

\* Mutant: the time of the first frame is not kept up with the files.
CollectKeepsSec(f) ==
    /\ sec' = Begun(f.time)
    /\ IF f.time - Begun(f.time) > Slice
       THEN files' = Append(files, buffer) /\ buffer' = <<f>>
       ELSE buffer' = Append(buffer, f) /\ UNCHANGED files
    /\ UNCHANGED room

\* The part for a whole frame: the buffer goes to a file when its time is up,
\* and the frame goes to the buffer.
Collect(f) ==
    /\ IF f.time - Begun(f.time) > Slice
       THEN files' = Append(files, buffer) /\ buffer' = <<f>> /\ sec' = f.time
       ELSE buffer' = Append(buffer, f) /\ sec' = Begun(f.time) /\ UNCHANGED files
    /\ UNCHANGED room

\* afterGettingFrame: the source delivers a frame, or what was not cut off of
\* it, and is asked again.
GetFrame(t, cut) ==
    /\ asking
    /\ count' = count + 1
    /\ IF cut > 0 THEN Drop(cut) ELSE Collect([time |-> t, id |-> count'])
    /\ UNCHANGED asking

-----------------------------------------------------------------------------
\* What is written in the order of the files' numbers, and then the buffer.
Parts == Append(files, buffer)

\* A file ends in time: its frames are at most Slice seconds later than its
\* first, and the next file or the buffer begins more than that later, also
\* when times go back.
CutInTime ==
    \A i \in DOMAIN Parts :
        /\ \A j \in DOMAIN Parts[i] : Parts[i][j].time - Parts[i][1].time <= Slice
        /\ i > 1 => Parts[i][1].time - Parts[i - 1][1].time > Slice
=============================================================================
