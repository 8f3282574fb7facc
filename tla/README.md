# A TLA+ model of tlab

`src/tlab` is a C++17 library: buffers, logging, a wrapper of SQLite and,
as its largest part, an RTSP client on top of live555 that turns a camera's
H.264 stream into MPEG transport stream files. `src/live555` holds the copy of
live555 it is built with and `src/sqlite3` SQLite's header. This directory
models the parts of tlab that keep state, with as much of live555 as they rely
on. TLC checks the models on small instances, and TLAPS proves the most
important properties for instances of every size.

Contents: [the system](#1-the-system),
[the modules](#2-the-modules-and-the-code),
[the runs](#3-the-runs), [the proofs](#4-the-proofs),
[the disagreements found](#5-what-the-code-does-and-a-text-says-otherwise),
[what is left out](#6-what-is-not-modelled), [the plan](#7-plan).

## 1 The system

```
 application threads                        the loop's thread
   rtsp_client::open/close ──run(f)──▶ envir_loop ──▶ live555 scheduler
                                          │            │ sockets, alarms,
                                          ▼            ▼ event triggers
                                     closures of    live555's RTSPClient ──▶ rtsp_client's handlers
                                     open / close   live555's RTP source ──▶ sink ─┐ frames
                                                                                   ▼
   rtsp_to_ts_handler::on_frame ──▶ simple_h264_framed_source (queue)
                                          │ deliverFrame
                                          ▼
                              live555's TS multiplexer ──▶ memory_buffer_sink ──▶ 0001.ts …
```

| component | state | operations | what makes it correct |
|---|---|---|---|
| `envir_loop` | the vector `_functions`, `_lock`, the alarm, the flag the loop watches | `run(f)` from any thread, `handle_task` on the loop's thread, destructor | accepted functions run once each, in order; `run` and the destructor return |
| scheduler (live555) | delay queue, handlers of sockets, sets for `select` | schedule, unschedule, set, clear and move handlers, `SingleStep` | nothing runs early, tasks run in order, no task and no socket starves |
| event triggers (live555) | table of handlers and clients, mask of awaiting triggers, last one used | create, delete, trigger, handle one per step | a handler is called with the client that raised it; none starves |
| RTSP requests (live555) | two queues of requests, connection, response buffer | send, connect, read and match answers, resend, reset | each handler is called once, with the answer to its request or an error |
| RTP reception (live555) | reorder buffer, flags of the current frame, the lent packet | read, store, deliver, stop | whole frames of the sender, in order, none dropped whose packets came in time |
| `simple_h264_framed_source` | queue of frames, "awaiting" of `FramedSource`, truncation count | `append`, `getNextFrame`, `stopGettingFrames`, delivery on the event | no lost wakeup, order kept, truncation told of the right frame, the queue drains |
| `rtsp_to_ts_handler` | source, multiplexor and sink | constructor and destructor closures, `on_frame` | frames find their source; bytes go through once, in order, to the files; the stack stays bounded |
| `memory_buffer_sink` | frame buffer, slice buffer, time of the slice, file number | `continuePlaying`, `afterGettingFrame` | files are cut in time and between PES packets |
| `rtsp_client` | flag, connection, session and iterator, timer token, sinks; the global `_clients`; the loop's closures | `open`, `close`, the two closures, the handlers of DESCRIBE, SETUP and PLAY, the alarm, BYE, end of a source | every answer and upcall finds the living client it is for, in the state its request was sent in; no connection leaks; a closed client is freed |
| `memory_block`, `basic_buffer` | a shared block with a count of handles, two positions per handle | construct, copy, destroy, `reserve`, `write`, `gptr`, `pptr`, `clear` | writes stay inside, contents survive moves, the count is the number of handles |
| `file_output` (logging) | stream, number of lines, number of files; the directory | `put` with rotation, `delete_old_logs` | files, in the order they were opened, hold the records in order, and their names sort so while their numbers are equally long; no file is emptied or removed too early |
| SQLite wrapper | connection handle, statement pointers; in SQLite: statements, transaction, locks, table | open, close, prepare, bind, step, reset, transaction | nothing finalized twice, the table is what the program was told while SQLite rolls nothing back by itself, no connection lost |
| logger, services | level, list of services, a shared buffer | `log`, `add_service` | not modelled |
| util, error, mp | none | split, Base64, checksum, error codes, type lists | not modelled |

They interact in three ways. Calls cross from application threads to the
loop's thread only through `envir_loop::run` (with one exception, see
[section 5](#5-what-the-code-does-and-a-text-says-otherwise)). On the loop's
thread, live555 calls back through raw pointers: the client data of a trigger,
`_clients[rtspClient]`, the client data of an alarm, `afterGetting` of each
source. Callbacks call again what called them: a handler issues requests, a
reader asks for the next frame. Frames are handed on in `byte_buffer`s, whose
blocks are shared by copies.

Hard are: the move of `_functions` without the lock that guards appends; ids
and addresses used again while a callback for the former owner may be pending;
the reader that asks for a frame from inside the callback that delivers one,
through three objects; answers, alarms, BYEs and `close()` in any order;
answers in pieces, skipped or on a connection that is lost under a loop over
the requests; packets lost, late and twice while sequence numbers wrap; a
clock set back; the counter that lies in the data of a block; a restart that
meets the files of the previous process; and SQLite, which may refuse to close
and may roll a transaction back without the wrapper's noticing. The hazards,
each with its line and the properties that would catch it going wrong, are
listed in `PROJECT.json`.

## 2 The modules and the code

| module | models | extends / refines |
|---|---|---|
| `TaskQueue` | what `envir_loop` promises: a FIFO executor | abstract |
| `EnvirLoop` | `envir_loop` | implements `TaskQueue` (`Queue == INSTANCE TaskQueue WITH ...`) |
| `EventTriggers` | the triggers of `BasicTaskScheduler0` and their part of `SingleStep` | |
| `H264Source` | `simple_h264_framed_source` over `FramedSource` | extends `EventTriggers` |
| `RtspClient` | `rtsp_client` with the closures, `_clients`, requests and alarms | uses the FIFO order `TaskQueue` promises |
| `ByteBuffer` | `basic_buffer` over `memory_block` | |
| `Scheduler` | `BasicTaskScheduler`: `DelayQueue`, handlers of sockets, `SingleStep` | |
| `ResponseHandlers` | what `RTSPClient` promises of response handlers | abstract |
| `RtspRequests` | live555's `RTSPClient`: requests, connection, answers | implements `ResponseHandlers` (`Promise == INSTANCE ...`) |
| `RtpSource` | `MultiFramedRTPSource` with its reorder buffer, for H.264 | |
| `MemoryBufferSink` | `memory_buffer_sink` | uses what `ByteBuffer` shows |
| `TsPipeline` | `rtsp_to_ts_handler`'s chain: source, multiplexor, sink | extends `MemoryBufferSink`; uses the order `TaskQueue` promises |
| `FileOutput` | `file_output`, the directory, crash and restart | |
| `Sqlite` | connection, statements, result sets, transactions | |
| `SequenceFacts` | lemmas about sequences | used by the proofs |
| `*Proofs` | theorems about the module of that name; `RtspProofs` about both RTSP modules, `StorageProofs` about `Sqlite` and `FileOutput`, `TsChainProofs` about `EventTriggers`, `H264Source` and `TsPipeline` | |
| `MC*` | what TLC needs besides constants: symmetry, comments on the instance | |

`PROJECT.json` maps each definition to the lines it stands for. The names of
state and operations are the source's where TLA+ allows them. Variables called
*history* in a module have no counterpart in the code: they remember what a
property has to compare with. Definitions whose comment begins with *Mutant*
are not part of a specification: each is a plausible bug, put in the place of
the definition that follows it to see that a property notices.

### EnvirLoop

`run()` is three steps: `Call`, `Lock` (the scoped lock is taken and
`emplace_back` has read the vector's header into `seen`) and `Emplace` (the
header is written). `handle_task` is `BeginMove` (the vector is read),
`EndMove` (it is left empty), `StartTask` and `FinishTask` for each function,
and `Rearm`. Because the move does not take `_lock`
(`envir_loop.cpp:37`), an append can fall between the two halves of the move
and the other way round. That is a data race, which C++ gives no meaning.
The model sets `raced` then and allows several outcomes of the writes: the
append survives or goes to storage that is given up; the loop may crash.
`NothingLost` and the refinement speak of runs up to the race:
`TaskQueue` has a mode `"undefined"` to which a race maps. The flag the
destructor raises is a `volatile char` in live555's interface; its reads and
writes are taken as atomic. The functions themselves are steps without effect
here, except that they may call `run()`, and they return.

### EventTriggers and H264Source

The 32 triggers of live555 are a constant, ids are numbers from 0, and
`NoId` is what a client holds that got none. `IsFirst` and `Distance` say
which trigger the scans of `createEventTrigger` and `SingleStep` come to
first. `passed` counts how many triggers were handled since one was raised.
`TriggerEvent` is used by `append` on the loop's thread.

`H264Source` adds the queue and the state of `FramedSource`. A frame is a
model value, and all that matters of its size is whether it exceeds what the
reader has room for. `inCallback` is the source whose reader is in
`afterGetting`: the reader may ask again from there (`Request`), stop, or
return. The nesting of such calls is not modelled here, only their order (see
`TsPipeline` for the depth). A frame
that fits leaves `fNumTruncatedBytes` as it was (line 68), so `Deliver` is
given what was there.

### RtspClient

An `rtsp_client` is used by one application thread, which makes no call after
`close()`, because that deletes the object. `open()` is two steps,
`BeginOpen` and `FinishOpen`, since `RTSPClient::createNew` enters live555's
table of media on the caller's thread; whenever two threads are in that table
at once, `raced` is set. The other properties speak of runs without that race.
The closures are in `queue`, in order. `_clients` is `clientOf`. The server is
a set of unanswered requests: it answers at any time, with success or an
error, or never. A subsession is initiated or given up at will (`SetupNext`),
a source may end, a BYE may come, an alarm may fire at any time. `TakeDown` is
the body of the closure of `close()`: it removes the alarm, closes sinks,
session and connection (which discards requests of that connection) and
deletes the object. Addresses of clients and connections are used again.

### ByteBuffer

Memory is words of the size of the counter; word 0 of a block is at the same
time the first datum and the counter, as in the code (`memory_block.hpp:44`
and `:85`). A write to the first word therefore changes the count, and a copy
or destruction changes the first word. Destroying a handle that reads a count
of 1 frees the block. A handle whose block was freed under it is not used any
more. Left out: `swap` and the move constructors (`memory_block`'s does not
compile when it is used, line 57, and nothing uses it), and a buffer of size 0
constructed as such.

### Scheduler

One iteration of `SingleStep` is `CallSelect` (the queue is brought up to date
and the wait computed), `SelectReturns`, `HandleSocket`, `HandleAlarm`, with
`UserReturns` after each handler; triggers come between the last two and are
in `EventTriggers`. The delay queue is the list of differences the code keeps;
`unsynced` is the clock's time since `fLastSyncTime`, negative when the clock
was set back. `left`, a history, is the true time until each task is due, and
`before` the order in which tasks ought to run. In handlers (`InUser`) tasks
are scheduled and unscheduled, sockets registered, cleared and moved. `Tick`
lets a unit of time pass while `select` waits or a handler runs. An interrupted
`select` leaves the sets as they were given, so that sockets that are not ready
are handled as if they were; the model has this (`readySet' = watched`).
Reading, writing and exceptions are one condition. A clock that jumps forward
is left out: tasks then do run early, and nothing can be said against it.

### RtspRequests and ResponseHandlers

A request is a number; `awaitConn` and `awaitResp` are two of the three queues
of `RTSPClient`, `resuming` and `failing` the local queues of the loops in
`connectionHandler1` and `handleResponseBytes`. (The third queue is for
RTSP over HTTP, which tlab does not use.) Each turn of such a loop is a step,
because a handler called from it may issue requests (`Issue` while
`inHandler`). `Read` takes some of what the server sent into `buffer`, and
`LookAtBuffer` is one turn of the loop over the buffer: `WaitForBody` (put the
request back), `NotAnAnswer`, `BadAnswer`, `AskAgain` (401 or redirection) or
`GiveAnswer`. `FoundAt` is the search by CSeq with all it drops on its way.

The server answers in the order it was asked, in one piece or two, with
success, a refusal, a redirection or 401, or closes. In each behaviour it may
have one quirk: it leaves out CSeq (then the program asks one request at a
time), leaves out answers, sends one that is too large for the buffer (`bad`
when nothing else is on its way, `badLate` at any time), sends requests of its
own, or says `Connection: Close` in a header whose body comes by itself
(`splitClose`). `again` says that the loop is behind an answer it took:
`numExtraBytesAfterResponse` is set to 0 before the loop and not in each turn,
so that a turn that breaks out early behind an answer leaves in the buffer what
it would otherwise drop. `lost`, a history, collects the requests
that get neither an answer nor an error in the code as it is; there are more
ways than one would wish:

- `Connection: Close`, a redirection or a 401 answered while other requests
  wait: the sockets are reset and those stay in the queue, unanswered;
- a header that says `Connection: Close` and comes before its body: the rest
  is never read;
- a request of the server or an answer that cannot be used, in front of other
  answers in one read: all that follows in the buffer is dropped;
- an answer whose request is gone takes the request behind it from the queue;
- answers the server leaves out, requests dropped by deleting the client.

`ResponseHandlers` is what the header of `RTSPClient` promises, with what the
code allows itself: a handler is called at most once, after its request was
issued and before the client is deleted, with this request's answer or an error;
only a request that is lost may be given the answer to another one. (That
happens: of requests that wait for a connection, the first fails to be sent and
its handler issues two more, which are sent ahead of the rest; the server leaves
out its answers to those two; its next answer, to an older request, is taken for
an answer to the second of them, because the search ends behind the first one
that is newer. Four requests are needed, one more than in the run.)
`RtspRequests` implements it. `OneAtATimeIsSafe` says which requests can be lost
while the client lives: those in the history `exposed`, that is, requests that
waited together with others, requests the server left out, and requests whose
answer was read behind something that is no answer (a request of the server's
own, or the rest of an answer that could not be used). So a request that waits
alone is lost to no reset, redirection, second asking, error, unusable answer or
full buffer. It says nothing of servers that are not `Orderly`, and there a
request that waits alone can be lost as well: when `Connection: Close` stands in
a header that comes ahead of its body, the connection is closed with the header
and nobody is told (`RTSPClient.cpp:1766`, 1800).

Three further weaknesses of the code are kept out of the properties by name.
Servers with the quirks `splitClose` and `badLate` are not `Orderly`. No server
makes the client call a handler twice, call one after it was deleted, or keep a
request in two queues (`InOnePlace`); but to one that is not `Orderly` all
requests count as lost, and `NotForgotten` and `ConnectingWhileQueued` say
nothing of it. With the first quirk the header stays in the buffer without a
connection and takes what the next connection brings for its body; with the
second, the answer that could not be used is looked at again with each read and
takes one more request out of the queue each time. `HeldUp` is the state in
which a request of the server's own, read behind an answer, keeps the answers
that follow it in the buffer until more is read, however long that takes.

### RtpSource

`ReadPacket`, `ReadPart` and `ReadBad` are `networkReadHandler1`, which ends
with the loop of `doGetNextFrame1` (`delivering`): each turn takes the head of
the reorder buffer (`TakesNext`) and refuses it (`RejectEmpty`,
`RejectFragment`) or uses it (`UsePacket`). A frame is a sequence of parts,
named by the packet that carried them. An entry of the buffer says which
descriptor holds it, since `fSavedPacket` is lent again and again. The sender
sends the fragments of a frame without other frames between them, so that its
frames (`SenderFrames`) are the packets of a kind and the runs from a `begin`
to the next `end`; `IsReadOf` says that a delivered frame is one of them, whole
or its beginning. Of time,
only that a packet behind a gap may have waited for longer than the threshold
is modelled, at will. A packet is late by less than half of the sequence
numbers. A stop begins a new stream: what was delivered before is forgotten.

The history `misled` marks two mistakes of the code after which frames are
wrong, and which the properties except. `processSpecialHeader` refuses an
empty packet; if a loss was seen before this packet, nothing remembers it. And
it leaves the flags of the packet before in place for an aggregation, so that
after a fragment whose end was lost the aggregation's units and what follows
are joined to one frame, and after a whole fragmented frame and a loss they
are dropped.

### TsPipeline and MemoryBufferSink

The sink, the multiplexor and its one input record pull from each other with
`getNextFrame` and are called back with `afterGetting`, mostly before the
former returned. `pc` is the call that comes next: `next`
(`doGetNextFrame` of the multiplexor), `await` and `await old`
(`awaitNewBuffer`, without and with a buffer to give back); `depth` counts the
callbacks that have not returned. `DeliverPacket` is one turn of
`doGetNextFrame` with the sink's `afterGettingFrame` (`GetFrame`), or, for
every tenth packet, the task that calls it (`HandleTask`). `DeliverFrame` is
`deliverFrame` of the source with `afterGettingFrame1` of the record.
`MemoryBufferSink` has the sink's part: `Drop` for a packet that does not fit,
`Collect` for one that does. Bytes are `<<frame, position>>`, so that each can
be told from any other, and the constants of the code (188, 1000, 100000, 10,
100, 500) are CONSTANTS. The clock reference is taken to be in the first packet
of every buffer (the code leaves it out when it is zero).

Left out: the handler's destructor. Its closure captures `this` by reference
and runs after the object is gone, and it closes `_source` after the
multiplexor has closed it; what either does is undefined. Also that opening a
file fails.

### FileOutput

A name is a pair of a second and a number, which the code writes one behind the
other. `std::setw(4)` pads the number and does not cut it
(`file_output.cpp:117`), so from the 10000th file of a process on names of one
second are not equally long, and `T_10000` sorts before `T_9999`. `SortsBefore`
compares the names as strings, with the base of the digits and the width as
constants (`Base`, `Width`); `OutgrowsWidth` names the pairs for which their
order is not that of the numbers. `InOrder` holds of all files by the time and
the number in their names, which is the order they were opened in, and, but for
those pairs, of the files as their names sort.

A record that is put goes into the buffer of the stream; any part of the
buffer may go to the disk with any record, all of it goes (or is lost, when
the disk fails) when the file is closed, and `Crash` loses it. (What belongs
to the log files only is called `Log...`, to tell it from the other modules'
parts: `logVars`, `LogInit`, `LogNext`, `LogSpec`, `LogSound`.) Opening and
writing may fail. Every process counts its files from 1. A process that starts
in the second in which its predecessor opened a file may take the same name,
and `open()` empties the file: `reused` marks this, and the properties except
it. The clock does not go back, and local time is taken to have no changes of
offset. A day is a second of the model; the code's `60*60*24*_max_days` is a
product of `int`s, which overflows above 24855 days, while the model's is exact.

Two behaviours the model has and no property forbids, because no text
promises otherwise: after a write that failed, lines are not counted any more,
so the file is never closed and all later records of the process are dropped;
and a file is aged by the time it was opened, so one that fills slowly is
removed together with its newest record.

### Sqlite

SQLite is external: handles, compiled statements, transaction, write lock and
table behave as its manual says, and errors come at will. `prepared_statement`
and `statement` treat `_stmt` alike and are both statement objects of the
model. `Close` ignores SQLite's refusal, `Destroy` does nothing, `BindResult`
is the fold with `|`.

An error of a step or of COMMIT may roll the transaction back
(`sqlite3.h:5731-5736`): `MayRollBack`. Only `sqlite3_get_autocommit` would
tell, and the wrapper does not call it. What the program was told is therefore
kept apart from SQLite's state: `begun` are the handles that have a transaction
as far as `begin()`, `commit()` and `rollback()` answered, `toldPending` the rows
that inserts returned true for in each of these, with the values of the last
`bind` that returned true, and `told` the rows of true inserts outside of
transactions and of commits that returned true. An insert into a transaction that
SQLite has ended is stored at once, while the program takes it to wait; it
appears in `told` as `NoRow`. `TableAsTold` says that the table has each row the
program was told is stored, at its place, and that rows that it was not told of
are there only after such a rollback. There they can be: `begin()`, an insert
that fails and takes the transaction with it, an insert that returns true and
is stored by itself, and a `commit()` that returns false leave one.

Calls on a null pointer return false and change nothing, so they are no steps.
`ColumnFailures = FALSE` in the runs: columns are bound or refused together,
which is so except when memory runs out or a column number is out of range.
With `TRUE`, `TableAsTold` is false, because `bind` is true when any column
was bound. Result sets are used only while their statement is open.

## 3 The runs

| run | instance | what it shows |
|---|---|---|
| `envir_loop` | 2 threads, 3 calls | `NothingLost`, the refinement of `TaskQueue`, and under fairness `EventuallyRun`, `CallsReturn` |
| `h264_source` | 3 sources, 2 triggers, 2 frames, one kind of them oversize | `NoLostWakeup`, `InOrder`, `TruncationReported`, `HandlerFindsOwner`, and under fairness `Drains` |
| `rtsp_client` | 2 clients, 2 connections, 2 subsessions, one `open` each | `HandlerFindsClient`, `AnswerFitsState`, `UpcallsFindClient`, `NoConnectionLeaks`, `Freed` |
| `rtsp_requests` | 3 requests (2 with a quirk), 1 resend, a buffer of 4 parts | `Sound`, the refinement of `ResponseHandlers`, `OneAtATimeIsSafe`, and under fairness `EveryCallReturns` |
| `rtp_source` | 4 packets, each up to twice, 10 numbers from 7 on, room for 2 parts | `Sound`, `WholeFrames`, `FramesInOrder`, `NoFrameDropped` |
| `scheduler` | 2 tasks with delays up to 2, 2 sockets, the clock set back once | `Sound`, `DueInOrder`, `WakesInTime`, `NeverEarly`, and under fairness `NobodyStarves` |
| `ts_pipeline` | 4 frames of 3 sizes, 2 times | `Sound`, `EveryByteOnce`, `StackBounded`, `FilesEndBetweenPes`, and under fairness `Flushed` |
| `byte_buffer` | 2 handles, 3 blocks of up to 2 words | `NoOverrun`, `ContentsKept` |
| `file_output` | 2 lines a file, 1 day, 4 seconds, 4 records; numbers in base 3, padded to 1 digit | `LogSound`, `NothingVanishes`, `YoungFilesKept` |
| `sqlite` | 2 statement objects, 2 handles, 2 addresses of compiled statements, 2 rows | `Sound`, `TableAsTold`, `NoHandleLost` |
| `rtsp_two_threads` | 2 clients | violates `OneThreadInLibrary` |
| `byte_buffer_refs` | as `byte_buffer` | violates `RefsAreHandles` |

`Sound` of a module is its type invariant together with what its variables must
have to do with each other: that requests wait for a connection exactly while
one is being opened and each is in one place that will find it
(`RtspRequests`), that the lent packet is held once and a waiting reader waits
for what is not there (`RtpSource`), that `select` watches what has a handler
(`Scheduler`), that frames find their source and files end in time
(`TsPipeline`), that log files hold the records in order (`LogSound` of
`FileOutput`), that nothing is finalized twice (`Sqlite`). Every property is
violated by one of the mutants of the modelled code.

### Why the bounds are enough

- `envir_loop`: two callers are needed for one to wait for the other's lock,
  and three calls for a batch of two with a third that comes from a running
  function or overlaps the move. The theorems hold for any number.
- `h264_source`: one source more than there are triggers, so that an id is
  refused, comes back and goes to another source while its bit is set; two
  frames make a backlog and the second follows a truncated one.
- `rtsp_client`: two connections so that an answer could reach the wrong
  client, two subsessions so that one is skipped, given up or set up after
  another. The safety theorems hold for any numbers, with `MaxOpens = 1`.
- `byte_buffer`: two words are the counter's word and one more; a third block
  lets `reserve` allocate while two are in use. One of the values written is
  1, which reads as a count of one handle.
- `rtsp_requests`: three requests are one answered, one to whose answer the
  handler reacts and one behind; the buffer takes a whole answer, a split one
  and overflows with the next. With a quirk two are enough: one that suffers
  it and one that must not. (With three, the properties hold as well for the
  servers that are `Orderly`.)
- `rtp_source`: a frame in three fragments with another before or behind it,
  an aggregation between others, a packet lost, late or doubled in each place;
  the numbers wrap at the third packet.
- `scheduler`: two tasks are before, at or behind each other; two sockets can
  keep each other from being handled; three registrations let one be cleared
  and come back at the front, or be moved.
- `ts_pipeline`: frames of one byte, of the limit and above it; a buffer
  takes two to five packets, of which every third goes through the loop, so
  that the batch ends in each place of a buffer; tables come between. The
  times lie on both sides of the cut and may go back. The sink starts with no
  room (the first packet is dropped and sent again) or with enough; in this
  program its constructor reserves 1024768 bytes, which is always enough.
- `file_output`: two full files, in one second or in several, and a clock that
  outruns the age limit while the later file is young. The third file's number
  is the first that has one digit more than it is padded to, as the 10000th
  file's is in the code, and its name sorts before the second's.
- `sqlite`: a second handle is opened while the first one's statements are
  open, and one handle's reader or writer is in the way of the other's. Two
  rows are one committed and one pending, or one that is stored while the
  program takes it to wait. Addresses are interchangeable, so the run takes
  states as one that differ only in them.

`MaxFrames`, `MaxTime`, `MaxRecords`, `MaxRows`, `MaxSize`, `MaxOpens`,
`MaxCalls`, `QuirkyCalls`, `MaxResends`, `MaxPackets`, `MaxCopies`,
`NumFrames`, `MaxDelay`, `MaxBusy`, `MaxBack`, `MaxJumps`, `MaxRegs` and the
sets `Handles` and `Addresses` are bounds of the models, not of the code (a
block's size, for one, is bounded by memory). Deadlock is checked except in
`rtsp_requests`, where the program may have made all its calls and got all its
answers or deleted the client, and in `ts_pipeline`, where all frames may have
come and gone. In the other runs something can always go on; a program that has
ended stays where it is by the action `Finished` of `EnvirLoop`.

### Fairness

- `EnvirLoop!Fairness`: threads run, so a thread inside `run()` takes its
  steps (weak fairness of `Lock` and `Emplace`: the lock is given back without
  waiting for anything) and so does the loop (`LoopStep`). The alarm comes due
  every 100 ms, whereas a `SingleStep` without it is a legal step of the
  model: strong fairness of `BeginMove` says that not every step is such a
  one. Nobody has to call `run` or destroy the loop.
- `H264Source!LoopFairness`: every `SingleStep` handles one awaiting trigger;
  which one is not assumed but follows from the round robin, so the fairness
  is of `\E i : Wake(i)`. A callback returns or asks again. It is strong
  because a callback disables `Wake` while it lasts. `Drains` needs, in
  addition, a reader that asks again sooner or later (`ReaderSpec`), which
  is what `memory_buffer_sink` does from its callback.
- `RtspClient!FairSpec`: the loop runs the closures in its queue, which is
  what `EventuallyRun` shows of `EnvirLoop`. The server need never answer.
- `RtspRequests!ReqFairSpec`: the loop's thread runs, so loops over requests
  go on and handlers return; connecting ends one way or the other; what has
  come is read, and the end of a connection the server closed is noticed; and
  the server answers what reached it. Without the last, a request may wait for
  ever: the code has no timeout. A connection that stays open need not fail:
  no request is answered just because it does.
- `Scheduler!FairSpec`: the loop runs and handlers return (`LoopStep`, weak),
  and time passes although `select` may return at once (`Tick`, strong,
  because each call of `select` disables it for a moment). Nothing is assumed
  of which socket or task comes next. A program that registers ever new
  sockets could keep an old one waiting; `MaxRegs` excludes this.
- `TsPipeline!PipeFairSpec`: the loop's thread runs. Frames need not come.

## 4 The proofs

All proofs are checked by TLAPS from nothing. They assume what the modules
state as named assumptions on constants (that null values are not members of
their sets, that numbers are natural), and those of `RtspProofs` about
`rtsp_client` that `MaxOpens = 1`: with a second `open()` they are false
(section 5).

| module | inductive invariant | theorems |
|---|---|---|
| `EnvirLoopProofs` | `IInv`: types; `LockInv` (whoever is inside `emplace_back` holds the lock, and without a race what it read is still the vector), `LoopInv` (the loop's thread is in `run` only while it runs a function), `MoveInv` (without a race the move works on a vector nobody else is in), `BatchInv` (there is a batch only during `handle_task`), `FlagInv` (once the flag is up no other thread is in `run`), `NothingLost` | `TypeCorrect`, `NothingLostAlways`, `NoHalfBatchAlways`, `Refinement` |
| `TsChainProofs`, of `EventTriggers` | `TriggerInv`: types, `OwnerInv` (no two clients hold one id, held ids have handlers), `HandlerFindsOwner`, `WaitInv` (what has passed a trigger plus the distance of the scan to it is at most the number of triggers) | `HandlerFindsOwnerAlways`, `BoundedWaitAlways` |
| `TsChainProofs`, of `H264Source` | `SInv`: types, `TriggerInv`, the three properties, `ResetInv` (a reader that waits has a count of zero), `CallbackInv` | `SourceTypeCorrect`, `NoLostWakeupAlways`, `InOrderAlways`, `TruncationReportedAlways`, `SourceUsesTriggers`, `HandlerFindsSourceAlways` |
| `TsChainProofs`, of `TsPipeline` | `PipeInv`: types, `Begins` (the closures run in their order), `OneCall` (one call is under way, or the source or the task will make the next), `InputFits` (what is left of the multiplexor's buffer is what the record holds), `AllDelivered` (all packets but the one in the task went to the sink), `FileBegun` and `CutInTime` (the files, by their times), `SameFile` (a buffer that is begun goes on into the same file), `StackInv` (what the callbacks are that have not returned); and, for the bytes, `BytesInv`: `EveryByteOnce` and `RecordInv` (the record is in use while packets are cut from its buffer, has less than `LowWater` bytes while it waits for a frame, a packet put aside for want of room is empty, and each frame in the backlog is whole) | `ChainSound`, `StackBoundedAlways`, `FilesEndBetweenPesAlways`, `EveryByteOnceAlways` |
| `SchedulerProofs` | `IInv`: `ListInv` (`LeftAsListed`: the sums of the list's differences, less the time since the last synchronisation, are the times until the tasks are due; unless the clock was set back, they are just that), `TimerInv` (what `select` was given ends before the first of these), `SocketInv` (the handlers' numbers are those `select` watches and below its limit) | `SchedulerSound`, `DueInOrderAlways`, `WakesInTimeAlways`, `NeverEarlyAlways` |
| `RtspProofs`, of `RtspClient` | `RInv`: types, `ClientInv` (flag, connection and session of each client agree), `MapInv` (`_clients` maps a connection to the client that uses it), `RequestInv`, `UpcallInv`, `QueueInv` (at most an `open` and then a `close` closure per client) | `RtspTypeCorrect`, `HandlerFindsClientAlways`, `AnswerFitsStateAlways`, `UpcallsFindClientAlways`, `NoConnectionLeaksAlways`, `UnscheduledInTimeAlways` |
| `RtspProofs`, of `RtspRequests` | `IInv`: types, `Numbered` (no two requests have one CSeq), `Placed` (the queues are apart and hold what has no answer and is not lost), `Phases` (the loops do not overlap, a connection is opened exactly while requests wait for it), `LinkInv` (what is on its way, the server's requests and `awaitResp` fit: see below), `Named` (what is on its way is for a request that was issued, a request of the server's own for none), `Alone` (requests that wait together are exposed) and `Spared` (only exposed requests are lost, and the rest of an answer without its header is of a request that was told or lost); and for every server `TypesInv` (types), `Apart` (the queues share no request and hold none whose handler was called) and `Over` (a client that was deleted does nothing more) | `RequestsSound`, `OneAtATimeIsSafeAlways`, `HandlersAsPromised` |
| `RtpSourceProofs` | `IInv`: types, `Held` (the saved descriptor is taken exactly when one place has it), `OneAtATime`, `ReaderServed`, `Sorted` (the buffer, by packets), `Placed` (`Upto(x)`: some packet x is expected, what the reader got is behind it and the buffer is not), `FramesApart` | `BufferSound`, `Ordered` |
| the same | `FrameInv`: `IInv`, `Disciplined` (the sender's packets), `At(x)` for the expected x, that is `StoredUpto` (what was stored is behind x or in the buffer) and `Followed` (the source holds the beginning of the frame it is in, or knows that a part is missing; complete frames before x were given), `AllRead` | `FramesAreWhole`, `NothingDropped` |
| `ByteBufferProofs` | `BInv`: types, `ShapeInv` (positions, blocks and allocation agree), `NoOverrun`, `SharedInv`, `KeptInv` | `BufferTypeCorrect`, `PositionsOrderedAlways`, `NoOverrunAlways`, `ContentsKeptAlways` |
| `StorageProofs`, of `Sqlite` | `IInv`: `Sound`, `Scoped` (an object out of scope has no statement), `Owned` (unless one was forgotten, each compiled statement is some object's), `Agreed` (what is bound is what the program was told), `NoHandleLost`, and `RowsInv`: `Within` (the rows stay within the bound), `Held` (what is pending is the writer's; the program knows of every transaction, and takes a handle to have one it has not only after SQLite rolled one back), `PendingTold` (what is pending is what the program was told), `TableAsTold` | `StatementsApart`, `ToldTrue`, `HandlesAccounted` |
| `StorageProofs`, of `FileOutput` | `LogIInv`: types, `Known` (what is there was logged), `NamesInTime` (no name is of a later second, or of a later number of this one), `OpenIsLatest` (the open file was opened last), `InOrder`, `NothingVanishes` | `LogFilesSound`, `NothingVanishesAlways`, `YoungFilesKeptAlways` |

The properties are not inductive by themselves, and the strengthenings are the
argument for each. That nothing is lost rests on `LockInv` and
`MoveInv`: what a caller or the loop has read of the vector can differ from
the vector only after a race, because an append that begins during a move, or
a move during an append, is one.
`BoundedWait` follows from `WaitInv` because each handled trigger brings the
scan nearer to every other one that waits. That an answer finds its client
rests on the order in which `close()` takes things down: the requests of the
connection go together with its entry in `_clients`, in one closure, and
`QueueInv` says that no closure of the client can follow.

That tasks run in order, and none early, rests on what a list of differences
means: `AddedFacts`, `RemovedFacts` and `SynchronizedFacts` show what adding,
removing and synchronising do to the sums of all entries, `DueIn`. A clock that
is set back only delays, which is why `NeverEarly` does not except it.

That handlers are called as promised rests on `LinkInv`. It sees the buffer
and the wire as one stream and says of it, with the requests at the server:
each answer in it is in the right pieces (`Shape`); the answers, and then those
that the server owes, come in the order of `awaitResp` and under the CSeq that
their request has now (`Order`); a request in `awaitResp` that is not lost
finds its answer there, or the end of the connection behind the answers before
it (`Kept`); and without a connection nothing is to be expected (`Cut`). With
that the search by CSeq finds the request that is meant, or one that is lost,
drops only lost ones, and a request resent under a new CSeq goes to the end of
the queue, of the server's list and of the numbers at once. What
`RequestsSound` says of forgotten requests, and what `HandlersAsPromised` says
of which answer a handler gets, is for servers that are `Orderly`: the others
break `LinkInv` and, with calls enough, the properties. What holds for every
server rests on invariants that say nothing of answers. `TypesInv`: whatever is
in a queue, at the server or on its way belongs to a request that was issued,
and while the loop over answers goes on there is something to look at. `Apart`:
no request is in two queues or twice in one, nor in any once its handler was
called. With `Apart` every step either issues a request or calls the handlers of
some that waited (`Served`), which is all that `ResponseHandlers` asks when every
request is lost.

`Promise` maps a deleted client to one without waiting requests, and what is
lost to all requests if the server is not `Orderly`; what the handlers were
called with is mapped as it is.

That a frame is whole rests on `Followed`, which says of a source in the midst
of a sender's frame what it knows: everything so far, or that something is
missing. `misled` is where this is not so.

That callbacks do not nest without bound rests on `Nested(n, c, j)`, which says
of each what it came from: one began them, one came with each packet since the
last task (`packets % Batch`), and each of the others with a frame, at most
`LowWater - HeaderSize` for each of the `n` buffers cut up since that task, and
`c` for the one at hand, since every frame has a byte. A buffer takes at least
`PerBuffer` packets, of which the one at hand has had `j`, so `n * PerBuffer + j`
is not more than those since the task. That no file ends inside a PES packet
rests on `SameFile`: packets of one buffer come with one time, a file that took
the first takes the others, and if there is no room for the first, the
multiplexor counts none of it as sent and the next is a first one again.

`EveryByteOnce` speaks of one sequence, `Stream`: the bytes of the files, then
those of the sink's buffer, of the packet the task will hand on, of what the
record still holds and of the frames in the backlog. A frame that arrives is put
at its end. Every other step only moves the line between two neighbours (a
packet from the record to the sink, a frame from the backlog to the record, a
buffer of packets to a file), so it leaves `Stream` as it is, but for one:
a frame that finds too little room loses its end, which is taken from the
midst of the stream and put into `cutOff`. `RecordInv` says why this cannot
happen to a frame that `maxInputESFrameSize` allows for: a record that asks for
a frame has less than `LowWater` bytes and the frame in the backlog is a whole
one. What flattening a sequence of sequences gives is in the lemmas of
"Sequences of sequences" (`FlatAppend`, `FlatHead`). The
constants of the chain are any numbers that fit each other (`PacketsAssumption`).

That log files keep their order rests on the file that is open being the one
opened last (`OpenIsLatest`), so that what is put goes behind all there is.
That their names sort so, unless one has outgrown its width, is
`SortedAsOpened`: digits that are equally many compare as the numbers do. And
nothing vanishes because `open()` can meet a file of its name only in the
second of a restart.

That a connection is closed in fact rests on `Owned`: SQLite refuses only while
something is compiled, and then some object in scope has it, which is what
`forgot` records. That the table is as told rests on `Held`: a handle in a
transaction is one the program began it on, so what a commit makes of the rows
is what the program is told; the converse fails with the first rollback of
SQLite's own, and the rows stored from then on are told as `NoRow`. `ToldTrue`
assumes `~ColumnFailures`: with them it is false (section 5). `Ordered` needs
that sequence numbers are compared as the packets are: `SeqNumOrder` shows it
for packets less than half of the numbers apart, wherever they wrap, and 2^16
is one of the values of `NumSeqNos`. The state between two packets of the
reader is the `x` of `Placed`; an aggregation of which one unit was used is the
one case in which the buffer and the reader share a packet.

Each proof has an initial step, a step for each action and the temporal
conclusion. `SequenceFacts` has the lemmas about `Append`, `Head`, `Tail`,
`SubSeq` and `\o` that the proofs cite, and `LeastOf`: a set of natural numbers
that is not empty has a least member. That is the one use of induction over
data; what needs more is put as a statement about the first place where it
would fail.

`Refinement` and `HandlersAsPromised` are refinements: every step of the
detailed specification is a step of `TaskQueue`, or of `ResponseHandlers`, or a
stutter. So is `SourceUsesTriggers`: what is proved of the triggers, such as
`BoundedWait`, holds of them under the sources. All these are safety
specifications.

Four of the theorems are about properties no run has, because the proof says
more than an instance would: `NoHalfBatch`, `BoundedWait` (fewer than
`NumTriggers` others go before a trigger that waits), `PositionsOrdered` and
`UnscheduledInTime` (the alarm that `close()` unschedules has not run).

Only model-checked: liveness under fairness and everything with `ENABLED`,
which is out of the prover's reach.

## 5 What the code does and a text says otherwise

Shown by runs:

- `byte_buffer_refs`: `memory_block::ptr()` is where the counter lies, so
  writing data overwrites the count of handles. The test of `memory_block`
  asserts that the count is the number of handles (it writes nothing in
  between).
- `rtsp_two_threads`: `open()` calls `RTSPClient::createNew` on the caller's
  thread, while live555 allows only `triggerEvent` from another thread.

Excluded by name in the models (a history variable, a constant or a part of
the program that is left out says where), because the properties would be
false otherwise:

- The move of `_functions` without its lock (`raced` of `EnvirLoop`).
- A second `open()` returns false but has already replaced the keep-alive
  period and the connection: the first connection is leaked, the alarm is not
  renewed, the token stays, and `close()` unschedules a task that has run,
  which live555 forbids (`MaxOpens = 1`).
- Statement objects do not finalize in their destructors and
  `connection::close()` ignores that SQLite refuses to close: the handle is
  lost, open, with its transaction and its lock. `NoHandleLost` asks that
  statements were closed in time.
- `bind` is true when any column was bound (`ColumnFailures = FALSE`).
- An error may make SQLite roll a transaction back, which the wrapper does not
  notice: later inserts are stored although the program takes them to wait, and
  although `commit()` then returns false (`rolledBack` and `NoRow` of `Sqlite`).
- From the 10000th log file of a process on, the names of one second do not
  sort as the files were opened (`OutgrowsWidth` of `FileOutput`).
- Ages of log files above 24855 days overflow an `int`.
- A process that starts in the second in which its predecessor opened a log
  file empties that file (`reused`).
- The ways in which live555 leaves a request without an answer (`lost`,
  `Orderly`, `HeldUp`), although `RTSPClient.hh:72` says that the handler "is
  called later to handle the response (or is called immediately - with an error
  code - if the command cannot be sent)". With three requests to a server with
  the quirk `badLate` and without `Orderly`, or one with the quirk `alien` and
  without `HeldUp`, TLC finds `EveryCallReturns` violated; both come of
  `numExtraBytesAfterResponse` (`RTSPClient.cpp:1620`, used at 1858). With the
  quirk `splitClose` a header waits for its body on a connection that was
  closed when the header was read (`RTSPClient.cpp:1766`, 1800); that loses
  even a request that waits alone. So does an answer that is read together
  with, and behind, a request of the server's own or the rest of an unusable
  answer (`exposed`).
- The ways in which it joins or drops frames after a loss (`misled`).

## 6 What is not modelled

- The bytes of the protocols: formatting and parsing of RTSP, SDP and RTP
  headers, Base64 and the like, the layout of transport stream packets.
- Of live555, whatever tlab does not use: servers, other codecs, containers
  and sinks, RTSP over HTTP. That is most of its 90000 lines.
- SQLite itself: its manual's behaviour is external. Of the errors, those of
  compiling a statement are taken to roll nothing back.
- RTCP, statistics, and a change of SSRC while packets wait; an outage longer
  than half of the sequence numbers, after which the buffer takes new packets
  for late ones; a clock that jumps forward.
- The destructor of `rtsp_to_ts_handler`: undefined behaviour from its first
  access to the destroyed object on.
- The logger's list of services and its shared line buffer: changed without a
  lock, but one thread logs in this program. `console_output`, formatting of
  log lines, error messages: I/O and wording.
- `util`, `error`, `mp`: pure functions and templates without state, which
  the modelled parts do not call.
- Two `envir_loop`s in one program, which would share the unguarded
  `_clients`; calls on an `rtsp_client` after `close()`, which deletes it.
- Exhaustion of memory; files that cannot be opened by `memory_buffer_sink`.

## 7 Plan

In order of what matters most to the system:

1. Let `RtspClient` use an instance of `ResponseHandlers` for its requests, so
   that what `RtspRequests` shows is what `RtspClient` assumes; then follow the
   ways in which an answer can be lost up to `rtsp_client`, whose alarm and
   whose `close()` must cope with them.
2. A second connection at work: `RtspClient` with two `open()`s, and the
   properties that still hold.
3. Servers that are not `Orderly`: bring `numExtraBytesAfterResponse` and the
   closed connection into `LinkInv`, and say which requests they leave without
   an answer; so far all of them count as lost.
