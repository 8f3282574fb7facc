------------------------------ MODULE FileOutput ------------------------------
(***************************************************************************)
(* file_output: log records go to a file until it has max_lines of them;   *)
(* it is closed then, files opened more than max_days ago are removed, and *)
(* the next record opens a new file, whose name is the time and a number   *)
(* counted from 1 in every process.  Records pass through the buffer of an *)
(* ofstream.  Files outlive the process, which may exit or crash.          *)
(*                                                                         *)
(* The file system is external: opening or writing may fail at any time.   *)
(* A name is <<time, number>>: the time is written in digits of fixed      *)
(* width, the number in at least Width digits, four, so that from the      *)
(* 10000th file of a process on names are longer (SortsBefore).  A time is *)
(* the second of the local clock, which does not go back, whose offset     *)
(* does not change, and one day of which stands for 60*60*24 seconds,      *)
(* which the code multiplies by max_days as an int: up to 24855 days.      *)
(* Only a process that starts in the second in which its predecessor       *)
(* opened a file can use a name again, which empties that file (reused).   *)
(***************************************************************************)
EXTENDS Integers, Sequences, SequencesExt

CONSTANTS
    MaxLines,      \* _max_lines
    MaxDays,       \* _max_days
    Base,          \* of the digits of a number: 10
    Width,         \* std::setw(4): how many digits a number is padded to
    MaxTime,       \* bound: the clock
    MaxRecords     \* bound: the records that are logged

ASSUME MaxLinesAssumption == MaxLines \in Nat \ {0}
ASSUME DigitsAssumption == Base \in Nat \ {0, 1} /\ Width \in Nat \ {0}
ASSUME LogBoundsAssumption == MaxDays \in Nat /\ MaxTime \in Nat /\ MaxRecords \in Nat

VARIABLES
    now,           \* the clock
    running,       \* there is a process with a file_output
    isOpen,        \* _ofstream.is_open()
    good,          \* _ofstream.good(), while it is open
    name,          \* the file that is open, or was last
    lines,         \* _lines
    seq,           \* _seq
    buffer,        \* the records in the buffer of the stream
    files,         \* the files in the directory: their names and records
    logged,        \* history: how many records put() has been given
    accepted,      \* history: those that were written to the stream
    excused,       \* history: those removed with an old file, or cut off by a
                   \* crash or a failing write
    reused         \* history: a process has started too soon

streamVars == <<isOpen, good, name, lines, seq, buffer>>
logVars == <<now, running, streamVars, files, logged, accepted, excused, reused>>

Times == 0 .. MaxTime
Records == 1 .. MaxRecords
Names == Times \X (0 .. MaxRecords)

RecordsOf(s) == {s[i] : i \in DOMAIN s}

LogTypeOK ==
    /\ now \in Times
    /\ running \in BOOLEAN /\ isOpen \in BOOLEAN /\ good \in BOOLEAN
    /\ name \in Names
    /\ lines \in 0 .. MaxLines - 1
    /\ seq \in 0 .. MaxRecords
    /\ buffer \in Seq(Records)
    /\ DOMAIN files \subseteq Names
    /\ \A f \in DOMAIN files : files[f] \in Seq(Records)
    /\ logged \in 0 .. MaxRecords
    /\ accepted \subseteq Records /\ excused \subseteq Records
    /\ reused \in BOOLEAN

LogInit ==
    /\ now = 0
    /\ running = FALSE /\ isOpen = FALSE /\ good = FALSE /\ reused = FALSE
    /\ name = <<0, 0>>
    /\ lines = 0 /\ seq = 0 /\ logged = 0
    /\ buffer = <<>>
    /\ files = [f \in {} |-> <<>>]
    /\ accepted = {} /\ excused = {}

Tick ==
    /\ now < MaxTime
    /\ now' = now + 1
    /\ UNCHANGED <<running, streamVars, files, logged, accepted, excused, reused>>

\* The constructor.
Start ==
    /\ ~running
    /\ running' = TRUE
    /\ isOpen' = FALSE /\ good' = FALSE
    /\ lines' = 0 /\ seq' = 0
    /\ reused' = (reused \/ \E f \in DOMAIN files : f[1] = now)
    /\ UNCHANGED <<now, name, buffer, files, logged, accepted, excused>>

-----------------------------------------------------------------------------
(* The parts of put().                                                     *)

\* Mutant: the number is not counted on from file to file.
NextNameReset == <<now, 1>>

\* Mutant: the number comes before the time.
NextNameSwapped == <<seq + 1, now>>

\* The name of the next file.
NextName == <<now, seq + 1>>

\* What open() makes of the directory: a file of that name is emptied.
WithEmpty(fs, f) == [g \in DOMAIN fs \cup {f} |-> IF g = f THEN <<>> ELSE fs[g]]

\* The file f after the first k records of the sequence b went to the disk.
Flushed(fs, f, b, k) ==
    IF f \in DOMAIN fs THEN [fs EXCEPT ![f] = @ \o SubSeq(b, 1, k)] ELSE fs

\* Mutant: files are kept while the others are removed.
OldFilesSwapped(fs) == {f \in DOMAIN fs : f[1] >= now - MaxDays}

\* The files delete_old_logs removes.
OldFiles(fs) == {f \in DOMAIN fs : f[1] < now - MaxDays}

Without(fs, gone) == [f \in DOMAIN fs \ gone |-> fs[f]]

\* The file is closed after this many lines.
Full(count) == count >= MaxLines

\* put() of the record r to a stream that is open, with the directory fs and
\* the number n: it is written, counted, and the file closed when it is full.
PutOpen(r, fs, f, n, isGood) ==
    LET count == IF isGood THEN lines + 1 ELSE lines IN
    /\ name' = f /\ seq' = n
    /\ accepted' = IF isGood THEN accepted \cup {r} ELSE accepted
    /\ \E fits \in BOOLEAN, k \in 0 .. Len(buffer) + 1 : LET
           b == IF isGood /\ fits THEN Append(buffer, r) ELSE buffer
           onDisk == Flushed(fs, f, b, k)
           missed == IF isGood /\ ~fits THEN {r} ELSE {}
       IN
        /\ k <= Len(b)
        /\ isGood \/ fits
        /\ \/ /\ ~Full(count)
              /\ (~isGood \/ ~fits) => k = 0
              /\ isOpen' = TRUE /\ lines' = count
              /\ good' = (isGood /\ fits)
              /\ buffer' = SubSeq(b, k + 1, Len(b))
              /\ files' = onDisk
              /\ excused' = excused \cup missed
           \/ /\ Full(count)
              /\ isOpen' = FALSE /\ lines' = 0 /\ good' = FALSE
              /\ buffer' = <<>>
              /\ files' = Without(onDisk, OldFiles(onDisk))
              /\ excused' = excused \cup missed
                              \cup RecordsOf(SubSeq(b, k + 1, Len(b)))
                              \cup UNION {RecordsOf(onDisk[g]) : g \in OldFiles(onDisk)}

Put ==
    /\ running /\ logged < MaxRecords
    /\ logged' = logged + 1
    /\ \/ /\ isOpen
          /\ PutOpen(logged', files, name, seq, good)
       \/ /\ ~isOpen
          /\ PutOpen(logged', WithEmpty(files, NextName), NextName, seq + 1, TRUE)
       \/ /\ ~isOpen               \* the file cannot be opened
          /\ seq' = seq + 1
          /\ UNCHANGED <<isOpen, good, name, lines, buffer, files, accepted, excused>>
    /\ UNCHANGED <<now, running, reused>>

\* The stream's destructor writes what is in its buffer, or fails to.
Exit ==
    /\ running
    /\ running' = FALSE /\ isOpen' = FALSE
    /\ \E k \in 0 .. Len(buffer) :
          /\ files' = Flushed(files, name, buffer, k)
          /\ excused' = excused \cup RecordsOf(SubSeq(buffer, k + 1, Len(buffer)))
    /\ buffer' = <<>>
    /\ UNCHANGED <<now, good, name, lines, seq, logged, accepted, reused>>

\* The process dies with what is in the buffer.
Crash ==
    /\ running
    /\ running' = FALSE /\ isOpen' = FALSE
    /\ excused' = excused \cup RecordsOf(buffer)
    /\ buffer' = <<>>
    /\ UNCHANGED <<now, good, name, lines, seq, files, logged, accepted, reused>>

LogNext == Tick \/ Start \/ Put \/ Exit \/ Crash

LogSpec == LogInit /\ [][LogNext]_logVars

-----------------------------------------------------------------------------
(* What a reader of the directory relies on.                               *)

\* How many digits the number n has in a name.
Length(n) ==
    CHOOSE l \in Width .. Width + n :
        n < Base ^ l /\ (l = Width \/ Base ^ (l - 1) <= n)

\* The longer number m, cut to as many digits as n has.
Cut(m, n) == m \div Base ^ (Length(m) - Length(n))

\* The digits of m sort before those of n; a number sorts before a longer one
\* that begins with it.
DigitsBefore(m, n) ==
    IF Length(m) = Length(n) THEN m < n
    ELSE IF Length(m) < Length(n) THEN m <= Cut(n, m) ELSE Cut(m, n) < n

\* The string of the name f sorts before that of g.
SortsBefore(f, g) == f[1] < g[1] \/ (f[1] = g[1] /\ DigitsBefore(f[2], g[2]))

\* setw(4) does not cut: the names of one second are not equally long.
OutgrowsWidth(f, g) == f[1] = g[1] /\ Length(f[2]) # Length(g[2])

\* The file f was opened before g.
Before(f, g) == f[1] < g[1] \/ (f[1] = g[1] /\ f[2] < g[2])

Ascending(s) == \A i, j \in DOMAIN s : i < j => s[i] < s[j]

\* Files read by the time and the number in their names, each from its first
\* line, and what the stream still holds after them, give the records in the
\* order they were logged: across files opened in one second, across restarts
\* and failed writes.  So do they as their names sort, but for names of one
\* second of which one has outgrown the four digits.
InOrder ==
    ~reused =>
        /\ \A f \in DOMAIN files : Ascending(files[f])
        /\ \A f, g \in DOMAIN files :
              Before(f, g) \/ (SortsBefore(f, g) /\ ~OutgrowsWidth(f, g)) =>
                 \A r \in RecordsOf(files[f]), q \in RecordsOf(files[g]) : r < q
        /\ Ascending(buffer)
        /\ \A f \in DOMAIN files, r \in RecordsOf(buffer) :
              \A q \in RecordsOf(files[f]) : q < r

\* The directory can be read back: its files have the names and lengths the code
\* gives them, and the order of the records.
LogSound == LogTypeOK /\ InOrder

\* A record that went into a good stream is on the disk or on its way there,
\* unless it was cut off by a crash, a write that failed, or its file's age:
\* opening the next file never empties one that holds records.
NothingVanishes ==
    ~reused =>
        \A r \in accepted \ excused :
           \/ r \in RecordsOf(buffer)
           \/ \E f \in DOMAIN files : r \in RecordsOf(files[f])

\* A file that was opened at most max_days ago stays, and what is in it stays
\* at its front, whatever is opened, closed or removed by a step.
YoungFilesKept ==
    [][ ~reused' =>
          \A f \in DOMAIN files : f[1] >= now - MaxDays =>
             f \in DOMAIN files' /\ IsPrefix(files[f], files'[f]) ]_logVars
=============================================================================
