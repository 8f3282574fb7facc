------------------------------ MODULE EnvirLoop ------------------------------
(***************************************************************************)
(* envir_loop: a thread that runs live555's event loop, and run(), by      *)
(* which other threads, and the functions it runs, hand it functions.      *)
(*                                                                         *)
(* run() appends to the vector _functions under _lock.  handle_task(), a   *)
(* delayed task the loop re-arms every 100 ms, moves the vector out        *)
(* WITHOUT the lock, runs what it got and re-arms itself.  Appending and   *)
(* moving are therefore two steps each: a read of the vector's header, and *)
(* the write that follows from what was read.  When an append and the move *)
(* overlap the program has a data race; "raced" records it, and the writes *)
(* land in whatever order the steps take.                                  *)
(***************************************************************************)
EXTENDS Sequences, FiniteSets

CONSTANTS
    Threads,       \* the threads, other than the loop's own, that call run()
    Tasks,         \* the calls of run(): each element is posted at most once
    Loop,          \* the loop's own thread
    NoTask,        \* not in run()
    Nobody         \* the mutex is free

Actors == Threads \cup {Loop}

ASSUME LoopAssumption == Loop \notin Threads
ASSUME NoTaskAssumption == NoTask \notin Tasks
ASSUME NobodyAssumption == Nobody \notin Actors

VARIABLES
    lock,          \* _lock: its holder, or Nobody
    functions,     \* _functions
    arg,           \* arg[a]: the function a is passing to run(), or NoTask
    inside,        \* the actors inside emplace_back
    seen,          \* seen[a]: the vector as a's emplace_back read it
    batch,         \* handle_task's local vector, what is left of it to run
    stage,         \* where the loop thread is
    alarm,         \* a delayed task is scheduled (_task)
    flag,          \* _thread_flag
    raced,         \* history: an append and the move have overlapped
    posted,        \* history: the functions appended, in order
    done           \* history: the functions started, in order

callVars == <<lock, arg, inside, seen>>
historyVars == <<raced, posted, done>>
vars == <<lock, functions, arg, inside, seen, batch, stage, alarm, flag,
          raced, posted, done>>

Stages == {"starting", "checking", "selecting", "moving", "iterating",
           "running", "exited", "crashed"}

TypeOK ==
    /\ lock \in Actors \cup {Nobody}
    /\ functions \in Seq(Tasks)
    /\ arg \in [Actors -> Tasks \cup {NoTask}]
    /\ inside \in SUBSET Actors
    /\ seen \in [Actors -> Seq(Tasks)]
    /\ batch \in Seq(Tasks)
    /\ stage \in Stages
    /\ alarm \in BOOLEAN
    /\ flag \in BOOLEAN
    /\ raced \in BOOLEAN
    /\ posted \in Seq(Tasks)
    /\ done \in Seq(Tasks)

Init ==
    /\ lock = Nobody
    /\ functions = <<>>
    /\ arg = [a \in Actors |-> NoTask]
    /\ inside = {}
    /\ seen = [a \in Actors |-> <<>>]
    /\ batch = <<>>
    /\ stage = "starting"
    /\ alarm = FALSE
    /\ flag = FALSE
    /\ raced = FALSE
    /\ posted = <<>>
    /\ done = <<>>

-----------------------------------------------------------------------------
(* run(), called by a thread of the program or by a function being run.    *)

InQueue(s) == {s[i] : i \in DOMAIN s}

Unused(t) ==
    /\ t \notin InQueue(posted)
    /\ \A a \in Actors : arg[a] # t

\* An object must not be used once its destructor has started; only the
\* loop's own functions can still reach run() then.
MayCall(a) == IF a = Loop THEN stage = "running" ELSE ~flag

Call(a, t) ==
    /\ MayCall(a)
    /\ arg[a] = NoTask
    /\ Unused(t)
    /\ arg' = [arg EXCEPT ![a] = t]
    /\ UNCHANGED <<lock, inside, seen, functions, batch, stage, alarm, flag, historyVars>>

\* Mutant: run() without its scoped_lock.
LockIgnored(a) ==
    /\ arg[a] # NoTask /\ a \notin inside
    /\ lock' = a
    /\ inside' = inside \cup {a}
    /\ seen' = [seen EXCEPT ![a] = functions]
    /\ raced' = (raced \/ stage = "moving")
    /\ UNCHANGED <<functions, arg, batch, stage, alarm, flag, posted, done>>

\* scoped_lock acquired: the thread is inside emplace_back.
Lock(a) ==
    /\ arg[a] # NoTask
    /\ lock = Nobody
    /\ lock' = a
    /\ inside' = inside \cup {a}
    /\ seen' = [seen EXCEPT ![a] = functions]
    /\ raced' = (raced \/ stage = "moving")
    /\ UNCHANGED <<functions, arg, batch, stage, alarm, flag, posted, done>>

\* emplace_back writes the header it computed from the one it read.  After a
\* race the slot it filled may belong to the vector moved away instead.
Emplace(a) ==
    /\ a \in inside
    /\ \/ functions' = Append(seen[a], arg[a])
       \/ raced /\ UNCHANGED functions
    /\ posted' = Append(posted, arg[a])
    /\ arg' = [arg EXCEPT ![a] = NoTask]
    /\ seen' = [seen EXCEPT ![a] = <<>>]
    /\ inside' = inside \ {a}
    /\ lock' = Nobody
    /\ UNCHANGED <<batch, stage, alarm, flag, raced, done>>

-----------------------------------------------------------------------------
(* The loop thread.                                                        *)

\* The thread function schedules the first delayed task.
StartLoop ==
    /\ stage = "starting"
    /\ alarm' = TRUE
    /\ stage' = "checking"
    /\ UNCHANGED <<callVars, functions, batch, flag, historyVars>>

\* doEventLoop looks at the watch variable between two SingleSteps.
CheckFlag ==
    /\ stage = "checking"
    /\ stage' = IF flag THEN "exited" ELSE "selecting"
    /\ UNCHANGED <<callVars, functions, batch, alarm, flag, historyVars>>

\* A SingleStep in which the delayed task has not come due.
StepIdle ==
    /\ stage = "selecting"
    /\ stage' = "checking"
    /\ UNCHANGED <<callVars, functions, batch, alarm, flag, historyVars>>

\* Mutant: handle_task takes _lock and does not give it back.
BeginMoveKeepsLock ==
    /\ stage = "selecting"
    /\ alarm
    /\ lock = Nobody
    /\ lock' = Loop
    /\ alarm' = FALSE
    /\ batch' = functions
    /\ stage' = "moving"
    /\ UNCHANGED <<arg, inside, seen, functions, flag, historyVars>>

\* The alarm fires: handle_task starts moving _functions into its local.
BeginMove ==
    /\ stage = "selecting"
    /\ alarm
    /\ alarm' = FALSE
    /\ batch' = functions
    /\ stage' = "moving"
    /\ raced' = (raced \/ inside \cap Threads # {})
    /\ UNCHANGED <<callVars, functions, flag, posted, done>>

\* Mutant: the vector is copied, and keeps its elements.
EndCopy ==
    /\ stage = "moving"
    /\ stage' = "iterating"
    /\ UNCHANGED <<callVars, functions, batch, alarm, flag, historyVars>>

EndMove ==
    /\ stage = "moving"
    /\ functions' = <<>>
    /\ stage' = "iterating"
    /\ UNCHANGED <<callVars, batch, alarm, flag, historyVars>>

StartTask ==
    /\ stage = "iterating"
    /\ batch # <<>>
    /\ done' = Append(done, Head(batch))
    /\ batch' = Tail(batch)
    /\ stage' = "running"
    /\ UNCHANGED <<callVars, functions, alarm, flag, raced, posted>>

FinishTask ==
    /\ stage = "running"
    /\ arg[Loop] = NoTask
    /\ stage' = "iterating"
    /\ UNCHANGED <<callVars, functions, batch, alarm, flag, historyVars>>

\* Mutant: the delayed task is not scheduled again.
RearmForgotten ==
    /\ stage = "iterating"
    /\ batch = <<>>
    /\ stage' = "checking"
    /\ UNCHANGED <<callVars, functions, batch, alarm, flag, historyVars>>

Rearm ==
    /\ stage = "iterating"
    /\ batch = <<>>
    /\ alarm' = TRUE
    /\ stage' = "checking"
    /\ UNCHANGED <<callVars, functions, batch, flag, historyVars>>

\* After a race the local vector may point into storage emplace_back freed.
Crash ==
    /\ raced
    /\ stage \in {"iterating", "running"}
    /\ stage' = "crashed"
    /\ UNCHANGED <<callVars, functions, batch, alarm, flag, historyVars>>

-----------------------------------------------------------------------------
\* ~envir_loop raises the flag and joins; no other thread is in run() then.
Destroy ==
    /\ ~flag
    /\ \A a \in Threads : arg[a] = NoTask
    /\ flag' = TRUE
    /\ UNCHANGED <<callVars, functions, batch, stage, alarm, historyVars>>

\* The process ends: the join has returned, or the program has crashed.
Finished ==
    /\ stage = "crashed" \/ (flag /\ stage = "exited")
    /\ UNCHANGED vars

LoopStep ==
    \/ StartLoop \/ CheckFlag \/ StepIdle \/ BeginMove \/ EndMove
    \/ StartTask \/ FinishTask \/ Rearm

Next ==
    \/ /\ stage # "crashed"
       /\ \/ \E a \in Actors, t \in Tasks : Call(a, t)
          \/ \E a \in Actors : Lock(a) \/ Emplace(a)
          \/ LoopStep \/ Crash
          \/ Destroy
    \/ Finished

Spec == Init /\ [][Next]_vars

(***************************************************************************)
(* Threads run.  A thread inside run() goes on, which is all the lock asks *)
(* for; the loop goes on, and the alarm comes due: a SingleStep that finds *)
(* it not due cannot be the only one forever.  Nobody has to call run() or *)
(* destroy the loop.                                                       *)
(***************************************************************************)
Live(A) == stage # "crashed" /\ A

Fairness ==
    /\ \A a \in Actors : WF_vars(Live(Lock(a))) /\ WF_vars(Live(Emplace(a)))
    /\ WF_vars(Live(LoopStep))
    /\ SF_vars(Live(BeginMove))

FairSpec == Spec /\ Fairness

-----------------------------------------------------------------------------
(* Safety.                                                                 *)

\* What has been accepted and not started: during the move both vectors
\* still hold the same functions.
Pending == IF stage = "moving" THEN functions ELSE batch \o functions

\* As long as no append has overlapped a move, the functions started, then
\* those of the batch, then those in _functions are exactly the functions
\* run() accepted, in that order: none lost, repeated or overtaken.
NothingLost == ~raced => done \o Pending = posted

\* When the loop has left doEventLoop no batch is half run: the only functions
\* the destructor drops are those no handle_task had moved out.
NoHalfBatch == stage = "exited" => batch = <<>>

(* Refinement: the loop is a TaskQueue.                                    *)
absPending == IF raced THEN <<>> ELSE Pending
absDone == IF raced THEN <<>> ELSE done
absMode == IF raced THEN "undefined" ELSE IF stage = "exited" THEN "closed" ELSE "open"

Queue == INSTANCE TaskQueue WITH
    pending <- absPending, done <- absDone, mode <- absMode

\* Every behaviour of the loop is one of the abstract queue.
ImplementsTaskQueue == Queue!Spec

-----------------------------------------------------------------------------
(* Liveness.                                                               *)

\* A function that run() accepted is run, unless the loop is destroyed first
\* or a race has voided the queue.
EventuallyRun ==
    \A t \in Tasks :
        (t \in InQueue(posted)) ~> (t \in InQueue(done) \/ flag \/ raced)

\* Every call of run() returns, a call made by a function the loop is running
\* included: handle_task holds no lock while it runs them.
RunReturns ==
    \A a \in Actors :
        (arg[a] # NoTask) ~> (arg[a] = NoTask \/ stage = "crashed")

\* The destructor's join returns: the loop notices the flag.
JoinReturns == flag ~> stage \in {"exited", "crashed"}

\* Whoever calls the loop comes back: neither the lock that run() takes nor the
\* join of the destructor can wait for a function that waits for them.
CallsReturn == RunReturns /\ JoinReturns
=============================================================================
