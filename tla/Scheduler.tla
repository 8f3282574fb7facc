------------------------------ MODULE Scheduler ------------------------------
(***************************************************************************)
(* BasicTaskScheduler: delayed tasks and sockets.  SingleStep waits in     *)
(* select() until a socket is ready or the next task is due, calls the     *)
(* handler of one socket and then one task.  Tasks are kept in DelayQueue, *)
(* a list in which each entry counts the time from the one before it; it   *)
(* is brought up to date (synchronize) when it is used.  Event triggers,   *)
(* which SingleStep handles between the two, are in EventTriggers.         *)
(*                                                                         *)
(* Everything but the clock and the sockets happens on the loop's thread:  *)
(* handlers (user) schedule and unschedule tasks, and register, clear and  *)
(* move sockets; so does the program before it enters the loop.  The clock *)
(* is gettimeofday's: it may be set back.  Only differences of times count *)
(* here.  Reading, writing and exceptions are one condition of a socket.   *)
(***************************************************************************)
EXTENDS Integers, Sequences, SequencesExt, FiniteSets

CONSTANTS
    Tasks,         \* the delayed tasks
    NumSockets,    \* bound: socket numbers are below it
    MaxDelay,      \* bound: the delays of tasks
    MaxBusy,       \* bound: the time that passes between two synchronisations
    MaxBack,       \* bound: how far the clock is set back
    MaxJumps,      \* bound: how often
    MaxRegs        \* bound: how often a socket is registered

ASSUME BoundsAssumption ==
    {NumSockets, MaxDelay, MaxBusy, MaxBack, MaxJumps, MaxRegs} \subseteq Nat

Sockets == 0 .. NumSockets - 1
NoSocket == -1
Delays == 0 .. MaxDelay

\* select() waits for this long if no task is scheduled.
Eternity == MaxDelay + 1

VARIABLES
    \* the delay queue
    queue,         \* the entries: <<task, fDeltaTimeRemaining>>
    unsynced,      \* the clock's time since fLastSyncTime
    \* the sockets
    handlers,      \* fHandlers, from its front
    watched,       \* fReadSet, fWriteSet, fExceptionSet
    maxNum,        \* fMaxNumSockets
    last,          \* fLastHandledSocketNum
    \* SingleStep
    pc,            \* where the loop is
    readySet,      \* the sets that select() returned
    timeout,       \* how long select() will still wait
    \* the environment
    ready,         \* the sockets that have something for their handler
    jumps, regs,   \* counters for the bounds
    \* history
    left,          \* the time until each pending task is due
    before         \* pairs of pending tasks: the first is due first

queueVars == <<queue, unsynced>>
socketVars == <<handlers, watched, maxNum, last>>
stepVars == <<pc, readySet, timeout>>
historyVars == <<left, before>>
vars == <<queueVars, socketVars, stepVars, ready, jumps, regs, historyVars>>

Pending == {queue[i][1] : i \in DOMAIN queue}
PCs == {"top", "select", "sockets", "user socket", "alarm", "user alarm"}

TypeOK ==
    /\ queue \in Seq(Tasks \X Delays)
    /\ Cardinality(Pending) = Len(queue)
    /\ unsynced \in (-MaxBack .. MaxBusy) \cup (-MaxBack .. Eternity)
    /\ handlers \in Seq(Sockets)
    /\ watched \subseteq Sockets /\ ready \subseteq Sockets /\ readySet \subseteq Sockets
    /\ maxNum \in 0 .. NumSockets
    /\ last \in Sockets \cup {NoSocket}
    /\ pc \in PCs
    /\ timeout \in Nat
    /\ jumps \in 0 .. MaxJumps /\ regs \in 0 .. MaxRegs
    /\ left \in [Pending -> Delays]
    /\ before \subseteq Tasks \X Tasks

Init ==
    /\ queue = <<>> /\ unsynced = 0
    /\ handlers = <<>> /\ watched = {} /\ maxNum = 0 /\ last = NoSocket
    /\ pc = "user alarm" /\ readySet = {} /\ timeout = 0
    /\ ready = {} /\ jumps = 0 /\ regs = 0
    /\ left = [t \in {} |-> 0] /\ before = {}

-----------------------------------------------------------------------------
(* DelayQueue                                                              *)

\* The time until each entry is due, as the list has it.
DueIn(q) == LET due[i \in 0 .. Len(q)] == IF i = 0 THEN 0 ELSE due[i - 1] + q[i][2] IN due

\* synchronize: what was due within e is due now, the first other one e sooner.
Synchronized(q, e) ==
    LET due == DueIn(q) IN
    [i \in DOMAIN q |-> <<q[i][1],
        IF due[i] <= e THEN 0 ELSE IF due[i - 1] <= e THEN due[i] - e ELSE q[i][2]>>]

\* The queue once it is synchronised; time that a clock set back would give is
\* not taken off.
UpToDate == IF unsynced < 0 THEN queue ELSE Synchronized(queue, unsynced)

\* Mutant: a new entry comes before those that are due at the same time.
PlaceFirst(q, d) == Cardinality({i \in DOMAIN q : DueIn(q)[i] < d})

\* How many entries a new one with delay d comes after.
Place(q, d) == Cardinality({i \in DOMAIN q : DueIn(q)[i] <= d})

\* addEntry: the entry behind the new one counts from it.
Added(q, t, d) ==
    LET k == Place(q, d)
        delta == d - DueIn(q)[k]
        behind == SubSeq(q, k + 1, Len(q))
    IN SubSeq(q, 1, k) \o <<<<t, delta>>>>
        \o (IF behind = <<>> THEN <<>> ELSE [behind EXCEPT ![1][2] = @ - delta])

\* Mutant: the entry behind it is not told.
RemovedOnly(q, i) == RemoveAt(q, i)

\* removeEntry: the entry behind it counts from the one before it.
Removed(q, i) ==
    LET r == RemoveAt(q, i) IN
    IF i > Len(r) THEN r ELSE [r EXCEPT ![i][2] = @ + q[i][2]]

-----------------------------------------------------------------------------
(* What handlers do.                                                       *)

InUser == pc \in {"user socket", "user alarm"}

\* scheduleDelayedTask
Schedule(t, d) ==
    /\ InUser /\ t \notin Pending
    /\ queue' = Added(UpToDate, t, d)
    /\ unsynced' = 0
    /\ left' = [u \in Pending \cup {t} |-> IF u = t THEN d ELSE left[u]]
    /\ before' = before \cup {<<u, t>> : u \in {v \in Pending : left[v] <= d}}
                        \cup {<<t, u>> : u \in {v \in Pending : left[v] > d}}
    /\ UNCHANGED <<socketVars, stepVars, ready, jumps, regs>>

Forget(t) ==
    /\ left' = [u \in Pending \ {t} |-> left[u]]
    /\ before' = {p \in before : t \notin {p[1], p[2]}}

\* unscheduleDelayedTask
Unschedule(t) ==
    /\ InUser
    /\ \E i \in DOMAIN queue : queue[i][1] = t /\ queue' = Removed(queue, i)
    /\ Forget(t)
    /\ UNCHANGED <<unsynced, socketVars, stepVars, ready, jumps, regs>>

\* setBackgroundHandling of a socket without a handler: it goes to the front.
Register(s) ==
    /\ InUser /\ regs < MaxRegs
    /\ s \notin ToSet(handlers)
    /\ handlers' = <<s>> \o handlers
    /\ watched' = watched \cup {s}
    /\ maxNum' = IF s + 1 > maxNum THEN s + 1 ELSE maxNum
    /\ regs' = regs + 1
    /\ UNCHANGED <<queueVars, last, stepVars, ready, jumps, historyVars>>

\* disableBackgroundHandling, also of a socket that has no handler.
Clear(s) ==
    /\ InUser
    /\ \/ s \notin ToSet(handlers) /\ UNCHANGED handlers
       \/ \E i \in DOMAIN handlers : handlers[i] = s /\ handlers' = RemoveAt(handlers, i)
    /\ watched' = watched \ {s}
    /\ maxNum' = IF s + 1 = maxNum THEN maxNum - 1 ELSE maxNum
    /\ UNCHANGED <<queueVars, last, stepVars, ready, jumps, regs, historyVars>>

\* Mutant: fMaxNumSockets is not raised.
MoveKeepsMax(s, to) ==
    /\ InUser /\ regs < MaxRegs
    /\ s \in ToSet(handlers) /\ to \notin ToSet(handlers)
    /\ handlers' = [i \in DOMAIN handlers |-> IF handlers[i] = s THEN to ELSE handlers[i]]
    /\ watched' = (watched \ {s}) \cup {to}
    /\ maxNum' = IF s + 1 = maxNum THEN maxNum - 1 ELSE maxNum
    /\ regs' = regs + 1
    /\ UNCHANGED <<queueVars, last, stepVars, ready, jumps, historyVars>>

\* moveSocketHandling, to a socket without a handler; the place stays.
Move(s, to) ==
    /\ InUser /\ regs < MaxRegs
    /\ s \in ToSet(handlers) /\ to \notin ToSet(handlers)
    /\ handlers' = [i \in DOMAIN handlers |-> IF handlers[i] = s THEN to ELSE handlers[i]]
    /\ watched' = (watched \ {s}) \cup {to}
    /\ LET lower == IF s + 1 = maxNum THEN maxNum - 1 ELSE maxNum IN
           maxNum' = IF to + 1 > lower THEN to + 1 ELSE lower
    /\ regs' = regs + 1
    /\ UNCHANGED <<queueVars, last, stepVars, ready, jumps, historyVars>>

UserReturns ==
    /\ InUser
    /\ pc' = IF pc = "user socket" THEN "alarm" ELSE "top"
    /\ UNCHANGED <<queueVars, socketVars, readySet, timeout, ready, jumps, regs,
                   historyVars>>

-----------------------------------------------------------------------------
(* SingleStep                                                              *)

\* Mutant: the queue is not brought up to date first.
TimeToNextAlarmStale ==
    /\ timeout' = IF queue = <<>> THEN Eternity ELSE Head(queue)[2]
    /\ UNCHANGED queueVars

\* timeToNextAlarm
TimeToNextAlarm ==
    \/ /\ queue # <<>> /\ Head(queue)[2] = 0
       /\ timeout' = 0
       /\ UNCHANGED queueVars
    \/ /\ queue # <<>> => Head(queue)[2] # 0
       /\ queue' = UpToDate /\ unsynced' = 0
       /\ timeout' = IF queue = <<>> THEN Eternity ELSE Head(queue')[2]

CallSelect ==
    /\ pc = "top"
    /\ TimeToNextAlarm
    /\ pc' = "select"
    /\ UNCHANGED <<socketVars, readySet, ready, jumps, regs, historyVars>>

\* select() returns with the sockets that are ready, or after its time.  When
\* it is interrupted, the sets stay as they were given.
SelectReturns ==
    /\ pc = "select"
    /\ LET found == {s \in watched \cap ready : s < maxNum} IN
          \/ readySet' = found /\ (found # {} \/ timeout = 0)
          \/ readySet' = watched
    /\ pc' = "sockets" /\ timeout' = 0
    /\ UNCHANGED <<queueVars, socketVars, ready, jumps, regs, historyVars>>

\* The handlers from the one behind the last that was called, once around.
SearchOrder ==
    IF last \in ToSet(handlers)
    THEN LET i == CHOOSE i \in DOMAIN handlers : handlers[i] = last IN
         SubSeq(handlers, i + 1, Len(handlers)) \o SubSeq(handlers, 1, i)
    ELSE handlers

\* One ready socket's handler is called.
HandleSocket ==
    /\ pc = "sockets"
    /\ LET found == {i \in DOMAIN SearchOrder : SearchOrder[i] \in readySet \cap watched} IN
          \/ /\ found = {}
             /\ last' = NoSocket /\ pc' = "alarm" /\ UNCHANGED ready
          \/ \E i \in found :
             /\ \A j \in found : i <= j
             /\ last' = SearchOrder[i] /\ pc' = "user socket"
             /\ ready' \in {ready, ready \ {last'}}
    /\ readySet' = {}
    /\ UNCHANGED <<queueVars, handlers, watched, maxNum, timeout, jumps, regs, historyVars>>

\* Mutant: tasks wait for a step in which no socket was handled.
HeadIsDueWhenIdle(q) == q # <<>> /\ Head(q)[2] = 0 /\ last = NoSocket

\* The head of the list is due.
HeadIsDue(q) == q # <<>> /\ Head(q)[2] = 0

\* handleAlarm: one task that is due is removed and called.
HandleAlarm ==
    /\ pc = "alarm"
    /\ LET q == IF HeadIsDue(queue) THEN queue ELSE UpToDate IN
          /\ unsynced' = IF HeadIsDue(queue) THEN unsynced ELSE 0
          /\ IF HeadIsDue(q)
             THEN queue' = Removed(q, 1) /\ Forget(Head(q)[1]) /\ pc' = "user alarm"
             ELSE queue' = q /\ UNCHANGED historyVars /\ pc' = "top"
    /\ UNCHANGED <<socketVars, readySet, timeout, ready, jumps, regs>>

-----------------------------------------------------------------------------
(* The environment.                                                        *)

\* Time passes while select() waits, and in handlers.
Tick ==
    /\ \/ pc = "select" /\ timeout > 0 /\ timeout' = timeout - 1
       \/ InUser /\ unsynced < MaxBusy /\ UNCHANGED timeout
    /\ unsynced' = unsynced + 1
    /\ left' = [t \in Pending |-> IF left[t] = 0 THEN 0 ELSE left[t] - 1]
    /\ UNCHANGED <<queue, socketVars, pc, readySet, ready, jumps, regs, before>>

\* The clock is set back.
SetBack ==
    /\ jumps < MaxJumps
    /\ \E d \in 1 .. MaxBack : unsynced - d >= -MaxBack /\ unsynced' = unsynced - d
    /\ jumps' = jumps + 1
    /\ UNCHANGED <<queue, socketVars, stepVars, ready, regs, historyVars>>

SocketReady(s) ==
    /\ s \notin ready
    /\ ready' = ready \cup {s}
    /\ UNCHANGED <<queueVars, socketVars, stepVars, jumps, regs, historyVars>>

LoopStep == UserReturns \/ CallSelect \/ SelectReturns \/ HandleSocket \/ HandleAlarm

Next ==
    \/ LoopStep \/ Tick \/ SetBack
    \/ \E t \in Tasks : Unschedule(t) \/ \E d \in Delays : Schedule(t, d)
    \/ \E s \in Sockets : Register(s) \/ Clear(s) \/ SocketReady(s)
    \/ \E s, to \in Sockets : Move(s, to)

Spec == Init /\ [][Next]_vars

\* The loop runs, handlers return, and time passes even if select() never waits.
FairSpec == Spec /\ WF_vars(LoopStep) /\ SF_vars(Tick)

-----------------------------------------------------------------------------
\* A task never runs before its delay has passed, whatever was scheduled,
\* unscheduled or run before it, and though the clock is set back.
NeverEarly ==
    [][\A t \in Pending : HandleAlarm /\ t \notin Pending' => left[t] = 0]_vars

\* The list is in the order in which the tasks are due; those due at the same
\* time are in the order they were scheduled in.
DueInOrder ==
    jumps = 0 => \A i, j \in DOMAIN queue : i < j => <<queue[i][1], queue[j][1]>> \in before

\* The loop does not sleep through the time at which a task is due.
WakesInTime ==
    jumps = 0 /\ pc = "select" => \A t \in Pending : timeout <= left[t]

\* select() is told of every socket that has a handler, and only of those.
AllWatched ==
    /\ ToSet(handlers) = watched /\ Cardinality(watched) = Len(handlers)
    /\ \A s \in watched : s < maxNum

\* The list of tasks, the handlers and the sets for select() fit each other.
Sound == TypeOK /\ AllWatched

\* Every task runs (or is unscheduled), though sockets are ready and tasks due
\* all the time.
TasksRun == \A t \in Tasks : t \in Pending ~> t \notin Pending

\* A socket that stays ready is handled, though others are ready all the time.
ReadyHandled ==
    \A s \in Sockets :
        s \in watched \cap ready ~> (s \notin watched \cap ready
                                       \/ (pc = "user socket" /\ last = s))

\* The order in which SingleStep looks at its tasks and sockets leaves none out.
NobodyStarves == TasksRun /\ ReadyHandled
=============================================================================
