--------------------------- MODULE EnvirLoopProofs ---------------------------
(***************************************************************************)
(* What holds of envir_loop for any number of threads and of functions:    *)
(* its type invariant, that nothing is lost, repeated or overtaken while   *)
(* no append has overlapped a move, and that it implements TaskQueue.      *)
(***************************************************************************)
EXTENDS EnvirLoop, SequenceFacts, SequenceTheorems, TLAPS

(* The inductive invariant.                                                *)

\* Whoever is inside emplace_back holds the mutex, and what it read is still
\* what the vector holds.
LockInv ==
    \A a \in inside : /\ lock = a
                      /\ arg[a] # NoTask
                      /\ ~raced => seen[a] = functions

\* The loop's own thread is in run() only while it runs a function.
LoopInv == arg[Loop] # NoTask => stage \in {"running", "crashed"}

\* Until a race, the move works alone on a vector nobody else is in.
MoveInv ==
    stage = "moving" /\ ~raced => batch = functions /\ inside = {}

\* Between two runs of handle_task there is no batch.
BatchInv ==
    stage \in {"starting", "checking", "selecting", "exited"} => batch = <<>>

\* Once the flag is up no other thread is in run(), and the loop leaves only
\* after it.
FlagInv ==
    /\ flag => \A a \in Threads : arg[a] = NoTask
    /\ stage = "exited" => flag

IInv ==
    /\ TypeOK
    /\ LockInv
    /\ LoopInv
    /\ MoveInv
    /\ BatchInv
    /\ FlagInv
    /\ NothingLost

-----------------------------------------------------------------------------
(* One lemma per kind of step.                                             *)

LEMMA InitInv == Init => IInv
<1> SUFFICES ASSUME Init PROVE IInv
  OBVIOUS
<1> USE DEF Init
<1>1. TypeOK
  BY EmptySeq, NoTaskAssumption DEF TypeOK, Stages
<1>2. LockInv
  BY NobodyAssumption DEF LockInv
<1>3. LoopInv /\ MoveInv /\ BatchInv /\ FlagInv
  BY DEF LoopInv, MoveInv, BatchInv, FlagInv, Actors
<1>4. NothingLost
  <2>1. <<>> \in Seq(Tasks) /\ <<>> \o <<>> = <<>>
    BY EmptySeq, ConcatEmptySeq
  <2> QED BY <2>1 DEF NothingLost, Pending
<1> QED BY <1>1, <1>2, <1>3, <1>4 DEF IInv

LEMMA CallInv ==
    ASSUME IInv, NEW a \in Actors, NEW t \in Tasks, Call(a, t),
           stage # "crashed"
    PROVE  IInv'
<1> USE DEF IInv, Call, callVars, historyVars
<1>1. TypeOK'
  BY DEF TypeOK
<1>2. LockInv'
  BY NoTaskAssumption DEF LockInv, TypeOK
<1>3. LoopInv'
  BY DEF LoopInv, TypeOK, MayCall
<1>4. MoveInv' /\ BatchInv'
  BY DEF MoveInv, BatchInv
<1>5. FlagInv'
  BY LoopAssumption DEF FlagInv, MayCall, TypeOK, Actors
<1>6. NothingLost'
  BY DEF NothingLost, Pending
<1> QED BY <1>1, <1>2, <1>3, <1>4, <1>5, <1>6

LEMMA LockStepInv ==
    ASSUME IInv, NEW a \in Actors, Lock(a), stage # "crashed"
    PROVE  IInv'
<1> USE DEF IInv, Lock
<1>1. TypeOK'
  BY DEF TypeOK
<1>2. LockInv'
  BY NobodyAssumption DEF LockInv, TypeOK
<1>3. LoopInv'
  BY DEF LoopInv
<1>4. MoveInv' /\ BatchInv'
  BY DEF MoveInv, BatchInv
<1>5. FlagInv'
  BY DEF FlagInv
<1>6. NothingLost'
  BY DEF NothingLost, Pending
<1> QED BY <1>1, <1>2, <1>3, <1>4, <1>5, <1>6

\* Without a race the append reaches the vector the loop will move.
LEMMA EmplaceEffect ==
    ASSUME IInv, NEW a \in Actors, Emplace(a), ~raced
    PROVE  /\ functions' = Append(functions, arg[a])
           /\ stage # "moving"
           /\ arg[a] \in Tasks
           /\ Pending \in Seq(Tasks)
           /\ Pending' = Append(Pending, arg[a])
<1> USE DEF IInv
<1>1. arg[a] \in Tasks /\ seen[a] = functions
  BY DEF Emplace, LockInv, TypeOK
<1>2. stage # "moving"
  BY NobodyAssumption DEF Emplace, MoveInv
<1>3. functions' = Append(functions, arg[a])
  BY <1>1 DEF Emplace
<1>4. batch \o functions \in Seq(Tasks)
  BY ConcatProperties DEF TypeOK
<1>5. batch \o Append(functions, arg[a]) = Append(batch \o functions, arg[a])
  BY <1>1, AppendLast DEF TypeOK
<1>6. batch' = batch /\ stage' = stage
  BY DEF Emplace
<1> QED BY <1>1, <1>2, <1>3, <1>4, <1>5, <1>6 DEF Pending

LEMMA EmplaceInv ==
    ASSUME IInv, NEW a \in Actors, Emplace(a), stage # "crashed"
    PROVE  IInv'
<1> USE DEF IInv
<1>1. arg[a] \in Tasks
  BY DEF Emplace, LockInv, TypeOK
<1>2. TypeOK'
  <2>1. Append(seen[a], arg[a]) \in Seq(Tasks) /\ Append(posted, arg[a]) \in Seq(Tasks)
    BY <1>1, AppendProperties DEF TypeOK
  <2>2. functions' \in Seq(Tasks) /\ posted' \in Seq(Tasks)
    BY <2>1 DEF Emplace, TypeOK
  <2>3. seen' \in [Actors -> Seq(Tasks)] /\ arg' \in [Actors -> Tasks \cup {NoTask}]
    BY EmptySeq DEF Emplace, TypeOK
  <2> QED BY <2>2, <2>3 DEF Emplace, TypeOK
<1>3. LockInv'
  BY NobodyAssumption DEF Emplace, LockInv
<1>4. LoopInv'
  BY DEF Emplace, LoopInv, TypeOK
<1>5. MoveInv'
  BY EmplaceEffect DEF Emplace, MoveInv
<1>6. BatchInv'
  BY DEF Emplace, BatchInv
<1>7. FlagInv'
  BY DEF Emplace, FlagInv, TypeOK, Actors
<1>8. NothingLost'
  <2> SUFFICES ASSUME ~raced' PROVE (done \o Pending = posted)'
    BY DEF NothingLost
  <2>1. ~raced /\ done' = done /\ posted' = Append(posted, arg[a])
    BY DEF Emplace
  <2>2. Pending \in Seq(Tasks) /\ Pending' = Append(Pending, arg[a])
    BY <2>1, EmplaceEffect
  <2>3. done \o Append(Pending, arg[a]) = Append(done \o Pending, arg[a])
    BY <1>1, <2>2, AppendLast DEF TypeOK
  <2> QED BY <2>1, <2>2, <2>3 DEF NothingLost
<1> QED BY <1>2, <1>3, <1>4, <1>5, <1>6, <1>7, <1>8

\* The move leaves what is pending as it was.
LEMMA BeginMovePending ==
    ASSUME IInv, BeginMove
    PROVE  Pending' = Pending
<1>1. batch = <<>> /\ functions \in Seq(Tasks)
  BY DEF IInv, BatchInv, BeginMove, TypeOK
<1>2. <<>> \o functions = functions
  BY <1>1, ConcatEmptySeq
<1> QED BY <1>1, <1>2 DEF BeginMove, Pending

LEMMA EndMovePending ==
    ASSUME IInv, EndMove, ~raced
    PROVE  Pending' = Pending
<1>1. batch = functions /\ batch \in Seq(Tasks)
  BY DEF IInv, MoveInv, EndMove, TypeOK
<1>2. batch \o <<>> = batch
  BY <1>1, ConcatEmptySeq
<1> QED BY <1>1, <1>2 DEF EndMove, Pending, callVars, historyVars

\* Starting a function moves the oldest pending one to the end of done.
LEMMA StartTaskPending ==
    ASSUME IInv, StartTask
    PROVE  /\ Pending \in Seq(Tasks) /\ Pending # <<>>
           /\ Head(batch) \in Tasks
           /\ Head(Pending) = Head(batch)
           /\ Pending' = Tail(Pending)
           /\ (done \o Pending)' = done \o Pending
<1>1. /\ batch \in Seq(Tasks) /\ functions \in Seq(Tasks) /\ done \in Seq(Tasks)
      /\ batch # <<>> /\ stage = "iterating" /\ stage' = "running"
      /\ functions' = functions /\ batch' = Tail(batch)
      /\ done' = Append(done, Head(batch))
  BY DEF IInv, TypeOK, StartTask, callVars
<1>2. Pending = batch \o functions /\ Pending' = Tail(batch) \o functions
  BY <1>1 DEF Pending
<1>3. /\ Head(batch) \in Tasks /\ Tail(batch) \in Seq(Tasks)
  BY <1>1, HeadTailProperties
<1>4. Append(done, Head(batch)) \o (Tail(batch) \o functions)
         = done \o (batch \o functions)
  BY <1>1, MoveHead
<1>5. Append(<<>>, Head(batch)) \o (Tail(batch) \o functions)
         = <<>> \o (batch \o functions)
  BY <1>1, EmptySeq, MoveHead
<1>6. Append(<<>>, Head(batch)) = <<Head(batch)>>
  BY <1>3, EmptySeq
<1>7. batch \o functions \in Seq(Tasks) /\ Tail(batch) \o functions \in Seq(Tasks)
  BY <1>1, <1>3, ConcatProperties
<1>8. batch \o functions = <<Head(batch)>> \o (Tail(batch) \o functions)
  BY <1>5, <1>6, <1>7, ConcatEmptySeq
<1>9. /\ <<Head(batch)>> \o (Tail(batch) \o functions) # <<>>
       /\ Head(<<Head(batch)>> \o (Tail(batch) \o functions)) = Head(batch)
       /\ Tail(<<Head(batch)>> \o (Tail(batch) \o functions)) = Tail(batch) \o functions
  BY <1>3, <1>7, HeadTailCons
<1> QED BY <1>1, <1>2, <1>3, <1>4, <1>7, <1>8, <1>9

LEMMA LoopStepInv ==
    ASSUME IInv, LoopStep \/ Crash
    PROVE  IInv'
<1> USE DEF IInv
<1> DEFINE Pure == StartLoop \/ CheckFlag \/ StepIdle \/ FinishTask \/ Rearm \/ Crash
<1>1. CASE Pure
  <2> USE <1>1 DEF StartLoop, CheckFlag, StepIdle, FinishTask, Rearm, Crash,
                   callVars, historyVars
  <2>1. TypeOK'
    BY DEF TypeOK, Stages
  <2>2. LockInv' /\ LoopInv' /\ MoveInv' /\ BatchInv' /\ FlagInv'
    BY DEF LockInv, LoopInv, MoveInv, BatchInv, FlagInv
  <2>3. stage # "moving" /\ stage' # "moving" /\ batch' = batch /\ functions' = functions
    OBVIOUS
  <2>4. NothingLost'
    BY <2>3 DEF NothingLost, Pending
  <2> QED BY <2>1, <2>2, <2>4
<1>2. CASE BeginMove
  <2> USE <1>2 DEF BeginMove, callVars
  <2>1. TypeOK'
    BY DEF TypeOK, Stages
  <2>2. LockInv' /\ LoopInv' /\ BatchInv' /\ FlagInv'
    BY DEF LockInv, LoopInv, BatchInv, FlagInv
  <2>3. MoveInv'
    <3>1. Loop \notin inside
      BY DEF LockInv, LoopInv, Actors
    <3> QED BY <3>1 DEF MoveInv, TypeOK, Actors
  <2>4. NothingLost'
    BY BeginMovePending DEF NothingLost
  <2> QED BY <2>1, <2>2, <2>3, <2>4
<1>3. CASE EndMove
  <2> USE <1>3 DEF EndMove, callVars, historyVars
  <2>1. TypeOK'
    BY EmptySeq DEF TypeOK, Stages
  <2>2. LockInv'
    BY NobodyAssumption DEF LockInv, MoveInv
  <2>3. LoopInv' /\ MoveInv' /\ BatchInv' /\ FlagInv'
    BY DEF LoopInv, MoveInv, BatchInv, FlagInv
  <2>4. NothingLost'
    BY EndMovePending DEF NothingLost
  <2> QED BY <2>1, <2>2, <2>3, <2>4
<1>4. CASE StartTask
  <2> USE <1>4 DEF StartTask, callVars
  <2>1. Append(done, Head(batch)) \in Seq(Tasks) /\ Tail(batch) \in Seq(Tasks)
    BY HeadTailProperties, AppendProperties DEF TypeOK
  <2>2. TypeOK'
    BY <2>1 DEF TypeOK, Stages
  <2>3. LockInv' /\ LoopInv' /\ MoveInv' /\ BatchInv' /\ FlagInv'
    BY DEF LockInv, LoopInv, MoveInv, BatchInv, FlagInv
  <2>4. NothingLost'
    BY StartTaskPending DEF NothingLost
  <2> QED BY <2>2, <2>3, <2>4
<1> QED BY <1>1, <1>2, <1>3, <1>4 DEF LoopStep

LEMMA DestroyInv ==
    ASSUME IInv, Destroy
    PROVE  IInv'
<1> USE DEF IInv, Destroy, callVars, historyVars
<1>1. TypeOK' /\ LockInv' /\ LoopInv' /\ MoveInv' /\ BatchInv' /\ FlagInv'
  BY DEF TypeOK, LockInv, LoopInv, MoveInv, BatchInv, FlagInv
<1>2. NothingLost'
  BY DEF NothingLost, Pending
<1> QED BY <1>1, <1>2

LEMMA StutterInv ==
    ASSUME IInv, UNCHANGED vars
    PROVE  IInv'
BY DEF vars, IInv, TypeOK, LockInv, LoopInv, MoveInv, BatchInv, FlagInv,
       NothingLost, Pending

LEMMA StepInv == IInv /\ [Next]_vars => IInv'
<1> SUFFICES ASSUME IInv, [Next]_vars PROVE IInv'
  OBVIOUS
<1>1. CASE stage # "crashed" /\ \E a \in Actors, t \in Tasks : Call(a, t)
  BY <1>1, CallInv
<1>2. CASE stage # "crashed" /\ \E a \in Actors : Lock(a) \/ Emplace(a)
  BY <1>2, LockStepInv, EmplaceInv
<1>3. CASE LoopStep \/ Crash
  BY <1>3, LoopStepInv
<1>4. CASE Destroy
  BY <1>4, DestroyInv
<1>5. CASE Finished \/ UNCHANGED vars
  BY <1>5, StutterInv DEF Finished
<1> QED BY <1>1, <1>2, <1>3, <1>4, <1>5 DEF Next

LEMMA Invariance == Spec => []IInv
BY InitInv, StepInv, PTL DEF Spec

-----------------------------------------------------------------------------
(* Theorems.                                                               *)

\* The variables always have their types.
THEOREM TypeCorrect == Spec => []TypeOK
<1>1. IInv => TypeOK
  BY DEF IInv
<1> QED BY <1>1, Invariance, PTL

\* As long as no append has overlapped a move, nothing run() accepted is lost,
\* repeated or overtaken.
THEOREM NothingLostAlways == Spec => []NothingLost
<1>1. IInv => NothingLost
  BY DEF IInv
<1> QED BY <1>1, Invariance, PTL

\* The loop never leaves with a batch half run.
THEOREM NoHalfBatchAlways == Spec => []NoHalfBatch
<1>1. IInv => NoHalfBatch
  BY DEF IInv, BatchInv, NoHalfBatch
<1> QED BY <1>1, Invariance, PTL

-----------------------------------------------------------------------------
(* Refinement: every step of the loop is a step of the abstract queue, or  *)
(* leaves it as it is.                                                     *)

LEMMA RefineInit == Init => Queue!Init
<1> SUFFICES ASSUME Init PROVE Queue!Init
  OBVIOUS
<1>1. <<>> \o <<>> = <<>>
  BY EmptySeq, ConcatEmptySeq
<1> QED BY <1>1 DEF Init, Queue!Init, Pending, absPending, absDone, absMode

LEMMA RefineStep ==
    ASSUME IInv, [Next]_vars
    PROVE  [Queue!Next]_(Queue!vars)
<1> USE DEF IInv
<1> DEFINE Same == UNCHANGED <<absPending, absDone, absMode>>
<1>0. SUFFICES Queue!Next \/ Same
  BY DEF Queue!vars
<1>1. ASSUME raced, raced' PROVE Same
  BY <1>1 DEF absPending, absDone, absMode
<1>2. ASSUME ~raced, raced', stage # "exited" PROVE Queue!Void
  BY <1>2 DEF Queue!Void, absPending, absDone, absMode
<1>3. ASSUME Pending' = Pending, done' = done, raced' = raced,
             stage' = stage \/ "exited" \notin {stage, stage'}
      PROVE  Same
  BY <1>3 DEF absPending, absDone, absMode
<1>4. CASE \E a \in Actors, t \in Tasks : Call(a, t)
  <2>1. Pending' = Pending /\ done' = done /\ raced' = raced /\ stage' = stage
    BY <1>4 DEF Call, callVars, historyVars, Pending
  <2> QED BY <2>1, <1>3
<1>5. CASE \E a \in Actors : Lock(a)
  <2>1. /\ Pending' = Pending /\ done' = done /\ stage' = stage
        /\ raced' = (raced \/ stage = "moving")
    BY <1>5 DEF Lock, Pending
  <2>2. raced \in BOOLEAN
    BY DEF TypeOK
  <2>3. CASE raced \/ stage # "moving"
    BY <2>1, <2>2, <2>3, <1>1, <1>3
  <2>4. CASE ~raced /\ stage = "moving"
    BY <2>1, <2>4, <1>2 DEF Queue!Next
  <2> QED BY <2>3, <2>4
<1>6. CASE stage # "crashed" /\ \E a \in Actors : Emplace(a)
  <2> PICK a \in Actors : Emplace(a)
    BY <1>6
  <2>1. raced' = raced /\ done' = done /\ stage' = stage
    BY DEF Emplace
  <2>2. CASE raced
    BY <2>1, <2>2, <1>1
  <2>3. CASE ~raced
    <3>1. arg[a] \in Tasks /\ Pending' = Append(Pending, arg[a])
      BY <2>3, EmplaceEffect
    <3>2. stage # "exited"
      <4>1. arg[a] # NoTask
        BY <3>1, NoTaskAssumption
      <4> QED BY <1>6, <4>1 DEF FlagInv, LoopInv, Actors
    <3>3. Queue!Post(arg[a])
      BY <2>1, <2>3, <3>1, <3>2 DEF Queue!Post, absPending, absDone, absMode
    <3> QED BY <3>1, <3>3 DEF Queue!Next
  <2> QED BY <2>2, <2>3
<1>7. CASE StartLoop \/ StepIdle \/ FinishTask \/ Rearm \/ Crash
  <2>1. /\ Pending' = Pending /\ done' = done /\ raced' = raced
        /\ "exited" \notin {stage, stage'}
    BY <1>7 DEF StartLoop, StepIdle, FinishTask, Rearm, Crash, Pending,
                callVars, historyVars
  <2> QED BY <2>1, <1>3
<1>8. CASE CheckFlag
  <2>1. /\ Pending' = Pending /\ done' = done /\ raced' = raced
        /\ stage = "checking" /\ stage' \in {"exited", "selecting"}
    BY <1>8 DEF CheckFlag, Pending, callVars, historyVars
  <2>2. CASE raced
    BY <2>1, <2>2, <1>1
  <2>3. CASE ~raced /\ stage' = "exited"
    <3>1. Queue!Close
      BY <2>1, <2>3 DEF Queue!Close, absPending, absDone, absMode
    <3> QED BY <3>1 DEF Queue!Next
  <2>4. CASE ~raced /\ stage' = "selecting"
    BY <2>1, <2>4, <1>3
  <2> QED BY <2>1, <2>2, <2>3, <2>4
<1>9. CASE BeginMove
  <2>1. /\ Pending' = Pending /\ done' = done
        /\ stage = "selecting" /\ stage' = "moving"
        /\ raced' = (raced \/ inside \cap Threads # {})
    BY <1>9, BeginMovePending DEF BeginMove
  <2>2. raced \in BOOLEAN
    BY DEF TypeOK
  <2>3. CASE raced
    BY <2>1, <2>3, <1>1
  <2>4. CASE ~raced /\ raced'
    BY <2>1, <2>4, <1>2 DEF Queue!Next
  <2>5. CASE ~raced /\ ~raced'
    BY <2>1, <2>2, <2>5, <1>3
  <2> QED BY <2>3, <2>4, <2>5
<1>10. CASE EndMove
  <2>1. done' = done /\ raced' = raced /\ "exited" \notin {stage, stage'}
    BY <1>10 DEF EndMove, historyVars
  <2>2. CASE raced
    BY <2>1, <2>2, <1>1
  <2>3. CASE ~raced
    BY <2>1, <2>3, <1>3, <1>10, EndMovePending
  <2> QED BY <2>2, <2>3
<1>11. CASE StartTask
  <2>1. raced' = raced /\ stage = "iterating" /\ stage' = "running"
        /\ done' = Append(done, Head(batch))
    BY <1>11 DEF StartTask
  <2>2. CASE raced
    BY <2>1, <2>2, <1>1
  <2>3. CASE ~raced
    <3>1. Queue!Execute
      BY <2>1, <2>3, <1>11, StartTaskPending DEF Queue!Execute, absPending, absDone, absMode
    <3> QED BY <3>1 DEF Queue!Next
  <2> QED BY <2>2, <2>3
<1>12. CASE Destroy
  <2>1. Pending' = Pending /\ done' = done /\ raced' = raced /\ stage' = stage
    BY <1>12 DEF Destroy, callVars, historyVars, Pending
  <2> QED BY <2>1, <1>3
<1>13. CASE Finished \/ UNCHANGED vars
  <2>1. Pending' = Pending /\ done' = done /\ raced' = raced /\ stage' = stage
    BY <1>13 DEF Finished, vars, Pending
  <2> QED BY <2>1, <1>3
<1> QED BY <1>4, <1>5, <1>6, <1>7, <1>8, <1>9, <1>10, <1>11, <1>12, <1>13
        DEF Next, LoopStep

\* The loop implements the abstract queue, whatever the number of threads.
THEOREM Refinement == Spec => ImplementsTaskQueue
<1>1. IInv /\ [Next]_vars => [Queue!Next]_(Queue!vars)
  BY RefineStep
<1> QED BY <1>1, RefineInit, Invariance, PTL
        DEF Spec, ImplementsTaskQueue, Queue!Spec
=============================================================================
