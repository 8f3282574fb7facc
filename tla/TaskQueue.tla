------------------------------ MODULE TaskQueue ------------------------------
(***************************************************************************)
(* What envir_loop promises the code that calls run(): one executor, which *)
(* runs the posted functions one at a time in the order in which run()     *)
(* accepted them, each at most once, until the loop is destroyed.          *)
(* What is still pending then is dropped.  After an unsynchronised access  *)
(* to the queue the promise is void: C++ gives such a run no meaning.      *)
(***************************************************************************)
EXTENDS Sequences

CONSTANT Tasks     \* the functions handed to run(), one per call

VARIABLES
    pending,       \* accepted and not yet run, oldest first
    done,          \* run, in the order in which they were started
    mode           \* "open", "closed" (destroyed) or "undefined"

vars == <<pending, done, mode>>

Init ==
    /\ pending = <<>>
    /\ done = <<>>
    /\ mode = "open"

Post(t) ==
    /\ mode = "open"
    /\ pending' = Append(pending, t)
    /\ UNCHANGED <<done, mode>>

Execute ==
    /\ mode = "open"
    /\ pending # <<>>
    /\ done' = Append(done, Head(pending))
    /\ pending' = Tail(pending)
    /\ UNCHANGED mode

Close ==
    /\ mode = "open"
    /\ mode' = "closed"
    /\ UNCHANGED <<pending, done>>

\* The promise is void: nothing is said of the queue from here on.
Void ==
    /\ mode = "open"
    /\ mode' = "undefined"
    /\ pending' = <<>>
    /\ done' = <<>>

Next ==
    \/ \E t \in Tasks : Post(t)
    \/ Execute
    \/ Close
    \/ Void

Spec == Init /\ [][Next]_vars
=============================================================================
