-------------------------- MODULE ResponseHandlers --------------------------
(***************************************************************************)
(* What RTSPClient promises of the handlers of its requests: a handler is  *)
(* called after its request was issued, once, with the answer the server   *)
(* gave to that very request or with an error.  Some requests are lost:    *)
(* none of their answers reaches them, and their handlers may be called    *)
(* with the answer to another request, or not at all.  A server may be     *)
(* such that all requests to it are lost.  When the client is deleted, the *)
(* handlers of those that wait are not called any more.                    *)
(***************************************************************************)
CONSTANTS
    Calls,         \* the requests
    Error          \* the result of a request that failed

VARIABLES
    waiting,       \* the requests issued and not answered
    lost,          \* the requests that have no answer of their own to come
    result         \* what the handlers were called with: the request that was
                   \* answered, or Error

vars == <<waiting, lost, result>>

TypeOK ==
    /\ waiting \subseteq Calls /\ lost \subseteq Calls
    /\ DOMAIN result \subseteq Calls \ waiting
    /\ \A c \in DOMAIN result :
          result[c] \in {c, Error} \/ (c \in lost /\ result[c] \in Calls)

Init == waiting = {} /\ lost \in {{}, Calls} /\ result = [c \in {} |-> Error]

Issue(c) ==
    /\ c \notin waiting \cup DOMAIN result
    /\ waiting' = waiting \cup {c}
    /\ UNCHANGED <<lost, result>>

\* The requests in L are lost, and the handlers of those in S are called.
Settle(S, L) ==
    /\ S \subseteq waiting /\ L \subseteq waiting
    /\ waiting' = waiting \ S
    /\ lost' = lost \cup L
    /\ DOMAIN result' = DOMAIN result \cup S
    /\ \A c \in DOMAIN result : result'[c] = result[c]
    /\ \A c \in S : result'[c] \in {c, Error} \/ (c \in lost' /\ result'[c] \in Calls)

\* The client is deleted.
Delete == waiting' = {} /\ lost' = lost \cup waiting /\ UNCHANGED result

\* A request that is issued and fails at once.
Refuse(c) ==
    /\ c \notin waiting \cup DOMAIN result
    /\ UNCHANGED <<waiting, lost>>
    /\ DOMAIN result' = DOMAIN result \cup {c}
    /\ \A d \in DOMAIN result : result'[d] = result[d]
    /\ result'[c] = Error

Next ==
    \/ \E c \in Calls : Issue(c) \/ Refuse(c)
    \/ \E S, L \in SUBSET Calls : Settle(S, L)
    \/ Delete

Spec == Init /\ [][Next]_vars
=============================================================================
