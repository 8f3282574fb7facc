---------------------------- MODULE EventTriggers ----------------------------
(***************************************************************************)
(* live555's event triggers, by which tlab's frame source asks the event   *)
(* loop to call it back.  BasicTaskScheduler0 keeps a table of             *)
(* MAX_NUM_EVENT_TRIGGERS handlers and one bit per trigger that awaits     *)
(* handling; one awaiting trigger is handled per step of the event loop,   *)
(* round robin from the last one used.                                     *)
(***************************************************************************)
EXTENDS Integers, FiniteSets

CONSTANTS
    NumTriggers,   \* MAX_NUM_EVENT_TRIGGERS
    Clients,       \* the objects (addresses) that own a trigger
    NoClient

ASSUME NumTriggersAssumption == NumTriggers \in Nat \ {0}
ASSUME NoClientAssumption == NoClient \notin Clients

Ids == 0 .. NumTriggers - 1
NoId == NumTriggers        \* createEventTrigger's 0: no bit of the mask

VARIABLES
    live,          \* the clients that exist
    trig,          \* trig[c]: the id c got from createEventTrigger
    handlers,      \* the ids whose entry of fTriggeredEventHandlers is set
    clientData,    \* fTriggeredEventClientDatas
    pending,       \* fTriggersAwaitingHandling
    last,          \* fLastUsedTriggerNum
    passed         \* history: triggers handled while this one was waiting

triggerVars == <<live, trig, handlers, clientData, pending, last, passed>>

TriggerTypeOK ==
    /\ live \in SUBSET Clients
    /\ trig \in [Clients -> Ids \cup {NoId}]
    /\ handlers \in SUBSET Ids
    /\ clientData \in [Ids -> Clients \cup {NoClient}]
    /\ pending \in SUBSET Ids
    /\ last \in Ids
    /\ passed \in [Ids -> Nat]

TriggerInit ==
    /\ live = {}
    /\ trig = [c \in Clients |-> NoId]
    /\ handlers = {}
    /\ clientData = [i \in Ids |-> NoClient]
    /\ pending = {}
    /\ last = NumTriggers - 1
    /\ passed = [i \in Ids |-> 0]

\* How far the scan "i = (i+1) % MAX_NUM_EVENT_TRIGGERS" goes from i to j; it
\* looks at i itself last.
Distance(i, j) == IF j > i THEN j - i ELSE j - i + NumTriggers

\* The first member of S the scan meets from the last used trigger on.
IsFirst(i, S) == i \in S /\ \A j \in S : Distance(last, i) <= Distance(last, j)

\* createEventTrigger, called by the constructor of c.
CreateTrigger(c) ==
    /\ c \notin live
    /\ live' = live \cup {c}
    /\ \/ \E i \in Ids :
            /\ IsFirst(i, Ids \ handlers)
            /\ trig' = [trig EXCEPT ![c] = i]
            /\ handlers' = handlers \cup {i}
            /\ clientData' = [clientData EXCEPT ![i] = NoClient]
            /\ last' = i
       \/ /\ handlers = Ids
          /\ trig' = [trig EXCEPT ![c] = NoId]
          /\ UNCHANGED <<handlers, clientData, last>>
    /\ passed' = [i \in Ids |-> 0]
    /\ UNCHANGED pending

\* Mutant: the destructor leaves the awaiting bit.
DeleteTriggerKeepsBit(c) ==
    /\ c \in live
    /\ live' = live \ {c}
    /\ handlers' = handlers \ {trig[c]}
    /\ clientData' = [i \in Ids |-> IF i = trig[c] THEN NoClient ELSE clientData[i]]
    /\ trig' = [trig EXCEPT ![c] = NoId]
    /\ UNCHANGED <<pending, last, passed>>

\* deleteEventTrigger, called by the destructor of c, which then forgets the id.
\* Without an id the call finds no bit to clear.
DeleteTrigger(c) ==
    /\ c \in live
    /\ live' = live \ {c}
    /\ pending' = pending \ {trig[c]}
    /\ handlers' = handlers \ {trig[c]}
    /\ clientData' = [i \in Ids |-> IF i = trig[c] THEN NoClient ELSE clientData[i]]
    /\ trig' = [trig EXCEPT ![c] = NoId]
    /\ UNCHANGED <<last, passed>>

\* triggerEvent(id, c).  Without an id it does nothing.
TriggerEvent(c) ==
    /\ c \in live
    /\ clientData' = [i \in Ids |-> IF i = trig[c] THEN c ELSE clientData[i]]
    /\ pending' = (pending \cup {trig[c]}) \cap Ids
    /\ passed' = [i \in Ids |-> IF i = trig[c] /\ i \notin pending THEN 0 ELSE passed[i]]
    /\ UNCHANGED <<live, trig, handlers, last>>

\* The part of SingleStep that picks an awaiting trigger; its handler is then
\* called with clientData[i].
HandleTrigger(i) ==
    /\ IsFirst(i, pending)
    /\ pending' = pending \ {i}
    /\ last' = i
    /\ passed' = [j \in Ids |-> IF j \in pending THEN passed[j] + 1 ELSE passed[j]]
    /\ UNCHANGED <<live, trig, handlers, clientData>>

TriggerNext ==
    \/ \E c \in Clients : CreateTrigger(c) \/ DeleteTrigger(c) \/ TriggerEvent(c)
    \/ \E i \in Ids : HandleTrigger(i)

TriggerSpec == TriggerInit /\ [][TriggerNext]_triggerVars

-----------------------------------------------------------------------------
\* An awaiting trigger belongs to a client that exists, and its handler will be
\* called with that client: never with one that was deleted, nor with another
\* that got the same id later.
HandlerFindsOwner ==
    \A i \in pending : /\ i \in handlers
                       /\ clientData[i] \in live
                       /\ trig[clientData[i]] = i

\* The round robin is fair: as long as no trigger is created (which moves the
\* scan), fewer than MAX_NUM_EVENT_TRIGGERS others are handled before one that
\* waits, however often the others are triggered again.
BoundedWait == \A i \in pending : passed[i] < NumTriggers
=============================================================================
