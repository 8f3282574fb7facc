----------------------------- MODULE TsChainProofs -----------------------------
(***************************************************************************)
(* What holds of the event triggers, of the frame source that uses one,    *)
(* and of the chain of source, multiplexor and sink that writes transport  *)
(* stream files.  A trigger's handler finds its owner, no wakeup is lost,  *)
(* frames come out in order, and the reader is told of truncation about    *)
(* the frame it got; callbacks nest no deeper than a batch of packets      *)
(* takes, files end in time and between PES packets, and every byte of a   *)
(* frame is once and in order in the files or on its way there.            *)
(***************************************************************************)
EXTENDS H264Source, TsPipeline, SequenceFacts

-----------------------------------------------------------------------------
(* The event triggers, for any number of triggers and clients.             *)

\* Whoever exists and has an id owns it alone; the dead have none.
OwnerInv ==
    /\ \A c \in live : trig[c] # NoId => trig[c] \in handlers
    /\ \A c \in Clients \ live : trig[c] = NoId
    /\ \A c, d \in live : trig[c] = trig[d] /\ trig[c] # NoId => c = d

\* A waiting trigger has been passed at most as often as the scan has come
\* nearer to it.
WaitInv == \A i \in pending : passed[i] + Distance(last, i) <= NumTriggers

TriggerInv == TriggerTypeOK /\ OwnerInv /\ HandlerFindsOwner /\ WaitInv

-----------------------------------------------------------------------------
\* The scan's distance is between 1 and the number of triggers.
LEMMA DistanceRange ==
    ASSUME NEW i \in Ids, NEW j \in Ids
    PROVE  Distance(i, j) \in 1 .. NumTriggers
BY NumTriggersAssumption DEF Distance, Ids

\* Between i and k the scan meets j first, so the rest of the way is shorter.
LEMMA DistanceSplit ==
    ASSUME NEW i \in Ids, NEW j \in Ids, NEW k \in Ids,
           Distance(i, j) <= Distance(i, k), j # k
    PROVE  Distance(j, k) + 1 <= Distance(i, k)
BY NumTriggersAssumption DEF Distance, Ids

LEMMA TriggerInitInv == TriggerInit => TriggerInv
BY NumTriggersAssumption
   DEF TriggerInit, TriggerInv, TriggerTypeOK, OwnerInv, HandlerFindsOwner,
       WaitInv, Ids, NoId

LEMMA CreateInv ==
    ASSUME TriggerInv, NEW c \in Clients, CreateTrigger(c)
    PROVE  TriggerInv'
<1> USE DEF TriggerInv, CreateTrigger
<1>1. TriggerTypeOK'
  BY DEF TriggerTypeOK
<1>2. WaitInv'
  <2> SUFFICES ASSUME NEW j \in pending' PROVE (passed[j] + Distance(last, j) <= NumTriggers)'
    BY DEF WaitInv
  <2>1. j \in Ids /\ last' \in Ids /\ passed'[j] = 0
    BY <1>1 DEF TriggerTypeOK
  <2>2. Distance(last', j) \in 1 .. NumTriggers
    BY <2>1, DistanceRange
  <2>3. Distance(last, j)' = Distance(last', j)
    BY DEF Distance
  <2> QED BY <2>1, <2>2, <2>3, NumTriggersAssumption
<1>3. CASE \E i \in Ids : /\ IsFirst(i, Ids \ handlers)
                          /\ trig' = [trig EXCEPT ![c] = i]
                          /\ handlers' = handlers \cup {i}
                          /\ clientData' = [clientData EXCEPT ![i] = NoClient]
  <2> PICK i \in Ids : /\ i \notin handlers
                       /\ trig' = [trig EXCEPT ![c] = i]
                       /\ handlers' = handlers \cup {i}
                       /\ clientData' = [clientData EXCEPT ![i] = NoClient]
    BY <1>3 DEF IsFirst
  <2>1. \A d \in live : trig[d] # i
    BY NumTriggersAssumption DEF OwnerInv, Ids, NoId
  <2>2. OwnerInv'
    BY <2>1 DEF OwnerInv, TriggerTypeOK
  <2>3. HandlerFindsOwner'
    BY DEF HandlerFindsOwner, TriggerTypeOK
  <2> QED BY <1>1, <1>2, <2>2, <2>3
<1>4. CASE /\ trig' = [trig EXCEPT ![c] = NoId]
           /\ UNCHANGED <<handlers, clientData, last>>
  <2>1. OwnerInv'
    BY <1>4 DEF OwnerInv, TriggerTypeOK
  <2>2. HandlerFindsOwner'
    BY <1>4 DEF HandlerFindsOwner, TriggerTypeOK
  <2> QED BY <1>1, <1>2, <2>1, <2>2
<1> QED BY <1>3, <1>4

LEMMA DeleteInv ==
    ASSUME TriggerInv, NEW c \in Clients, DeleteTrigger(c)
    PROVE  TriggerInv'
<1> USE DEF TriggerInv, DeleteTrigger
<1>1. TriggerTypeOK'
  BY DEF TriggerTypeOK
<1>2. OwnerInv'
  BY DEF OwnerInv, TriggerTypeOK
<1>3. HandlerFindsOwner'
  BY DEF HandlerFindsOwner, OwnerInv, TriggerTypeOK
<1>4. WaitInv'
  BY DEF WaitInv, Distance
<1> QED BY <1>1, <1>2, <1>3, <1>4

LEMMA TriggerEventInv ==
    ASSUME TriggerInv, NEW c \in Clients, TriggerEvent(c)
    PROVE  TriggerInv'
<1> USE DEF TriggerInv, TriggerEvent
<1>1. TriggerTypeOK'
  BY DEF TriggerTypeOK
<1>2. OwnerInv'
  BY DEF OwnerInv
<1>3. HandlerFindsOwner'
  BY NumTriggersAssumption DEF HandlerFindsOwner, OwnerInv, TriggerTypeOK, Ids, NoId
<1>4. WaitInv'
  <2> SUFFICES ASSUME NEW i \in pending'
               PROVE  passed'[i] + Distance(last', i) <= NumTriggers
    BY DEF WaitInv, Distance
  <2>1. i \in Ids /\ last' = last /\ last \in Ids
    BY DEF TriggerTypeOK
  <2>2. Distance(last, i) \in 1 .. NumTriggers
    BY <2>1, DistanceRange
  <2>3. CASE i \in pending
    BY <2>1, <2>3 DEF WaitInv
  <2>4. CASE i \notin pending
    BY <2>1, <2>2, <2>4, NumTriggersAssumption
  <2> QED BY <2>3, <2>4
<1> QED BY <1>1, <1>2, <1>3, <1>4

LEMMA HandleInv ==
    ASSUME TriggerInv, NEW i \in Ids, HandleTrigger(i)
    PROVE  TriggerInv'
<1> USE DEF TriggerInv, HandleTrigger
<1>1. TriggerTypeOK'
  BY DEF TriggerTypeOK
<1>2. OwnerInv' /\ HandlerFindsOwner'
  BY DEF OwnerInv, HandlerFindsOwner
<1>3. WaitInv'
  <2> SUFFICES ASSUME NEW j \in pending'
               PROVE  passed'[j] + Distance(last', j) <= NumTriggers
    BY DEF WaitInv, Distance
  <2>1. j \in Ids /\ last \in Ids /\ j # i /\ j \in pending
    BY DEF TriggerTypeOK
  <2>2. Distance(last, i) <= Distance(last, j)
    BY <2>1 DEF IsFirst
  <2>3. Distance(i, j) + 1 <= Distance(last, j)
    BY <2>1, <2>2, DistanceSplit
  <2>4. passed'[j] = passed[j] + 1 /\ passed[j] \in Nat
    BY <2>1 DEF TriggerTypeOK
  <2>5. passed[j] + Distance(last, j) <= NumTriggers
    BY <2>1 DEF WaitInv
  <2>6. Distance(i, j) \in Int /\ Distance(last, j) \in Int
    BY <2>1, DistanceRange
  <2>7. last' = i
    OBVIOUS
  <2> QED BY <2>3, <2>4, <2>5, <2>6, <2>7, NumTriggersAssumption
<1> QED BY <1>1, <1>2, <1>3

LEMMA TriggerStepInv == TriggerInv /\ [TriggerNext]_triggerVars => TriggerInv'
<1> SUFFICES ASSUME TriggerInv, [TriggerNext]_triggerVars PROVE TriggerInv'
  OBVIOUS
<1>1. CASE TriggerNext
  BY <1>1, CreateInv, DeleteInv, TriggerEventInv, HandleInv DEF TriggerNext
<1>2. CASE UNCHANGED triggerVars
  BY <1>2 DEF triggerVars, TriggerInv, TriggerTypeOK, OwnerInv,
              HandlerFindsOwner, WaitInv, Distance
<1> QED BY <1>1, <1>2

LEMMA TriggerInvariance == TriggerSpec => []TriggerInv
BY TriggerInitInv, TriggerStepInv, PTL DEF TriggerSpec

\* The invariant gives the bound on the wait.
LEMMA WaitBounded == TriggerInv => BoundedWait
<1> SUFFICES ASSUME TriggerInv, NEW i \in pending PROVE passed[i] < NumTriggers
  BY DEF BoundedWait
<1>1. i \in Ids /\ last \in Ids /\ passed[i] \in Nat
  BY DEF TriggerInv, TriggerTypeOK
<1>2. Distance(last, i) \in 1 .. NumTriggers
  BY <1>1, DistanceRange
<1>3. passed[i] + Distance(last, i) <= NumTriggers
  BY DEF TriggerInv, WaitInv
<1> QED BY <1>1, <1>2, <1>3, NumTriggersAssumption

-----------------------------------------------------------------------------
\* An awaiting trigger always finds the client that owns it.
THEOREM HandlerFindsOwnerAlways == TriggerSpec => []HandlerFindsOwner
<1>1. TriggerInv => HandlerFindsOwner
  BY DEF TriggerInv
<1> QED BY <1>1, TriggerInvariance, PTL

\* No trigger that waits is passed MAX_NUM_EVENT_TRIGGERS times.
THEOREM BoundedWaitAlways == TriggerSpec => []BoundedWait
BY WaitBounded, TriggerInvariance, PTL

-----------------------------------------------------------------------------
(* The source, for any number of sources, triggers and frames.             *)

\* A reader that waits has a truncation count that getNextFrame has reset.
ResetInv == \A s \in Clients : awaiting[s] => ~truncated[s]

\* A callback is about a source that exists and has delivered something.
CallbackInv ==
    inCallback # NoClient => inCallback \in live /\ delivered[inCallback] # <<>>

SInv ==
    /\ TypeOK
    /\ TriggerInv
    /\ NoLostWakeup
    /\ InOrder
    /\ TruncationReported
    /\ ResetInv
    /\ CallbackInv

-----------------------------------------------------------------------------
LEMMA SourceInit == Init => SInv
<1> SUFFICES ASSUME Init PROVE SInv
  OBVIOUS
<1>1. TriggerInv
  BY TriggerInitInv DEF Init
<1>2. TypeOK
  BY <1>1, EmptySeq DEF Init, TypeOK, TriggerInv
<1>3. NoLostWakeup /\ InOrder /\ TruncationReported /\ ResetInv /\ CallbackInv
  BY DEF Init, TriggerInit, NoLostWakeup, InOrder, TruncationReported, ResetInv, CallbackInv
<1> QED BY <1>1, <1>2, <1>3 DEF SInv

\* A source that has just been created or destroyed has an empty history.
LEMMA FreshInv ==
    ASSUME SInv, NEW s \in Clients, inCallback = NoClient, Fresh(s),
           CreateTrigger(s) \/ DeleteTrigger(s)
    PROVE  SInv'
<1> USE DEF SInv, Fresh
<1>1. TriggerInv'
  BY CreateInv, DeleteInv
<1>2. TypeOK'
  BY <1>1, EmptySeq DEF TypeOK, TriggerInv
<1>3. NoLostWakeup'
  <2> SUFFICES ASSUME NEW d \in live', awaiting'[d], trig'[d] # NoId, buffers'[d] # <<>>
               PROVE  trig'[d] \in pending' /\ clientData'[trig'[d]] = d
    BY DEF NoLostWakeup
  <2>1. d # s /\ d \in Clients
    BY <1>1 DEF TypeOK, TriggerInv, TriggerTypeOK
  <2>2. d \in live /\ trig'[d] = trig[d] /\ awaiting[d] /\ buffers[d] # <<>>
    BY <2>1 DEF CreateTrigger, DeleteTrigger, TypeOK, TriggerTypeOK
  <2>3. trig[d] \in pending /\ clientData[trig[d]] = d /\ trig[d] \in handlers /\ trig[d] \in Ids
    BY <2>2 DEF NoLostWakeup, TriggerInv, OwnerInv, TypeOK, TriggerTypeOK
  <2>4. CASE CreateTrigger(s)
    <3>1. clientData'[trig[d]] = clientData[trig[d]] /\ pending' = pending
      BY <2>3, <2>4 DEF CreateTrigger, IsFirst, TypeOK, TriggerTypeOK
    <3> QED BY <2>2, <2>3, <3>1
  <2>5. CASE DeleteTrigger(s)
    <3>1. trig[d] # trig[s]
      BY <2>1, <2>2, <2>5 DEF DeleteTrigger, TriggerInv, OwnerInv
    <3> QED BY <2>2, <2>3, <2>5, <3>1 DEF DeleteTrigger
  <2> QED BY <2>4, <2>5
<1>4. InOrder'
  <2>1. \A d \in live' : d = s \/ d \in live
    BY DEF CreateTrigger, DeleteTrigger
  <2>2. <<>> \o <<>> = <<>>
    BY EmptySeq, ConcatEmptySeq
  <2> QED BY <2>1, <2>2 DEF InOrder, TypeOK, TriggerTypeOK
<1>5. TruncationReported' /\ ResetInv' /\ CallbackInv'
  BY DEF TruncationReported, ResetInv, CallbackInv, TypeOK
<1> QED BY <1>1, <1>2, <1>3, <1>4, <1>5

LEMMA AppendInv ==
    ASSUME SInv, NEW s \in Clients, NEW f \in Frames, AppendFrame(s, f)
    PROVE  SInv'
<1> USE DEF SInv, AppendFrame
<1>1. TriggerInv'
  BY TriggerEventInv
<1>2. TypeOK'
  BY <1>1, AppendProperties DEF TypeOK, TriggerInv
<1>3. NoLostWakeup'
  <2> SUFFICES ASSUME NEW d \in live', awaiting'[d], trig'[d] # NoId, buffers'[d] # <<>>
               PROVE  trig'[d] \in pending' /\ clientData'[trig'[d]] = d
    BY DEF NoLostWakeup
  <2>1. d \in live /\ d \in Clients /\ trig'[d] = trig[d] /\ trig[d] \in Ids /\ s \in live
    BY DEF TriggerEvent, TypeOK, TriggerTypeOK
  <2>2. CASE d = s
    BY <2>1, <2>2 DEF TriggerEvent
  <2>3. CASE d # s
    <3>1. trig[d] \in pending /\ clientData[trig[d]] = d
      BY <2>1, <2>3 DEF NoLostWakeup, TypeOK
    <3>2. trig[d] # trig[s]
      BY <2>1, <2>3 DEF TriggerInv, OwnerInv
    <3> QED BY <2>1, <3>1, <3>2 DEF TriggerEvent
  <2> QED BY <2>2, <2>3
<1>4. InOrder'
  <2> SUFFICES ASSUME NEW d \in live' PROVE (delivered[d] \o buffers[d] = appended[d])'
    BY DEF InOrder
  <2>1. d \in live /\ d \in Clients
    BY DEF TriggerEvent, TypeOK, TriggerTypeOK
  <2>2. delivered[d] \o Append(buffers[d], f) = Append(delivered[d] \o buffers[d], f)
    BY <2>1, AppendLast DEF TypeOK
  <2>3. delivered[d] \o buffers[d] = appended[d]
    BY <2>1 DEF InOrder
  <2> QED BY <2>1, <2>2, <2>3 DEF TypeOK
<1>5. TruncationReported' /\ ResetInv' /\ CallbackInv'
  BY DEF TruncationReported, ResetInv, CallbackInv
<1> QED BY <1>1, <1>2, <1>3, <1>4, <1>5

\* Delivering the oldest frame keeps the order and reports its own truncation.
LEMMA DeliverInv ==
    ASSUME SInv, NEW s \in live, buffers[s] # <<>>, Deliver(s, FALSE),
           appended' = appended, live' = live, trig' = trig,
           clientData' = clientData,
           TriggerInv',
           \A d \in live : d # s /\ trig[d] \in pending => trig[d] \in pending'
    PROVE  SInv'
<1> USE DEF SInv, Deliver
<1>0. s \in Clients /\ s # NoClient
  BY NoClientAssumption DEF TypeOK, TriggerTypeOK
<1>1. Head(buffers[s]) \in Frames /\ Tail(buffers[s]) \in Seq(Frames)
  BY <1>0, HeadTailProperties DEF TypeOK
<1>2. /\ Append(delivered[s], Head(buffers[s])) \in Seq(Frames)
      /\ Append(delivered[s], Head(buffers[s])) # <<>>
      /\ Len(Append(delivered[s], Head(buffers[s]))) = Len(delivered[s]) + 1
      /\ Append(delivered[s], Head(buffers[s]))[Len(delivered[s]) + 1] = Head(buffers[s])
  <2>1. delivered[s] \in Seq(Frames)
    BY <1>0 DEF TypeOK
  <2>2. ASSUME NEW q \in Seq(Frames), NEW f \in Frames
        PROVE  /\ Append(q, f) \in Seq(Frames)
               /\ Append(q, f) # <<>>
               /\ Len(Append(q, f)) = Len(q) + 1
               /\ Append(q, f)[Len(q) + 1] = f
    BY ONLY <2>2, AppendProperties
  <2> QED BY ONLY <1>1, <2>1, <2>2
<1>3. TypeOK'
  BY <1>0, <1>1, <1>2 DEF TypeOK, TriggerInv
<1>4. NoLostWakeup'
  BY <1>0 DEF NoLostWakeup, TypeOK, TriggerTypeOK
<1>5. InOrder'
  <2> SUFFICES ASSUME NEW d \in live PROVE (delivered[d] \o buffers[d] = appended[d])'
    BY DEF InOrder
  <2>1. d \in Clients /\ delivered[d] \o buffers[d] = appended[d]
    BY DEF InOrder, TypeOK, TriggerTypeOK
  <2>2. CASE d # s
    BY <2>1, <2>2 DEF TypeOK
  <2>3. CASE d = s
    <3>1. Append(delivered[s], Head(buffers[s])) \o Tail(buffers[s]) = delivered[s] \o buffers[s]
      BY <1>0, Dequeue DEF TypeOK
    <3>2. /\ delivered'[s] = Append(delivered[s], Head(buffers[s]))
          /\ buffers'[s] = Tail(buffers[s])
      BY <1>0 DEF TypeOK
    <3> QED BY <2>1, <2>3, <3>1, <3>2
  <2> QED BY <2>2, <2>3
<1>6. delivered'[s] = Append(delivered[s], Head(buffers[s])) /\ inCallback' = s
  BY <1>0 DEF TypeOK
<1>7. TruncationReported'
  <2>1. truncated'[s] <=> Head(buffers[s]) \in Oversize
    BY <1>0 DEF TypeOK
  <2> QED BY <1>2, <1>6, <2>1 DEF TruncationReported
<1>8. ResetInv' /\ CallbackInv'
  BY <1>0, <1>2, <1>6 DEF ResetInv, CallbackInv, TypeOK
<1> QED BY <1>3, <1>4, <1>5, <1>7, <1>8

LEMMA RequestInv ==
    ASSUME SInv, NEW s \in Clients, Request(s)
    PROVE  SInv'
<1> USE DEF Request
<1>1. TriggerInv' /\ UNCHANGED triggerVars
  BY DEF SInv, triggerVars, TriggerInv, TriggerTypeOK, OwnerInv,
         HandlerFindsOwner, WaitInv, Distance
<1>2. CASE buffers[s] # <<>> /\ Deliver(s, FALSE)
  BY <1>1, <1>2, DeliverInv DEF triggerVars
<1>3. CASE /\ buffers[s] = <<>>
           /\ awaiting' = [awaiting EXCEPT ![s] = TRUE]
           /\ truncated' = [truncated EXCEPT ![s] = FALSE]
           /\ inCallback' = NoClient
           /\ UNCHANGED <<buffers, delivered>>
  <2> USE <1>3 DEF SInv, triggerVars
  <2>1. TypeOK'
    BY <1>1 DEF TypeOK, TriggerTypeOK
  <2>2. NoLostWakeup'
    BY <1>1 DEF NoLostWakeup, TypeOK, TriggerTypeOK
  <2>3. InOrder' /\ TruncationReported' /\ ResetInv' /\ CallbackInv'
    BY <1>1 DEF InOrder, TruncationReported, ResetInv, CallbackInv, TypeOK
  <2> QED BY <1>1, <2>1, <2>2, <2>3
<1> QED BY <1>2, <1>3

LEMMA ReturnStopInv ==
    ASSUME SInv, NEW s \in Clients, Return(s) \/ Stop(s)
    PROVE  SInv'
<1> USE DEF SInv, Return, Stop, triggerVars
<1>1. TriggerInv'
  BY DEF TriggerInv, TriggerTypeOK, OwnerInv, HandlerFindsOwner, WaitInv, Distance
<1>2. TypeOK'
  BY DEF TypeOK, TriggerTypeOK
<1>3. NoLostWakeup'
  BY DEF NoLostWakeup, TypeOK, TriggerTypeOK
<1>4. InOrder' /\ TruncationReported' /\ ResetInv' /\ CallbackInv'
  BY DEF InOrder, TruncationReported, ResetInv, CallbackInv, TypeOK
<1> QED BY <1>1, <1>2, <1>3, <1>4

LEMMA WakeInv ==
    ASSUME SInv, NEW i \in Ids, Wake(i)
    PROVE  SInv'
<1> USE DEF Wake
<1> DEFINE s == clientData[i]
<1>1. TriggerInv'
  BY HandleInv DEF SInv
<1>2. /\ i \in pending /\ pending' = pending \ {i}
      /\ live' = live /\ trig' = trig /\ clientData' = clientData
  BY DEF HandleTrigger, IsFirst
<1>3. s \in live /\ s \in Clients /\ trig[s] = i
  BY <1>2 DEF SInv, TriggerInv, HandlerFindsOwner, TriggerTypeOK
<1>4. \A d \in live : d # s /\ trig[d] \in pending => trig[d] \in pending'
  BY <1>2, <1>3, NumTriggersAssumption DEF SInv, TriggerInv, OwnerInv, Ids, NoId
<1>5. CASE awaiting[s] /\ buffers[s] # <<>> /\ Deliver(s, truncated[s])
  <2>1. truncated[s] = FALSE
    BY <1>3, <1>5 DEF SInv, ResetInv, TypeOK
  <2>2. Deliver(s, FALSE)
    BY <1>5, <2>1
  <2> QED BY <1>1, <1>2, <1>3, <1>4, <1>5, <2>2, DeliverInv
<1>6. CASE /\ ~awaiting[s] \/ buffers[s] = <<>>
           /\ UNCHANGED <<buffers, awaiting, truncated, inCallback, delivered>>
  <2> USE <1>6 DEF SInv
  <2>1. TypeOK'
    BY <1>1 DEF TypeOK, TriggerInv
  <2>2. NoLostWakeup'
    BY <1>2, <1>3, <1>4 DEF NoLostWakeup
  <2>3. InOrder' /\ TruncationReported' /\ ResetInv' /\ CallbackInv'
    BY <1>2 DEF InOrder, TruncationReported, ResetInv, CallbackInv
  <2> QED BY <1>1, <2>1, <2>2, <2>3
<1> QED BY <1>5, <1>6

LEMMA SourceStep == SInv /\ [Next]_vars => SInv'
<1> SUFFICES ASSUME SInv, [Next]_vars PROVE SInv'
  OBVIOUS
<1>1. CASE \E s \in Clients : Create(s) \/ Destroy(s)
  BY <1>1, FreshInv DEF Create, Destroy
<1>2. CASE \E s \in Clients, f \in Frames : AppendFrame(s, f)
  BY <1>2, AppendInv
<1>3. CASE \E s \in Clients : Request(s) \/ Return(s) \/ Stop(s)
  BY <1>3, RequestInv, ReturnStopInv
<1>4. CASE \E i \in Ids : Wake(i)
  BY <1>4, WakeInv
<1>5. CASE UNCHANGED vars
  BY <1>5 DEF vars, triggerVars, sourceVars, SInv, TypeOK, TriggerInv, TriggerTypeOK,
              OwnerInv, HandlerFindsOwner, WaitInv, Distance, NoLostWakeup, InOrder,
              TruncationReported, ResetInv, CallbackInv
<1> QED BY <1>1, <1>2, <1>3, <1>4, <1>5 DEF Next

LEMMA SourceInvariance == Spec => []SInv
BY SourceInit, SourceStep, PTL DEF Spec

-----------------------------------------------------------------------------
\* The variables always have their types.
THEOREM SourceTypeCorrect == Spec => []TypeOK
<1>1. SInv => TypeOK
  BY DEF SInv
<1> QED BY <1>1, SourceInvariance, PTL

\* A frame for a reader that waits always has its event pending.
THEOREM NoLostWakeupAlways == Spec => []NoLostWakeup
<1>1. SInv => NoLostWakeup
  BY DEF SInv
<1> QED BY <1>1, SourceInvariance, PTL

\* Frames come out in the order in which they went in, none lost or repeated.
THEOREM InOrderAlways == Spec => []InOrder
<1>1. SInv => InOrder
  BY DEF SInv
<1> QED BY <1>1, SourceInvariance, PTL

\* The truncation a reader is told of is that of the frame it got.
THEOREM TruncationReportedAlways == Spec => []TruncationReported
<1>1. SInv => TruncationReported
  BY DEF SInv
<1> QED BY <1>1, SourceInvariance, PTL

\* The sources use their triggers as live555 means them to be used: each step of
\* a source is a step of the triggers or leaves them alone, whether readers ask,
\* stop or are called back.
THEOREM SourceUsesTriggers == Spec => TriggerSpec
<1>1. Init => TriggerInit
  BY DEF Init
<1>2. [Next]_vars => [TriggerNext]_triggerVars
  <2> SUFFICES ASSUME [Next]_vars PROVE [TriggerNext]_triggerVars
    OBVIOUS
  <2>1. CASE \E s \in Clients : Create(s) \/ Destroy(s) \/ \E f \in Frames : AppendFrame(s, f)
    BY <2>1 DEF Create, Destroy, AppendFrame, TriggerNext
  <2>2. CASE \E s \in Clients : Request(s) \/ Return(s) \/ Stop(s)
    BY <2>2 DEF Request, Return, Stop
  <2>3. CASE \E i \in Ids : Wake(i)
    BY <2>3 DEF Wake, TriggerNext
  <2>4. CASE UNCHANGED vars
    BY <2>4 DEF vars
  <2> QED BY <2>1, <2>2, <2>3, <2>4 DEF Next
<1> QED BY <1>1, <1>2, PTL DEF Spec, TriggerSpec

\* So the handler of an awaiting trigger finds a source that exists and owns it,
\* whatever the sources and their readers do.
THEOREM HandlerFindsSourceAlways == Spec => []HandlerFindsOwner
BY SourceUsesTriggers, HandlerFindsOwnerAlways, PTL

-----------------------------------------------------------------------------
(* The chain an rtsp_to_ts_handler builds: the inductive invariant.        *)

\* The closures run in their order, and the sink asks from then on.
Begins ==
    /\ posted = IF ~built THEN <<"build", "describe">>
                ELSE IF ~described THEN <<"describe">> ELSE <<>>
    /\ described => built
    /\ asking = built

\* One call is under way, or the source or a task will make the next.
OneCall ==
    /\ ~built => pc = "idle" /\ ~waiting /\ ~task /\ filled = 0
    /\ pc # "idle" => ~waiting /\ ~task
    /\ ~(waiting /\ task)
    /\ background = waiting

\* What is left of the multiplexor's buffer is what the record holds, and there
\* is something only while packets are cut from it.
InputFits ==
    /\ used < filled => /\ inUse /\ filled = HeaderSize + Len(pes)
                        /\ pc = "next" \/ task
    /\ filled > 0 => filled >= LowWater
    /\ \A i \in DOMAIN backlog : backlog[i].bytes # <<>>
    /\ time = 0 => pes = <<>> /\ filled = 0 /\ ~task

\* Every packet was delivered, but for one that waits in the task.
AllDelivered == IF task THEN count + 1 = packets ELSE count = packets

\* The sink's file begins with the first frame in its buffer.
FileBegun ==
    /\ buffer = <<>> => sec = 0 /\ files = <<>>
    /\ buffer # <<>> => sec = buffer[1].time
    /\ \A i \in DOMAIN files : files[i] # <<>>
    /\ \A i \in DOMAIN Parts : \A j \in DOMAIN Parts[i] : Parts[i][j].id \in 1 .. count

\* Once a buffer is begun, its next packet goes to the same file; unless its
\* first packet waits in the task.
SameFile ==
    /\ room < PacketSize => used = 0
    /\ task /\ used > 0 => missing = 0
    /\ task /\ kinds[packets] = "more" => used > 0
    /\ used > 0 /\ (task \/ pc = "next") =>
          \/ sec # 0 /\ time - sec <= Slice
          \/ task /\ kinds[packets] = "first"

\* What the callbacks since the last return are: one that began them, those of
\* the packets since the last task, at most LowWater - HeaderSize for each of n
\* buffers that were cut up since, and c for the one at hand, of which j packets
\* were cut.
Nested(n, c, j) ==
    /\ depth <= 1 + (packets % Batch) + n * (LowWater - HeaderSize) + c
    /\ c <= LowWater - HeaderSize
    /\ n * PerBuffer + j <= (packets % Batch)
    /\ pc # "next" => j = 0
    /\ pc = "await" => c <= Len(pes)
    /\ pc = "await old" => c = 0
    /\ pc = "next" => \/ c = 0
                      \/ filled > 0 /\ (used = 0 \/ used + PcrSize <= j * PacketData)

StackInv ==
    /\ pc = "idle" => depth = 0
    /\ \E n, c, j \in Nat : Nested(n, c, j)

PipeInv ==
    /\ PipeTypeOK /\ Begins /\ OneCall /\ InputFits /\ AllDelivered
    /\ FileBegun /\ CutInTime /\ SameFile /\ FilesEndBetweenPes /\ StackInv
-----------------------------------------------------------------------------
(* Arithmetic: quotients, remainders, and products.                       *)

\* What a quotient and a remainder are.
LEMMA DivDef ==
    ASSUME NEW x \in Int, NEW p \in Nat \ {0}
    PROVE  /\ x \div p \in Int /\ x % p \in 0 .. p - 1 /\ x = (x \div p) * p + (x % p)
  OBVIOUS

\* There is only one remainder.
LEMMA DivOnly ==
    ASSUME NEW x \in Int, NEW p \in Nat \ {0}, NEW q \in Int, NEW r \in 0 .. p - 1, x = q * p + r
    PROVE  x % p = r
  OBVIOUS

\* A remainder that does not come to 0 grows by one.
LEMMA ModNext ==
    ASSUME NEW p \in Nat, NEW b \in Nat \ {0}, (p + 1) % b # 0
    PROVE  (p + 1) % b = (p % b) + 1
<1> DEFINE q == p \div b
           r == p % b
<1>1. q \in Int /\ r \in 0 .. b - 1 /\ p = q * b + r
  BY DivDef
<1> HIDE DEF q, r
<1>2. CASE r = b - 1
  <2>1. p + 1 = (q + 1) * b + 0 /\ 0 \in 0 .. b - 1 /\ q + 1 \in Int /\ p + 1 \in Int
    BY <1>1, <1>2
  <2>2. (p + 1) % b = 0
    BY <2>1, DivOnly
  <2> QED BY <2>2
<1>3. CASE r # b - 1
  <2>1. p + 1 = q * b + (r + 1) /\ r + 1 \in 0 .. b - 1 /\ p + 1 \in Int
    BY <1>1, <1>3
  <2> QED BY <1>1, <2>1, DivOnly DEF r
<1> QED BY <1>2, <1>3

\* How often a whole number goes into another.
LEMMA DivBound ==
    ASSUME NEW n \in Nat, NEW p \in Nat \ {0}, NEW b \in Nat, n * p <= b
    PROVE  n <= b \div p /\ b \div p \in Nat
  OBVIOUS

\* More buffers of k bytes take more.
LEMMA ProductGrows ==
    ASSUME NEW n \in Nat, NEW m \in Nat, NEW k \in Nat, n <= m
    PROVE  n * k + k <= (1 + m) * k
<1>1. (1 + m) * k = n * k + (m - n) * k + k
  OBVIOUS
<1>2. (m - n) * k \in Nat /\ n * k \in Nat
  OBVIOUS
<1> DEFINE x == n * k
           y == (m - n) * k
<1>3. x \in Nat /\ y \in Nat /\ (1 + m) * k = x + y + k
  BY <1>1, <1>2
<1> HIDE DEF x, y
<1>4. x + k <= x + y + k
  BY <1>3
<1> QED BY <1>3, <1>4 DEF x

\* One buffer more was cut up.
LEMMA OneMoreBuffer ==
    ASSUME NEW n \in Nat, NEW c \in Nat, NEW j \in Nat, NEW k \in Nat, NEW p \in Nat,
           NEW d \in Nat, NEW m \in Nat,
           d <= 1 + m + n * k + c, c <= k, n * p + j <= m, p <= j
    PROVE  d <= 1 + m + (n + 1) * k + 0 /\ (n + 1) * p + 0 <= m
<1>1. /\ n * k \in Nat /\ n * p \in Nat
      /\ (n + 1) * k = n * k + k /\ (n + 1) * p = n * p + p
  OBVIOUS
<1> DEFINE x == n * k
           y == n * p
<1>2. x \in Nat /\ y \in Nat /\ d <= 1 + m + x + c /\ y + j <= m
  BY <1>1
<1> HIDE DEF x, y
<1>3. d <= 1 + m + (x + k) + 0 /\ (y + p) + 0 <= m
  BY <1>2
<1> QED BY <1>1, <1>3 DEF x, y

\* One packet more was cut from a buffer.
LEMMA OnePacketMore ==
    ASSUME NEW u \in Nat, NEW v \in Nat, NEW j \in Nat, NEW d \in Nat, NEW r \in Nat,
           v <= u + d, u = 0 => v = 0 \/ v + r <= d, u = 0 \/ u + r <= j * d
    PROVE  v = 0 \/ v + r <= (j + 1) * d
<1>1. j * d \in Nat /\ (j + 1) * d = j * d + d
  OBVIOUS
<1> DEFINE x == j * d
<1>2. x \in Nat /\ (u = 0 \/ u + r <= x)
  BY <1>1
<1> HIDE DEF x
<1>3. v = 0 \/ v + r <= x + d
  BY <1>2
<1> QED BY <1>1, <1>3 DEF x

-----------------------------------------------------------------------------
(* Sequences of sequences: what flattening one gives.                      *)

\* f is what flattening the first m of ss gives, one after the other.
IsFlat(f, ss, m) ==
    f = [i \in 1 .. m |-> IF i = 1 THEN ss[i] ELSE f[i - 1] \o ss[i]]

LEMMA FlatDef ==
    ASSUME NEW S, NEW ss \in Seq(Seq(S)), ss # <<>>
    PROVE  FlattenSeq(ss) = (CHOOSE f : IsFlat(f, ss, Len(ss)))[Len(ss)]
<1>1. Len(ss) # 0
  BY EmptySeq
<1> QED BY <1>1 DEF FlattenSeq, IsFlat

\* What holds of 1 and of each number's successor holds of all.
LEMMA Induct ==
    ASSUME NEW n \in Nat, NEW T, 1 \in T,
           \A m \in 1 .. n - 1 : m \in T => m + 1 \in T
    PROVE  1 .. n \subseteq T
<1> SUFFICES ASSUME ~(1 .. n \subseteq T) PROVE FALSE
  OBVIOUS
<1> DEFINE U == (1 .. n) \ T
<1>1. U \subseteq Nat /\ U # {}
  OBVIOUS
<1> HIDE DEF U
<1>2. PICK k \in U : \A j \in U : k <= j
  BY <1>1, LeastOf
<1>3. k \in 1 .. n /\ k \notin T
  BY DEF U
<1>4. k # 1 /\ k - 1 \in 1 .. n - 1 /\ ~(k <= k - 1)
  BY <1>3
<1>5. k - 1 \in T
  <2>1. k - 1 \notin U
    BY <1>2, <1>4
  <2> QED BY <1>4, <2>1 DEF U
<1> QED BY <1>3, <1>4, <1>5

\* There is such an f, and it consists of sequences.
LEMMA FlatExists ==
    ASSUME NEW S, NEW ss \in Seq(Seq(S)), NEW n \in 1 .. Len(ss)
    PROVE  \E f \in [1 .. n -> Seq(S)] : IsFlat(f, ss, n)
<1> DEFINE T == {m \in 1 .. n : \E f \in [1 .. m -> Seq(S)] : IsFlat(f, ss, m)}
<1>1. /\ Len(ss) \in Nat /\ n \in Nat /\ \A i \in 1 .. n : ss[i] \in Seq(S)
  BY LenProperties, ElementOfSeq
<1>2. 1 \in T
  <2> DEFINE f == [i \in 1 .. 1 |-> ss[i]]
  <2>1. ss[1] \in Seq(S) /\ 1 \in 1 .. n
    BY <1>1
  <2>2. f \in [1 .. 1 -> Seq(S)]
    BY <2>1
  <2>3. IsFlat(f, ss, 1)
    BY DEF IsFlat
  <2> QED BY <2>1, <2>2, <2>3
<1>3. ASSUME NEW m \in 1 .. n - 1, m \in T PROVE m + 1 \in T
  <2>1. PICK f \in [1 .. m -> Seq(S)] : IsFlat(f, ss, m)
    BY <1>3
  <2> DEFINE g == [i \in 1 .. m + 1 |-> IF i = m + 1 THEN f[m] \o ss[m + 1] ELSE f[i]]
  <2>2. m \in Nat /\ m >= 1 /\ m + 1 \in 1 .. n /\ ss[m + 1] \in Seq(S) /\ f[m] \in Seq(S)
    BY <1>1
  <2>3. f[m] \o ss[m + 1] \in Seq(S)
    BY <2>2, ConcatProperties
  <2>4. g \in [1 .. m + 1 -> Seq(S)]
    BY <2>2, <2>3
  <2>5. ASSUME NEW i \in 1 .. m + 1
        PROVE  g[i] = IF i = 1 THEN ss[i] ELSE g[i - 1] \o ss[i]
    <3>1. CASE i = m + 1
      <4>1. i # 1 /\ i - 1 = m /\ m \in 1 .. m + 1 /\ m # m + 1
        BY <2>2, <3>1
      <4>2. g[i - 1] = f[m]
        BY <4>1
      <4> QED BY <3>1, <4>1, <4>2
    <3>2. CASE i # m + 1
      <4>1. i \in 1 .. m
        BY <2>2, <3>2
      <4>2. f[i] = IF i = 1 THEN ss[i] ELSE f[i - 1] \o ss[i]
        BY <2>1, <4>1 DEF IsFlat
      <4>3. i # 1 => i - 1 \in 1 .. m /\ g[i - 1] = f[i - 1]
        BY <2>2, <4>1
      <4> QED BY <3>2, <4>1, <4>2, <4>3
    <3> QED BY <3>1, <3>2
  <2>6. IsFlat(g, ss, m + 1)
    <3> HIDE DEF g
    <3> QED BY <2>4, <2>5 DEF IsFlat
  <2> QED BY <2>2, <2>4, <2>6
<1> HIDE DEF T
<1>4. 1 .. n \subseteq T
  BY <1>1, <1>2, <1>3, Induct
<1> QED BY <1>4 DEF T

\* And only one.
LEMMA FlatUnique ==
    ASSUME NEW ss, NEW n \in Nat, NEW m \in 1 .. n, NEW f, NEW g,
           IsFlat(f, ss, n), IsFlat(g, ss, m)
    PROVE  f[m] = g[m]
<1> DEFINE T == {i \in 1 .. m : f[i] = g[i]}
<1>1. m \in Nat /\ m >= 1 /\ m <= n
  OBVIOUS
<1>2. /\ \A i \in 1 .. m : f[i] = IF i = 1 THEN ss[i] ELSE f[i - 1] \o ss[i]
      /\ \A i \in 1 .. m : g[i] = IF i = 1 THEN ss[i] ELSE g[i - 1] \o ss[i]
  <2>1. \A i \in 1 .. n : f[i] = IF i = 1 THEN ss[i] ELSE f[i - 1] \o ss[i]
    BY DEF IsFlat
  <2>2. \A i \in 1 .. m : g[i] = IF i = 1 THEN ss[i] ELSE g[i - 1] \o ss[i]
    BY DEF IsFlat
  <2> QED BY <1>1, <2>1, <2>2
<1>3. 1 \in T
  BY <1>1, <1>2
<1>4. ASSUME NEW i \in 1 .. m - 1, i \in T PROVE i + 1 \in T
  <2>1. i + 1 \in 1 .. m /\ i + 1 # 1 /\ (i + 1) - 1 = i /\ f[i] = g[i]
    BY <1>1, <1>4
  <2> QED BY <1>2, <2>1
<1> HIDE DEF T
<1>5. 1 .. m \subseteq T
  BY <1>1, <1>3, <1>4, Induct
<1> QED BY <1>1, <1>5 DEF T

LEMMA FlatIs ==
    ASSUME NEW S, NEW ss \in Seq(Seq(S)), NEW n \in Nat, n = Len(ss), ss # <<>>
    PROVE  \E f \in [1 .. n -> Seq(S)] : IsFlat(f, ss, n) /\ FlattenSeq(ss) = f[n]
<1>1. n \in 1 .. Len(ss)
  BY EmptySeq, LenProperties
<1>2. PICK f \in [1 .. n -> Seq(S)] : IsFlat(f, ss, n)
  BY <1>1, FlatExists
<1> DEFINE c == CHOOSE e : IsFlat(e, ss, n)
<1>3. IsFlat(c, ss, n)
  BY <1>2
<1>4. FlattenSeq(ss) = c[n]
  BY FlatDef
<1> HIDE DEF c
<1>5. c[n] = f[n]
  BY <1>1, <1>2, <1>3, FlatUnique
<1> QED BY <1>2, <1>4, <1>5

LEMMA FlatEmpty == FlattenSeq(<<>>) = <<>>
  BY DEF FlattenSeq

LEMMA FlatType ==
    ASSUME NEW S, NEW ss \in Seq(Seq(S))
    PROVE  FlattenSeq(ss) \in Seq(S)
<1>1. CASE ss = <<>>
  <2>1. FlattenSeq(ss) = <<>>
    BY <1>1, FlatEmpty
  <2> QED BY <2>1, EmptySeq
<1>2. CASE ss # <<>>
  <2>1. Len(ss) \in Nat /\ Len(ss) >= 1
    BY <1>2, EmptySeq, LenProperties
  <2> QED BY <1>2, <2>1, FlatIs
<1> QED BY <1>1, <1>2

\* Flattening what has one more sequence at its end.
LEMMA FlatAppend ==
    ASSUME NEW S, NEW ss \in Seq(Seq(S)), NEW s \in Seq(S)
    PROVE  FlattenSeq(Append(ss, s)) = FlattenSeq(ss) \o s
<1> DEFINE tt == Append(ss, s)
           n == Len(ss)
<1>1. /\ n \in Nat /\ tt \in Seq(Seq(S)) /\ Len(tt) = n + 1 /\ tt # <<>>
      /\ \A i \in 1 .. n : tt[i] = ss[i]
      /\ tt[n + 1] = s
  <2>1. tt \in Seq(Seq(S)) /\ Len(tt) = n + 1 /\ n \in Nat
        /\ \A i \in 1 .. n : tt[i] = ss[i] /\ tt[n + 1] = s
    BY AppendProperties, LenProperties
  <2> QED BY <2>1, AppendProperties, EmptySeq
<1> HIDE DEF tt
<1>2. PICK g \in [1 .. n + 1 -> Seq(S)] : IsFlat(g, tt, n + 1) /\ FlattenSeq(tt) = g[n + 1]
  BY <1>1, FlatIs
<1>3. \A i \in 1 .. n + 1 : g[i] = IF i = 1 THEN tt[i] ELSE g[i - 1] \o tt[i]
  BY <1>2 DEF IsFlat
<1>4. CASE ss = <<>>
  <2>1. n = 0 /\ FlattenSeq(ss) = <<>> /\ <<>> \o s = s
    BY <1>4, EmptySeq, FlatEmpty, ConcatEmptySeq
  <2> QED BY <1>1, <1>2, <1>3, <2>1 DEF tt
<1>5. CASE ss # <<>>
  <2>1. n >= 1
    BY <1>1, <1>5, EmptySeq
  <2>2. PICK f \in [1 .. n -> Seq(S)] : IsFlat(f, ss, n) /\ FlattenSeq(ss) = f[n]
    BY <1>1, <1>5, FlatIs
  <2> DEFINE h == [i \in 1 .. n |-> g[i]]
  <2>3. IsFlat(h, ss, n)
    <3>1. ASSUME NEW i \in 1 .. n
          PROVE  h[i] = IF i = 1 THEN ss[i] ELSE h[i - 1] \o ss[i]
      <4>1. i \in 1 .. n + 1 /\ (i # 1 => i - 1 \in 1 .. n)
        BY <1>1
      <4> QED BY <1>1, <1>3, <4>1
    <3> QED BY <3>1 DEF IsFlat
  <2>4. f[n] = h[n] /\ h[n] = g[n]
    <3>1. h[n] = g[n] /\ n \in 1 .. n
      BY <1>1, <2>1
    <3> HIDE DEF h
    <3> QED BY <1>1, <2>2, <2>3, <3>1, FlatUnique
  <2>5. g[n + 1] = g[n] \o s
    <3>1. n + 1 \in 1 .. n + 1 /\ n + 1 # 1 /\ (n + 1) - 1 = n
      BY <1>1, <2>1
    <3> QED BY <1>1, <1>3, <3>1
  <2> QED BY <1>2, <2>2, <2>4, <2>5 DEF tt
<1> QED BY <1>4, <1>5

\* One more of a sequence.
LEMMA PrefixGrows ==
    ASSUME NEW S, NEW s \in Seq(S), NEW a \in Nat, a >= 1, NEW m \in Nat, a <= m + 1,
           m + 1 <= Len(s)
    PROVE  /\ SubSeq(s, a, m) \in Seq(S) /\ s[m + 1] \in S
           /\ SubSeq(s, a, m + 1) = Append(SubSeq(s, a, m), s[m + 1])
<1> DEFINE l == SubSeq(s, a, m)
           r == SubSeq(s, a, m + 1)
           q == Append(l, s[m + 1])
           k == m + 1 - a
<1>1. /\ Len(s) \in Nat /\ \A i \in 1 .. Len(s) : s[i] \in S
      /\ k \in Nat
  BY LenProperties, ElementOfSeq
<1>2. /\ \A i \in a .. m : s[i] \in S
      /\ \A i \in a .. m + 1 : s[i] \in S
      /\ s[m + 1] \in S
  BY <1>1
<1>3. /\ l \in Seq(S) /\ Len(l) = k /\ \A i \in 1 .. k : l[i] = s[a + i - 1]
  BY <1>1, <1>2, SubSeqProperties
<1>4. /\ r \in Seq(S) /\ Len(r) = k + 1 /\ \A i \in 1 .. k + 1 : r[i] = s[a + i - 1]
  <2>1. m + 1 \in Nat /\ m + 1 - a + 1 = k + 1 /\ a <= m + 1
    OBVIOUS
  <2> QED BY <1>1, <1>2, <2>1, SubSeqProperties
<1> HIDE DEF l, r
<1>5. q \in Seq(S) /\ Len(q) = k + 1 /\ \A i \in 1 .. k : q[i] = l[i] /\ q[k + 1] = s[m + 1]
  BY <1>2, <1>3, AppendProperties
<1>6. q[k + 1] = s[m + 1]
  BY <1>2, <1>3, AppendProperties
<1> HIDE DEF q, k
<1>7. ASSUME NEW i \in 1 .. k + 1 PROVE r[i] = q[i]
  <2>1. CASE i = k + 1
    BY <1>1, <1>4, <1>6, <2>1 DEF k
  <2>2. CASE i # k + 1
    <3>1. i \in 1 .. k
      BY <1>1, <2>2
    <3> QED BY <1>3, <1>4, <1>5, <3>1
  <2> QED BY <2>1, <2>2
<1>8. r = q
  BY <1>4, <1>5, <1>7, SeqEqual
<1> QED BY <1>2, <1>3, <1>8 DEF l, r, q

\* Flattening starts with the first sequence.
LEMMA FlatHead ==
    ASSUME NEW S, NEW ss \in Seq(Seq(S)), ss # <<>>
    PROVE  FlattenSeq(ss) = Head(ss) \o FlattenSeq(Tail(ss))
<1>0. PICK n \in Nat : n = Len(ss) /\ n >= 1
  BY LenProperties, EmptySeq
<1> DEFINE T == {m \in 1 .. n : FlattenSeq(SubSeq(ss, 1, m))
                                    = ss[1] \o FlattenSeq(SubSeq(ss, 2, m))}
<1>1. /\ n \in Nat /\ n >= 1 /\ \A i \in 1 .. n : ss[i] \in Seq(S)
  BY <1>0, ElementOfSeq
<1>2. 1 \in T
  <2>1. SubSeq(ss, 1, 1) = Append(<<>>, ss[1])
    <3>1. SubSeq(ss, 1, 1) = Append(SubSeq(ss, 1, 0), ss[1])
      <4>1. 0 \in Nat /\ 1 \in Nat /\ 1 <= 0 + 1 /\ 0 + 1 <= Len(ss) /\ 0 + 1 = 1
        BY <1>0
      <4> HIDE DEF T
      <4>2. SubSeq(ss, 1, 0 + 1) = Append(SubSeq(ss, 1, 0), ss[0 + 1])
        BY <4>1, PrefixGrows, Zenon
      <4> QED BY <4>1, <4>2
    <3>2. SubSeq(ss, 1, 0) = <<>>
      BY <1>1, SubSeqProperties, EmptySeq
    <3> QED BY <3>1, <3>2
  <2>2. SubSeq(ss, 2, 1) = <<>>
    BY <1>1, SubSeqProperties, EmptySeq
  <2>3. FlattenSeq(SubSeq(ss, 1, 1)) = <<>> \o ss[1]
    <3>1. <<>> \in Seq(Seq(S)) /\ ss[1] \in Seq(S)
      BY <1>1, EmptySeq
    <3> QED BY <2>1, <3>1, FlatAppend, FlatEmpty
  <2>4. <<>> \o ss[1] = ss[1] /\ ss[1] \o <<>> = ss[1]
    BY <1>1, ConcatEmptySeq
  <2>5. FlattenSeq(SubSeq(ss, 1, 1)) = ss[1] \o FlattenSeq(SubSeq(ss, 2, 1))
    <3>1. FlattenSeq(SubSeq(ss, 2, 1)) = <<>>
      BY <2>2, FlatEmpty
    <3> QED BY <2>3, <2>4, <3>1
  <2>6. 1 \in 1 .. n
    BY <1>0
  <2> QED BY <2>5, <2>6, Zenon
<1>3. ASSUME NEW m \in 1 .. n - 1, m \in T PROVE m + 1 \in T
  <2> DEFINE p == SubSeq(ss, 1, m)
             q == SubSeq(ss, 2, m)
             s == ss[m + 1]
  <2>1. m \in Nat /\ m >= 1 /\ m + 1 <= n /\ m + 1 \in 1 .. n
    BY <1>1
  <2>2. /\ p \in Seq(Seq(S)) /\ q \in Seq(Seq(S)) /\ s \in Seq(S)
        /\ SubSeq(ss, 1, m + 1) = Append(p, s) /\ SubSeq(ss, 2, m + 1) = Append(q, s)
    BY <1>0, <2>1, PrefixGrows
  <2>3. FlattenSeq(p) = ss[1] \o FlattenSeq(q)
    BY <1>3
  <2> HIDE DEF p, q, s
  <2>4. FlattenSeq(Append(p, s)) = FlattenSeq(p) \o s /\ FlattenSeq(Append(q, s)) = FlattenSeq(q) \o s
    BY <2>2, FlatAppend
  <2>5. (ss[1] \o FlattenSeq(q)) \o s = ss[1] \o (FlattenSeq(q) \o s)
    <3> DEFINE x == ss[1]
               y == FlattenSeq(q)
    <3>1. x \in Seq(S) /\ y \in Seq(S) /\ s \in Seq(S)
      BY <1>1, <2>2, FlatType
    <3> HIDE DEF T, x, y
    <3>2. (x \o y) \o s = x \o (y \o s)
      BY <3>1, ConcatAssociative
    <3> QED BY <3>2 DEF x, y
  <2> QED BY <2>1, <2>2, <2>3, <2>4, <2>5
<1> HIDE DEF T
<1>4. n \in T
  <2>1. 1 .. n \subseteq T
    BY <1>1, <1>2, <1>3, Induct
  <2> QED BY <1>1, <2>1
<1>5. SubSeq(ss, 1, n) = ss /\ SubSeq(ss, 2, n) = Tail(ss) /\ ss[1] = Head(ss)
  <2>1. SubSeq(ss, 1, n) \in Seq(Seq(S)) /\ Len(SubSeq(ss, 1, n)) = n
        /\ \A i \in 1 .. n : SubSeq(ss, 1, n)[i] = ss[i]
    BY <1>0, <1>1, SubSeqProperties
  <2>2. SubSeq(ss, 1, n) = ss
    BY <1>0, <2>1, SeqEqual
  <2>3. /\ SubSeq(ss, 2, n) \in Seq(Seq(S)) /\ Len(SubSeq(ss, 2, n)) = n - 1
        /\ \A i \in 1 .. n - 1 : SubSeq(ss, 2, n)[i] = ss[i + 1]
    <3>1. \A i \in 2 .. n : ss[i] \in Seq(S)
      BY <1>1
    <3>2. 2 <= n \/ n = 1
      BY <1>1
    <3> HIDE DEF T
    <3>3. CASE 2 <= n
      BY <1>1, <3>1, <3>3, SubSeqProperties
    <3>4. CASE n = 1
      BY <1>1, <3>1, <3>4, SubSeqProperties
    <3> QED BY <3>2, <3>3, <3>4
  <2>4. /\ Tail(ss) \in Seq(Seq(S)) /\ Len(Tail(ss)) = n - 1
        /\ \A i \in 1 .. n - 1 : Tail(ss)[i] = ss[i + 1]
    BY <1>0, HeadTailProperties
  <2>5. SubSeq(ss, 2, n) = Tail(ss)
    BY <2>3, <2>4, SeqEqual
  <2> QED BY <2>2, <2>5, HeadTailProperties
<1> QED BY <1>4, <1>5 DEF T

-----------------------------------------------------------------------------
(* The sink.                                                               *)

\* What is in the files and then in a buffer.
LEMMA PartsOf ==
    ASSUME NEW F \in Seq(Seq(Frame)), NEW b \in Seq(Frame)
    PROVE  /\ Append(F, b) \in Seq(Seq(Frame)) /\ Len(F) \in Nat
           /\ DOMAIN Append(F, b) = 1 .. Len(F) + 1 /\ DOMAIN F = 1 .. Len(F)
           /\ \A i \in 1 .. Len(F) : Append(F, b)[i] = F[i]
           /\ Append(F, b)[Len(F) + 1] = b
<1>1. /\ Append(F, b) \in Seq(Seq(Frame)) /\ Len(Append(F, b)) = Len(F) + 1 /\ Len(F) \in Nat
      /\ \A i \in 1 .. Len(F) : Append(F, b)[i] = F[i]
      /\ Append(F, b)[Len(F) + 1] = b
  BY AppendProperties, LenProperties
<1>2. DOMAIN Append(F, b) = 1 .. Len(F) + 1 /\ DOMAIN F = 1 .. Len(F)
  BY <1>1
<1> QED BY <1>1, <1>2

LEMMA PartsIs ==
    ASSUME SinkTypeOK
    PROVE  /\ Parts \in Seq(Seq(Frame)) /\ Len(files) \in Nat
           /\ DOMAIN Parts = 1 .. Len(files) + 1 /\ DOMAIN files = 1 .. Len(files)
           /\ DOMAIN buffer = 1 .. Len(buffer) /\ Len(buffer) \in Nat
           /\ \A i \in 1 .. Len(files) : Parts[i] = files[i]
           /\ Parts[Len(files) + 1] = buffer
           /\ Frame \subseteq [time : Nat \ {0}, id : Nat]
           /\ sec \in Nat /\ \A t \in Times : t \in Nat /\ t # 0
<1>1. files \in Seq(Seq(Frame)) /\ buffer \in Seq(Frame) /\ sec \in Times \cup {0}
  BY DEF SinkTypeOK
<1>2. /\ Parts \in Seq(Seq(Frame)) /\ Len(files) \in Nat
      /\ DOMAIN Parts = 1 .. Len(files) + 1 /\ DOMAIN files = 1 .. Len(files)
      /\ \A i \in 1 .. Len(files) : Parts[i] = files[i]
      /\ Parts[Len(files) + 1] = buffer
  BY <1>1, PartsOf DEF Parts
<1>3. DOMAIN buffer = 1 .. Len(buffer) /\ Len(buffer) \in Nat
  BY <1>1
<1>4. Times \subseteq Nat \ {0}
  BY TimesAssumption
<1>5. Frame \subseteq [time : Nat \ {0}, id : Nat]
  BY <1>4 DEF Frame
<1>6. sec \in Nat /\ \A t \in Times : t \in Nat /\ t # 0
  BY <1>1, <1>4
<1> QED BY <1>2, <1>3, <1>5, <1>6

\* The sink gets a frame.  If it is more of what a file was begun with, no new
\* file is begun with it.
LEMMA SinkGets ==
    ASSUME SinkTypeOK, FileBegun, CutInTime, FilesEndBetweenPes,
           NEW t \in Times, NEW cut \in Nat, GetFrame(t, cut),
           \A k \in 1 .. count : kinds'[k] = kinds[k],
           cut = 0 /\ kinds'[count + 1] = "more" => sec # 0 /\ t - sec <= Slice
    PROVE  /\ SinkTypeOK' /\ FileBegun' /\ CutInTime' /\ FilesEndBetweenPes'
           /\ count' = count + 1 /\ asking' = asking /\ room' >= room
           /\ cut = 0 => sec' # 0 /\ t - sec' <= Slice
           /\ cut > 0 => sec' = sec
<1> DEFINE f == [time |-> t, id |-> count + 1]
           n == Len(files)
<1>1. /\ count \in Nat /\ count' = count + 1 /\ asking' = asking /\ asking \in BOOLEAN
      /\ IF cut > 0 THEN Drop(cut) ELSE Collect(f)
      /\ room \in Nat /\ buffer \in Seq(Frame) /\ files \in Seq(Seq(Frame))
      /\ sec \in Times \cup {0}
  BY DEF SinkTypeOK, GetFrame
<1>2. /\ n \in Nat /\ DOMAIN Parts = 1 .. n + 1 /\ Parts \in Seq(Seq(Frame))
      /\ DOMAIN files = 1 .. n /\ DOMAIN buffer = 1 .. Len(buffer) /\ Len(buffer) \in Nat
      /\ \A i \in 1 .. n : Parts[i] = files[i]
      /\ Parts[n + 1] = buffer
      /\ Frame \subseteq [time : Nat \ {0}, id : Nat]
      /\ sec \in Nat /\ t \in Nat /\ t # 0
  BY PartsIs
<1>3. f \in Frame /\ f.time = t /\ f.id = count + 1
  BY <1>1 DEF Frame
<1>4. \A i \in DOMAIN Parts : \A j \in DOMAIN Parts[i] : Parts[i][j].id \in 1 .. count
  BY DEF FileBegun
<1>5. ASSUME NEW i \in DOMAIN Parts, Parts[i] # <<>>
      PROVE  /\ 1 \in DOMAIN Parts[i] /\ kinds'[Parts[i][1].id] = kinds[Parts[i][1].id]
  <2>1. Parts[i] \in Seq(Frame)
    BY <1>2
  <2>2. 1 \in DOMAIN Parts[i]
    BY <1>5, <2>1, EmptySeq, LenProperties
  <2> QED BY <1>4, <2>2
<1>6. \A i \in DOMAIN Parts : i > 1 => Parts[i] # <<>>
  <2> SUFFICES ASSUME NEW i \in DOMAIN Parts, i > 1 PROVE Parts[i] # <<>>
    OBVIOUS
  <2>1. CASE i = n + 1
    <3>1. files # <<>>
      BY <1>2, <2>1
    <3> QED BY <1>2, <2>1, <3>1 DEF FileBegun
  <2>2. CASE i # n + 1
    <3>1. i \in 1 .. n /\ DOMAIN files = 1 .. n
      BY <1>1, <1>2, <2>2, LenProperties
    <3> QED BY <1>2, <3>1 DEF FileBegun
  <2> QED BY <2>1, <2>2
<1>7. \A i \in DOMAIN Parts : i > 1 => kinds'[Parts[i][1].id] # "more"
  BY <1>5, <1>6 DEF FilesEndBetweenPes
<1> HIDE DEF f, n
<1>8. CASE cut > 0
  <2>1. room' = room + cut /\ UNCHANGED <<sec, buffer, files>> /\ Parts' = Parts
    BY <1>1, <1>8 DEF Drop, Parts
  <2>2. SinkTypeOK' /\ CutInTime'
    BY <1>1, <2>1 DEF SinkTypeOK, CutInTime
  <2>3. FileBegun'
    BY <1>1, <1>4, <2>1 DEF FileBegun
  <2>4. FilesEndBetweenPes'
    BY <1>7, <2>1 DEF FilesEndBetweenPes
  <2> QED BY <1>1, <1>8, <2>1, <2>2, <2>3, <2>4
<1>9. CASE cut = 0 /\ t - Begun(t) <= Slice
  <2>1. /\ buffer' = Append(buffer, f) /\ sec' = Begun(t) /\ files' = files /\ room' = room
    <3>1. Collect(f) /\ ~(f.time - Begun(f.time) > Slice)
      BY <1>1, <1>2, <1>3, <1>9 DEF Begun, Slice
    <3> QED BY <1>3, <3>1 DEF Collect
  <2>2. /\ buffer' \in Seq(Frame) /\ Len(buffer') = Len(buffer) + 1
        /\ DOMAIN buffer' = 1 .. Len(buffer) + 1
        /\ \A j \in 1 .. Len(buffer) : buffer'[j] = buffer[j]
        /\ buffer'[Len(buffer) + 1] = f
    BY <1>1, <1>3, <2>1, AppendProperties, LenProperties
  <2>3. SinkTypeOK'
    BY <1>1, <1>2, <2>1, <2>2 DEF SinkTypeOK, Begun
  <2>4. /\ DOMAIN Parts' = 1 .. n + 1
        /\ \A i \in 1 .. n : Parts'[i] = Parts[i]
        /\ Parts'[n + 1] = buffer'
    <3>1. Len(files') = n
      BY <2>1 DEF n
    <3>2. /\ DOMAIN Parts' = 1 .. Len(files') + 1
          /\ \A i \in 1 .. Len(files') : Parts'[i] = files'[i]
          /\ Parts'[Len(files') + 1] = buffer'
      BY <1>1, <2>1, <2>2, PartsOf DEF Parts
    <3> QED BY <1>2, <2>1, <3>1, <3>2
  <2>5. /\ buffer'[1].time = Begun(t) /\ sec' = buffer'[1].time /\ sec' # 0
        /\ \A j \in DOMAIN buffer' : buffer'[j].time - buffer'[1].time <= Slice
    <3>1. CASE buffer = <<>>
      <4>1. Len(buffer) = 0 /\ sec = 0
        BY <3>1 DEF FileBegun
      <4>2. buffer'[1] = f /\ DOMAIN buffer' = 1 .. 1
        BY <2>2, <4>1
      <4> QED BY <1>2, <1>3, <2>1, <4>1, <4>2 DEF Begun, Slice
    <3>2. CASE buffer # <<>>
      <4>1. Len(buffer) >= 1 /\ buffer[1] \in Frame
        BY <1>1, <3>2, EmptySeq, LenProperties, ElementOfSeq
      <4>2. buffer'[1] = buffer[1] /\ sec = buffer[1].time /\ buffer[1].time # 0
        BY <1>2, <2>2, <3>2, <4>1 DEF FileBegun
      <4>3. Begun(t) = sec
        BY <4>2 DEF Begun
      <4>4. ASSUME NEW j \in DOMAIN buffer' PROVE buffer'[j].time - buffer'[1].time <= Slice
        <5>1. CASE j = Len(buffer) + 1
          BY <1>3, <1>9, <2>2, <4>2, <4>3, <5>1
        <5>2. CASE j # Len(buffer) + 1
          <6>1. j \in DOMAIN Parts[n + 1] /\ buffer'[j] = buffer[j] /\ n + 1 \in DOMAIN Parts
            <7>1. j \in 1 .. Len(buffer) + 1 /\ Len(buffer) \in Nat
              BY <1>2, <2>2
            <7>2. j \in 1 .. Len(buffer)
              BY <5>2, <7>1
            <7>3. n + 1 \in DOMAIN Parts /\ DOMAIN Parts[n + 1] = 1 .. Len(buffer)
              BY <1>2
            <7> QED BY <2>2, <7>2, <7>3
          <6> QED BY <1>2, <4>2, <6>1 DEF CutInTime
        <5> QED BY <5>1, <5>2
      <4> QED BY <2>1, <4>2, <4>3, <4>4
    <3> QED BY <3>1, <3>2
  <2>6. ASSUME n > 0 PROVE buffer'[1] = buffer[1] /\ buffer # <<>>
    <3>1. buffer # <<>>
      BY <1>2, <2>6 DEF FileBegun, n
    <3>2. Len(buffer) >= 1
      BY <1>1, <3>1, EmptySeq, LenProperties
    <3> QED BY <2>2, <3>1, <3>2
  <2>7. CutInTime'
    <3>1. ASSUME NEW i \in 1 .. n + 1
          PROVE  /\ \A j \in DOMAIN Parts'[i] : Parts'[i][j].time - Parts'[i][1].time <= Slice
                 /\ i > 1 => Parts'[i][1].time - Parts'[i - 1][1].time > Slice
      <4>1. CASE i = n + 1
        <5>1. ASSUME i > 1 PROVE Parts'[i][1].time - Parts'[i - 1][1].time > Slice
          <6>1. Parts'[i][1] = Parts[i][1] /\ Parts'[i - 1] = Parts[i - 1] /\ i \in DOMAIN Parts
            BY <1>2, <2>4, <2>6, <4>1, <5>1
          <6> QED BY <5>1, <6>1 DEF CutInTime
        <5> QED BY <2>4, <2>5, <4>1, <5>1
      <4>2. CASE i # n + 1
        <5>1. i \in 1 .. n /\ Parts'[i] = Parts[i] /\ i \in DOMAIN Parts
          BY <1>2, <2>4, <4>2
        <5>2. i > 1 => Parts'[i - 1] = Parts[i - 1]
          BY <1>2, <2>4, <5>1
        <5> QED BY <5>1, <5>2 DEF CutInTime
      <4> QED BY <4>1, <4>2
    <3> QED BY <2>4, <3>1 DEF CutInTime
  <2>8. FileBegun'
    <3>1. ASSUME NEW i \in 1 .. n + 1, NEW j \in DOMAIN Parts'[i]
          PROVE  Parts'[i][j].id \in 1 .. count'
      <4>1. CASE i = n + 1 /\ j = Len(buffer) + 1
        BY <1>1, <1>3, <2>2, <2>4, <4>1
      <4>2. CASE ~(i = n + 1 /\ j = Len(buffer) + 1)
        <5>1. i \in DOMAIN Parts /\ j \in DOMAIN Parts[i] /\ Parts'[i][j] = Parts[i][j]
          <6>1. CASE i = n + 1
            <7>1. Parts'[i] = buffer' /\ Parts[i] = buffer
              BY <1>2, <2>4, <6>1
            <7>2. j \in 1 .. Len(buffer) + 1
              BY <2>2, <7>1
            <7>3. j # Len(buffer) + 1 /\ Len(buffer) \in Nat
              BY <1>2, <4>2, <6>1
            <7>4. j \in 1 .. Len(buffer)
              BY <7>2, <7>3
            <7> QED BY <1>2, <2>2, <6>1, <7>1, <7>4
          <6>2. CASE i # n + 1
            <7>1. i \in 1 .. n
              BY <1>2, <6>2
            <7> QED BY <1>2, <2>4, <7>1
          <6> QED BY <6>1, <6>2
        <5>2. Parts[i][j].id \in 1 .. count
          BY <1>4, <5>1
        <5> QED BY <1>1, <5>1, <5>2
      <4> QED BY <4>1, <4>2
    <3>2. buffer' # <<>>
      BY <2>2, EmptySeq
    <3> QED BY <2>1, <2>4, <2>5, <3>1, <3>2 DEF FileBegun
  <2>9. FilesEndBetweenPes'
    <3>1. ASSUME NEW i \in 1 .. n + 1, i > 1 PROVE kinds'[Parts'[i][1].id] # "more"
      <4>1. Parts'[i][1] = Parts[i][1] /\ i \in DOMAIN Parts
        <5>1. CASE i = n + 1
          <6>1. n > 0
            BY <1>2, <3>1, <5>1
          <6> QED BY <1>2, <2>4, <2>6, <5>1, <6>1
        <5>2. CASE i # n + 1
          <6>1. i \in 1 .. n
            BY <1>2, <5>2
          <6> QED BY <1>2, <2>4, <6>1
        <5> QED BY <5>1, <5>2
      <4> QED BY <1>7, <3>1, <4>1
    <3> QED BY <2>4, <3>1 DEF FilesEndBetweenPes
  <2> QED BY <1>1, <1>2, <1>9, <2>1, <2>3, <2>5, <2>7, <2>8, <2>9
<1>10. CASE cut = 0 /\ ~(t - Begun(t) <= Slice)
  <2>1. /\ files' = Append(files, buffer) /\ buffer' = <<f>> /\ sec' = t /\ room' = room
    <3>1. Collect(f) /\ f.time - Begun(f.time) > Slice
      BY <1>1, <1>2, <1>3, <1>10 DEF Begun, Slice
    <3> QED BY <1>3, <3>1 DEF Collect
  <2>2. /\ buffer' \in Seq(Frame) /\ files' \in Seq(Seq(Frame))
        /\ Len(files') = n + 1 /\ Parts = files'
        /\ buffer'[1] = f /\ DOMAIN buffer' = 1 .. 1 /\ buffer' # <<>>
    BY <1>1, <1>3, <2>1, AppendProperties, LenProperties DEF n, Parts
  <2>3. SinkTypeOK'
    BY <1>1, <1>2, <2>1, <2>2 DEF SinkTypeOK
  <2>4. /\ DOMAIN Parts' = 1 .. n + 2
        /\ \A i \in 1 .. n + 1 : Parts'[i] = Parts[i]
        /\ Parts'[n + 2] = buffer'
    <3>1. (n + 1) + 1 = n + 2 /\ Len(files') = n + 1
      BY <1>2, <2>2
    <3>2. /\ DOMAIN Parts' = 1 .. Len(files') + 1
          /\ \A i \in 1 .. Len(files') : Parts'[i] = files'[i]
          /\ Parts'[Len(files') + 1] = buffer'
      BY <1>1, <2>1, <2>2, PartsOf DEF Parts
    <3>3. \A i \in 1 .. n + 1 : Parts'[i] = Parts[i]
      BY <2>2, <3>1, <3>2
    <3> QED BY <3>1, <3>2, <3>3
  <2>5. sec # 0 /\ buffer # <<>> /\ sec = buffer[1].time /\ t - sec > Slice
    <3>1. sec # 0
      BY <1>2, <1>10 DEF Begun, Slice
    <3> QED BY <1>2, <1>10, <3>1 DEF Begun, FileBegun, Slice
  <2>6. kinds'[count + 1] # "more"
    BY <1>2, <1>10, <2>5 DEF Slice
  <2>7. CutInTime'
    <3>1. ASSUME NEW i \in 1 .. n + 2
          PROVE  /\ \A j \in DOMAIN Parts'[i] : Parts'[i][j].time - Parts'[i][1].time <= Slice
                 /\ i > 1 => Parts'[i][1].time - Parts'[i - 1][1].time > Slice
      <4>1. CASE i = n + 2
        <5>1. Parts'[i - 1] = buffer /\ Parts'[i] = buffer'
          BY <1>2, <2>4, <4>1
        <5>2. /\ Parts'[i][1].time = t /\ Parts'[i - 1][1].time = sec
              /\ DOMAIN Parts'[i] = 1 .. 1
          BY <1>3, <2>2, <2>5, <5>1
        <5> QED BY <1>2, <2>5, <5>2 DEF Slice
      <4>2. CASE i # n + 2
        <5>1. i \in 1 .. n + 1 /\ Parts'[i] = Parts[i] /\ i \in DOMAIN Parts
          BY <1>2, <2>4, <4>2
        <5>2. i > 1 => Parts'[i - 1] = Parts[i - 1]
          BY <1>2, <2>4, <5>1
        <5> QED BY <5>1, <5>2 DEF CutInTime
      <4> QED BY <4>1, <4>2
    <3> QED BY <2>4, <3>1 DEF CutInTime
  <2>8. FileBegun'
    <3>1. ASSUME NEW i \in 1 .. n + 2, NEW j \in DOMAIN Parts'[i]
          PROVE  Parts'[i][j].id \in 1 .. count'
      <4>1. CASE i = n + 2
        BY <1>1, <1>3, <2>2, <2>4, <4>1
      <4>2. CASE i # n + 2
        <5>1. i \in DOMAIN Parts /\ Parts'[i] = Parts[i]
          BY <1>2, <2>4, <4>2
        <5>2. Parts[i][j].id \in 1 .. count
          BY <1>4, <5>1
        <5> QED BY <1>1, <5>1, <5>2
      <4> QED BY <4>1, <4>2
    <3>2. \A i \in DOMAIN files' : files'[i] # <<>>
      <4> SUFFICES ASSUME NEW i \in 1 .. n + 1 PROVE Parts[i] # <<>>
        BY <1>2, <2>2
      <4>1. CASE i > 1
        BY <1>2, <1>6, <4>1
      <4>2. CASE i = 1 /\ n = 0
        BY <1>2, <2>5, <4>2
      <4>3. CASE i = 1 /\ n > 0
        <5>1. i \in 1 .. n /\ DOMAIN files = 1 .. n
          BY <1>1, <1>2, <4>3, LenProperties DEF n
        <5> QED BY <1>2, <5>1 DEF FileBegun
      <4> QED BY <1>2, <4>1, <4>2, <4>3
    <3>3. sec' = buffer'[1].time
      BY <1>3, <2>1, <2>2
    <3> QED BY <2>2, <2>4, <3>1, <3>2, <3>3 DEF FileBegun
  <2>9. FilesEndBetweenPes'
    <3>1. ASSUME NEW i \in 1 .. n + 2, i > 1 PROVE kinds'[Parts'[i][1].id] # "more"
      <4>1. CASE i = n + 2
        BY <1>3, <2>2, <2>4, <2>6, <4>1
      <4>2. CASE i # n + 2
        <5>1. i \in 1 .. n + 1
          BY <1>2, <4>2
        <5> QED BY <1>2, <1>7, <2>4, <3>1, <5>1
      <4> QED BY <4>1, <4>2
    <3> QED BY <2>4, <3>1 DEF FilesEndBetweenPes
  <2> QED BY <1>1, <1>2, <1>10, <2>1, <2>3, <2>7, <2>8, <2>9 DEF Slice
<1> QED BY <1>8, <1>9, <1>10

LEMMA SinkStays ==
    ASSUME SinkTypeOK, FileBegun, CutInTime, FilesEndBetweenPes, UNCHANGED sinkVars,
           \A k \in 1 .. count : kinds'[k] = kinds[k]
    PROVE  SinkTypeOK' /\ FileBegun' /\ CutInTime' /\ FilesEndBetweenPes'
<1>1. UNCHANGED <<asking, room, sec, buffer, files, count>> /\ Parts' = Parts
  BY DEF sinkVars, Parts
<1>2. SinkTypeOK' /\ CutInTime'
  BY <1>1 DEF SinkTypeOK, CutInTime
<1>3. FileBegun'
  BY <1>1 DEF FileBegun
<1>4. ASSUME NEW i \in DOMAIN Parts, i > 1 PROVE kinds'[Parts[i][1].id] # "more"
  <2>1. /\ Len(files) \in Nat /\ DOMAIN Parts = 1 .. Len(files) + 1 /\ Parts \in Seq(Seq(Frame))
        /\ DOMAIN files = 1 .. Len(files)
        /\ \A k \in 1 .. Len(files) : Parts[k] = files[k]
        /\ Parts[Len(files) + 1] = buffer
    BY PartsIs
  <2>2. Parts[i] # <<>>
    <3>1. CASE i = Len(files) + 1
      <4>1. files # <<>>
        BY <1>4, <2>1, <3>1
      <4> QED BY <2>1, <3>1, <4>1 DEF FileBegun
    <3>2. CASE i # Len(files) + 1
      <4>1. i \in 1 .. Len(files)
        BY <2>1, <3>2
      <4> QED BY <2>1, <4>1 DEF FileBegun
    <3> QED BY <3>1, <3>2
  <2>3. Parts[i] \in Seq(Frame)
    BY <2>1
  <2>4. 1 \in DOMAIN Parts[i]
    BY <2>2, <2>3, EmptySeq, LenProperties
  <2>5. Parts[i][1].id \in 1 .. count
    BY <2>4 DEF FileBegun
  <2> QED BY <1>4, <2>5 DEF FilesEndBetweenPes
<1> QED BY <1>1, <1>2, <1>3, <1>4 DEF FilesEndBetweenPes

-----------------------------------------------------------------------------
(* The multiplexor.                                                        *)

LEMMA PipeConsts ==
    /\ HeaderSize \in Nat /\ LowWater \in Nat /\ MaxInput \in Nat /\ PacketSize \in Nat
    /\ PacketData \in Nat /\ PcrSize \in Nat /\ Batch \in Nat \ {0}
    /\ HeaderSize < LowWater /\ LowWater <= MaxInput
    /\ PcrSize < PacketData /\ PacketData < PacketSize
    /\ InputBufferSize = HeaderSize + 2 * MaxInput /\ InputBufferSize \in Nat
    /\ FrameSizes \subseteq Nat \ {0} /\ NumFrames \in Nat
<1>1. {HeaderSize, LowWater, MaxInput, PacketSize, PacketData, PcrSize} \subseteq Nat
  BY PacketsAssumption
<1>2. {Batch, PatPeriod, PmtPeriod} \subseteq Nat \ {0}
  BY PacketsAssumption
<1>3. HeaderSize \in Nat /\ LowWater \in Nat /\ MaxInput \in Nat /\ PacketSize \in Nat
      /\ PacketData \in Nat /\ PcrSize \in Nat /\ Batch \in Nat \ {0}
  BY <1>1, <1>2
<1>4. InputBufferSize = HeaderSize + 2 * MaxInput /\ InputBufferSize \in Nat
  BY <1>3 DEF InputBufferSize
<1> QED BY <1>3, <1>4, PacketsAssumption

\* So many packets as PerBuffer says are needed for LowWater bytes.
LEMMA PerBufferIs ==
    /\ PerBuffer \in Nat \ {0}
    /\ \A j \in Nat : LowWater + PcrSize <= j * PacketData => PerBuffer <= j
<1> DEFINE x == LowWater + PcrSize - 1
           q == x \div PacketData
           m == x % PacketData
<1>1. /\ x \in Nat /\ x \in Int /\ PacketData \in Nat \ {0}
      /\ LowWater - (PacketData - PcrSize) + PacketData - 1 = x
      /\ x + 1 = LowWater + PcrSize
  BY PipeConsts
<1>2. PerBuffer = 1 + q
  BY <1>1 DEF PerBuffer
<1> HIDE DEF x
<1>3. q \in Int /\ m \in 0 .. PacketData - 1 /\ x = q * PacketData + m
  BY <1>1, DivDef
<1> HIDE DEF q, m
<1>4. q >= 0
  BY <1>1, <1>3
<1>5. ASSUME NEW j \in Nat, x + 1 <= j * PacketData PROVE 1 + q <= j
  BY <1>1, <1>3, <1>4, <1>5
<1> QED BY <1>1, <1>2, <1>3, <1>4, <1>5

\* A frame is appended to the bytes b of the record.
LEMMA FrameDelivered ==
    ASSUME PipeTypeOK, InputFits, backlog # <<>>,
           NEW b \in Seq(Bytes), HeaderSize + Len(b) <= InputBufferSize,
           NEW flag \in BOOLEAN, DeliverFrame(b, flag)
    PROVE  /\ backlog' \in Seq([time : Times, bytes : Seq(Bytes)])
           /\ \A i \in DOMAIN backlog' : backlog'[i].bytes # <<>>
           /\ waiting' = FALSE /\ background' = FALSE
           /\ pes' \in Seq(Bytes) /\ HeaderSize + Len(pes') <= InputBufferSize
           /\ Len(pes') >= Len(b)
           /\ HeaderSize + Len(b) < LowWater => Len(pes') >= Len(b) + 1
           /\ cutOff' \subseteq Bytes /\ time' \in Times
           /\ flag => pc' = "await" /\ depth' = depth + 1
           /\ ~flag => pc' = "idle" /\ depth' = 0
<1> DEFINE f == Head(backlog)
           space == InputBufferSize - HeaderSize - Len(b)
           fits == IF Len(f.bytes) > space THEN space ELSE Len(f.bytes)
           R == [time : Times, bytes : Seq(Bytes)]
<1>1. /\ backlog' = Tail(backlog) /\ waiting' = FALSE
      /\ pes' = b \o SubSeq(f.bytes, 1, fits)
      /\ cutOff' = cutOff \cup ToSet(SubSeq(f.bytes, fits + 1, Len(f.bytes)))
      /\ time' = f.time /\ Retry(flag)
  BY DEF DeliverFrame
<1>2. backlog \in Seq(R) /\ cutOff \subseteq Bytes
  BY DEF PipeTypeOK
<1> HIDE DEF R
<1>3. /\ f = backlog[1] /\ 1 \in DOMAIN backlog /\ f \in R /\ Tail(backlog) \in Seq(R)
      /\ DOMAIN backlog = 1 .. Len(backlog) /\ DOMAIN Tail(backlog) = 1 .. Len(backlog) - 1
      /\ \A i \in 1 .. Len(backlog) - 1 : Tail(backlog)[i] = backlog[i + 1]
      /\ Len(backlog) \in Nat
  BY <1>2, HeadTailProperties, LenProperties, EmptySeq
<1>4. f.bytes \in Seq(Bytes) /\ f.time \in Times /\ f.bytes # <<>>
  BY <1>3 DEF R, InputFits
<1> HIDE DEF f
<1>5. /\ Len(f.bytes) \in Nat /\ Len(f.bytes) # 0 /\ Len(b) \in Nat
      /\ \A i \in 1 .. Len(f.bytes) : f.bytes[i] \in Bytes
  BY <1>4, LenProperties, ElementOfSeq, EmptySeq
<1>6. /\ space \in Nat /\ fits \in Nat /\ fits <= space /\ fits <= Len(f.bytes)
      /\ HeaderSize + Len(b) < LowWater => fits >= 1
      /\ space = InputBufferSize - HeaderSize - Len(b)
  BY <1>5, PipeConsts
<1> HIDE DEF space, fits
<1>7. SubSeq(f.bytes, 1, fits) \in Seq(Bytes) /\ Len(SubSeq(f.bytes, 1, fits)) = fits
  <2>1. \A i \in 1 .. fits : f.bytes[i] \in Bytes
    BY <1>5, <1>6
  <2> QED BY <1>6, <2>1, SubSeqProperties
<1>8. SubSeq(f.bytes, fits + 1, Len(f.bytes)) \in Seq(Bytes)
  <2>1. \A i \in fits + 1 .. Len(f.bytes) : f.bytes[i] \in Bytes
    BY <1>5, <1>6
  <2> QED BY <1>5, <1>6, <2>1, SubSeqProperties
<1>9. pes' \in Seq(Bytes) /\ Len(pes') = Len(b) + fits
  BY <1>1, <1>7, ConcatProperties
<1>10. cutOff' \subseteq Bytes
  <2>1. ToSet(SubSeq(f.bytes, fits + 1, Len(f.bytes))) \subseteq Bytes
    BY <1>8, ElementOfSeq, LenProperties DEF ToSet
  <2> QED BY <1>1, <1>2, <2>1
<1>11. backlog' \in Seq(R) /\ \A i \in DOMAIN backlog' : backlog'[i].bytes # <<>>
  <2>1. \A i \in 1 .. Len(backlog) - 1 : i + 1 \in DOMAIN backlog
    BY <1>3
  <2> QED BY <1>1, <1>3, <2>1 DEF InputFits
<1>12. HeaderSize + Len(pes') <= InputBufferSize /\ Len(pes') >= Len(b)
       /\ (HeaderSize + Len(b) < LowWater => Len(pes') >= Len(b) + 1)
  BY <1>5, <1>6, <1>9, PipeConsts
<1> QED BY <1>1, <1>4, <1>9, <1>10, <1>11, <1>12 DEF Retry, R

\* The numbers of the chain, and the remainder that counts a batch's packets.
LEMMA PipeTypes ==
    ASSUME PipeTypeOK
    PROVE  /\ packets \in Nat /\ used \in Nat /\ filled \in Nat /\ depth \in Nat
           /\ used <= filled /\ filled <= InputBufferSize
           /\ pes \in Seq(Bytes) /\ Len(pes) \in Nat
           /\ packets % Batch \in Nat /\ packets % Batch <= Batch - 1
           /\ LowWater - HeaderSize \in Nat /\ LowWater - HeaderSize >= 1
<1>1. packets = Len(kinds) /\ kinds \in Seq({"PAT", "PMT", "first", "more"})
  BY DEF PipeTypeOK
<1>2. packets \in Nat
  BY <1>1, LenProperties
<1>3. used \in 0 .. filled /\ filled \in 0 .. InputBufferSize /\ depth \in Nat
      /\ pes \in Seq(Bytes)
  BY DEF PipeTypeOK
<1>4. used \in Nat /\ filled \in Nat /\ used <= filled /\ filled <= InputBufferSize
  BY <1>3, PipeConsts
<1>5. packets % Batch \in 0 .. Batch - 1
  <2>1. packets \in Int /\ Batch \in Nat \ {0}
    BY <1>2, PipeConsts
  <2> QED BY <2>1, DivDef
<1>6. packets % Batch \in Nat /\ packets % Batch <= Batch - 1
  BY <1>5, PipeConsts
<1>7. LowWater - HeaderSize \in Nat /\ LowWater - HeaderSize >= 1
  BY PipeConsts
<1>8. Len(pes) \in Nat
  BY <1>3, LenProperties
<1> QED BY <1>2, <1>3, <1>4, <1>6, <1>7, <1>8

\* The bytes between two places of the buffer are a sequence of bytes.
LEMMA BetweenIs ==
    ASSUME PipeTypeOK, NEW from \in Nat, NEW to \in Nat, to <= HeaderSize + Len(pes)
    PROVE  Between(from, to) \in Seq(Bytes)
<1> DEFINE lo == IF from < HeaderSize THEN 1 ELSE from - HeaderSize + 1
           hi == to - HeaderSize
<1>1. pes \in Seq(Bytes) /\ Len(pes) \in Nat /\ HeaderSize \in Nat
  BY PipeTypes, PipeConsts
<1>2. lo \in Nat /\ lo >= 1 /\ hi \in Int /\ hi <= Len(pes)
  BY <1>1
<1> HIDE DEF lo, hi
<1>3. \A i \in lo .. hi : pes[i] \in Bytes
  <2>1. \A i \in lo .. hi : i \in 1 .. Len(pes)
    BY <1>1, <1>2
  <2> QED BY <1>1, <2>1, ElementOfSeq
<1>4. SubSeq(pes, lo, hi) \in Seq(Bytes)
  BY <1>2, <1>3, SubSeqProperties
<1> QED BY <1>4 DEF Between, lo, hi

\* What a packet takes of the buffer and leaves there.
LEMMA PacketCut ==
    ASSUME PipeInv, DeliverPacket
    PROVE  /\ kinds' \in Seq({"PAT", "PMT", "first", "more"}) /\ Len(kinds') = packets + 1
           /\ \A k \in 1 .. packets : kinds'[k] = kinds[k]
           /\ payload' \in Seq(Seq(Bytes)) /\ Len(payload') = packets + 1
           /\ announced' \in BOOLEAN
           /\ used' \in Nat /\ used' >= used /\ used' <= filled
           /\ used' <= used + PacketData
           /\ used = 0 => used' = 0 \/ used' + PcrSize <= PacketData
           /\ room < PacketSize => used' = used
           /\ kinds'[packets + 1] = "more" => used > 0
           /\ used = 0 /\ used' > 0 => kinds'[packets + 1] = "first"
<1>1. /\ PipeTypeOK /\ used < filled /\ InputFits
      /\ IF PatDue \/ PmtDue THEN SendTable ELSE SendData
  BY DEF PipeInv, DeliverPacket
<1>2. /\ used \in Nat /\ filled \in Nat /\ packets \in Nat /\ room \in Nat
      /\ filled = HeaderSize + Len(pes) /\ Len(pes) \in Nat
      /\ kinds \in Seq({"PAT", "PMT", "first", "more"}) /\ payload \in Seq(Seq(Bytes))
      /\ packets = Len(kinds) /\ packets = Len(payload) /\ announced \in BOOLEAN
  <2>1. room \in Nat
    BY <1>1 DEF PipeTypeOK, SinkTypeOK
  <2>2. filled = HeaderSize + Len(pes)
    BY <1>1 DEF InputFits
  <2>3. /\ kinds \in Seq({"PAT", "PMT", "first", "more"}) /\ payload \in Seq(Seq(Bytes))
        /\ packets = Len(kinds) /\ packets = Len(payload) /\ announced \in BOOLEAN
    BY <1>1 DEF PipeTypeOK
  <2> QED BY <1>1, <2>1, <2>2, <2>3, PipeTypes
<1>3. ASSUME NEW e \in {"PAT", "PMT", "first", "more"}, kinds' = Append(kinds, e)
      PROVE  /\ kinds' \in Seq({"PAT", "PMT", "first", "more"}) /\ Len(kinds') = packets + 1
             /\ \A k \in 1 .. packets : kinds'[k] = kinds[k]
             /\ kinds'[packets + 1] = e
  <2> DEFINE S == {"PAT", "PMT", "first", "more"}
  <2>1. kinds \in Seq(S) /\ e \in S /\ Len(kinds) = packets
    BY <1>2
  <2> HIDE DEF S
  <2>2. /\ kinds' \in Seq(S) /\ Len(kinds') = packets + 1
        /\ \A k \in 1 .. packets : kinds'[k] = kinds[k]
        /\ kinds'[packets + 1] = e
    BY <1>3, <2>1, AppendProperties
  <2> QED BY <2>2 DEF S
<1>4. ASSUME NEW e \in Seq(Bytes), payload' = Append(payload, e)
      PROVE  payload' \in Seq(Seq(Bytes)) /\ Len(payload') = packets + 1
  BY <1>2, <1>4, AppendProperties
<1>5. CASE SendTable
  <2>1. /\ kinds' = Append(kinds, IF PatDue THEN "PAT" ELSE "PMT")
        /\ announced' = (announced \/ ~PatDue) /\ payload' = Append(payload, <<>>)
        /\ used' = used
    BY <1>5 DEF SendTable
  <2>2. PICK e \in {"PAT", "PMT"} : kinds' = Append(kinds, e)
    BY <2>1
  <2>3. /\ kinds' \in Seq({"PAT", "PMT", "first", "more"}) /\ Len(kinds') = packets + 1
        /\ \A k \in 1 .. packets : kinds'[k] = kinds[k]
        /\ kinds'[packets + 1] # "more"
    <3>1. e \in {"PAT", "PMT", "first", "more"} /\ e # "more"
      OBVIOUS
    <3> QED BY <1>3, <2>2, <3>1
  <2>4. payload' \in Seq(Seq(Bytes)) /\ Len(payload') = packets + 1
    <3>1. <<>> \in Seq(Bytes)
      OBVIOUS
    <3> QED BY <1>4, <2>1, <3>1
  <2>5. announced' \in BOOLEAN
    BY <2>1
  <2>6. /\ used' \in Nat /\ used' >= used /\ used' <= filled /\ used' <= used + PacketData
        /\ used = 0 => used' = 0
    <3>1. used < filled
      BY <1>1
    <3> QED BY <1>2, <2>1, <3>1, PipeConsts
  <2>7. ~(used = 0 /\ used' > 0) /\ (used = 0 => used' = 0) /\ (room < PacketSize => used' = used)
    <3>1. used' = used
      BY <2>1
    <3> QED BY <1>2, <3>1
  <2> QED BY <2>3, <2>4, <2>5, <2>6, <2>7
<1>6. CASE SendData
  <2>1. /\ kinds' = Append(kinds, IF used = 0 THEN "first" ELSE "more")
        /\ used' = used + Taken /\ payload' = Append(payload, Between(used, used'))
        /\ announced' = announced
    BY <1>6 DEF SendData
  <2>2. /\ Taken \in Nat /\ Taken <= filled - used /\ Taken <= PacketData
        /\ used = 0 => Taken = 0 \/ Taken <= PacketData - PcrSize
        /\ room < PacketSize => Taken = 0
    <3> DEFINE space == IF used = 0 THEN PacketData - PcrSize ELSE PacketData
               rest == filled - used
    <3>1. /\ space \in Nat /\ rest \in Nat /\ space <= PacketData
          /\ used = 0 => space = PacketData - PcrSize
      BY <1>1, <1>2, PipeConsts
    <3>2. Taken = IF room < PacketSize THEN 0 ELSE IF rest < space THEN rest ELSE space
      BY DEF Taken
    <3> HIDE DEF space
    <3>3. CASE room < PacketSize
      BY <1>2, <3>1, <3>2, <3>3, PipeConsts
    <3>4. CASE ~(room < PacketSize) /\ rest < space
      BY <3>1, <3>2, <3>4, PipeConsts
    <3>5. CASE ~(room < PacketSize) /\ ~(rest < space)
      BY <3>1, <3>2, <3>5, PipeConsts
    <3> QED BY <3>3, <3>4, <3>5
  <2> DEFINE e == IF used = 0 THEN "first" ELSE "more"
  <2>3. /\ kinds' \in Seq({"PAT", "PMT", "first", "more"}) /\ Len(kinds') = packets + 1
        /\ \A k \in 1 .. packets : kinds'[k] = kinds[k]
        /\ kinds'[packets + 1] = e
    <3>1. e \in {"PAT", "PMT", "first", "more"}
      OBVIOUS
    <3> QED BY <1>3, <2>1, <3>1
  <2>4. /\ used' \in Nat /\ used' >= used /\ used' <= filled /\ used' <= used + PacketData
        /\ used = 0 => used' = 0 \/ used' + PcrSize <= PacketData
        /\ room < PacketSize => used' = used
    BY <1>2, <2>1, <2>2, PipeConsts
  <2>5. payload' \in Seq(Seq(Bytes)) /\ Len(payload') = packets + 1
    <3>1. used' <= HeaderSize + Len(pes)
      BY <1>2, <2>4
    <3>2. Between(used, used') \in Seq(Bytes)
      BY <1>1, <1>2, <2>4, <3>1, BetweenIs
    <3> QED BY <1>4, <2>1, <3>2
  <2>6. /\ kinds'[packets + 1] = "more" => used > 0
        /\ used = 0 => kinds'[packets + 1] = "first"
    BY <1>2, <2>3
  <2> QED BY <1>2, <2>1, <2>3, <2>4, <2>5, <2>6
<1> QED BY <1>1, <1>5, <1>6

-----------------------------------------------------------------------------
(* The actions of the chain.                                               *)

LEMMA PipeInitInv == PipeInit => PipeInv
<1> SUFFICES ASSUME PipeInit PROVE PipeInv
  OBVIOUS
<1>1. /\ SinkInit /\ posted = <<"build", "describe">> /\ built = FALSE /\ described = FALSE
      /\ backlog = <<>> /\ triggered = FALSE /\ waiting = FALSE /\ pes = <<>> /\ inUse = FALSE
      /\ background = FALSE /\ filled = 0 /\ used = 0 /\ packets = 0
      /\ announced = FALSE /\ time = 0 /\ missing = 0 /\ task = FALSE
      /\ pc = "idle" /\ depth = 0 /\ arrived = <<>> /\ cutOff = {} /\ kinds = <<>>
      /\ payload = <<>>
  BY DEF PipeInit
<1>2. /\ asking = FALSE /\ room \in Rooms /\ sec = 0 /\ count = 0 /\ buffer = <<>>
      /\ files = <<>>
  BY <1>1 DEF SinkInit
<1>3. SinkTypeOK
  <2>1. room \in Nat
    BY <1>2, TimesAssumption
  <2>2. buffer \in Seq(Frame) /\ files \in Seq(Seq(Frame))
    BY <1>2
  <2> QED BY <1>2, <2>1, <2>2 DEF SinkTypeOK
<1>4. DOMAIN Parts = 1 .. 1 /\ Parts[1] = <<>>
  BY <1>2 DEF Parts
<1>5. PipeTypeOK
  <2>1. posted \in Seq({"build", "describe"})
    BY <1>1
  <2>2. Len(pes) = 0 /\ HeaderSize + Len(pes) <= InputBufferSize /\ filled \in 0 .. InputBufferSize
    BY <1>1, PipeConsts
  <2>3. packets = Len(kinds) /\ packets = Len(payload)
    BY <1>1
  <2>4. /\ backlog \in Seq([time : Times, bytes : Seq(Bytes)]) /\ pes \in Seq(Bytes)
        /\ kinds \in Seq({"PAT", "PMT", "first", "more"}) /\ payload \in Seq(Seq(Bytes))
        /\ arrived \in Seq(FrameSizes)
    BY <1>1
  <2>5. used \in 0 .. filled /\ depth \in Nat
    BY <1>1
  <2> QED BY <1>1, <1>3, <2>1, <2>2, <2>3, <2>4, <2>5 DEF PipeTypeOK
<1>6. Begins /\ OneCall /\ InputFits /\ AllDelivered
  <2>1. DOMAIN backlog = {}
    BY <1>1
  <2>2. Begins
    BY <1>1, <1>2 DEF Begins
  <2>3. InputFits
    BY <1>1, <2>1 DEF InputFits
  <2> QED BY <1>1, <1>2, <2>2, <2>3 DEF OneCall, AllDelivered
<1>7. FileBegun /\ CutInTime /\ FilesEndBetweenPes
  BY <1>2, <1>4 DEF FileBegun, CutInTime, FilesEndBetweenPes
<1>8. SameFile
  BY <1>1 DEF SameFile
<1>9. Nested(0, 0, 0)
  <2>1. packets % Batch \in 0 .. Batch - 1
    BY <1>1, PipeConsts, DivDef
  <2> QED BY <1>1, <2>1, PipeConsts, PerBufferIs DEF Nested
<1> QED BY <1>1, <1>3, <1>5, <1>6, <1>7, <1>8, <1>9 DEF PipeInv, StackInv

LEMMA BuildKeeps == ASSUME PipeInv, Build PROVE PipeInv'
<1>1. /\ pc = "idle" /\ posted # <<>> /\ Head(posted) = "build" /\ posted' = Tail(posted)
      /\ built' = TRUE /\ pc' = "next" /\ asking' = TRUE
      /\ UNCHANGED <<room, sec, buffer, files, count>>
      /\ UNCHANGED <<described, depth>>
      /\ UNCHANGED <<backlog, triggered, waiting, pes, inUse>>
      /\ UNCHANGED <<background, filled, used, packets, announced, time, missing, task>>
      /\ UNCHANGED <<arrived, cutOff, kinds, payload>>
  BY DEF Build, Runs, Play, feedVars, recordVars, muxVars, historyVars
<1>2. /\ PipeTypeOK /\ Begins /\ OneCall /\ InputFits /\ AllDelivered
      /\ FileBegun /\ CutInTime /\ SameFile /\ FilesEndBetweenPes /\ StackInv
  BY DEF PipeInv
<1>3. ~built /\ ~described /\ posted = <<"build", "describe">> /\ posted' = <<"describe">>
  <2>1. CASE built
    BY <1>1, <1>2, <2>1 DEF Begins
  <2>2. CASE ~built
    BY <1>1, <1>2, <2>2 DEF Begins
  <2> QED BY <2>1, <2>2
<1>4. ~waiting /\ ~task /\ filled = 0 /\ used = 0 /\ depth = 0 /\ depth \in Nat
  BY <1>1, <1>2, <1>3 DEF OneCall, PipeTypeOK, StackInv
<1>5. SinkTypeOK' /\ Parts' = Parts
  BY <1>1, <1>2 DEF SinkTypeOK, PipeTypeOK, Parts
<1>6. PipeTypeOK'
  <2>1. posted' \in Seq({"build", "describe"})
    BY <1>3
  <2> QED BY <1>1, <1>2, <1>5, <2>1 DEF PipeTypeOK
<1>7. Begins' /\ OneCall' /\ InputFits' /\ AllDelivered'
  BY <1>1, <1>2, <1>3, <1>4 DEF Begins, OneCall, InputFits, AllDelivered
<1>8. FileBegun' /\ CutInTime' /\ FilesEndBetweenPes'
  BY <1>1, <1>2, <1>5 DEF FileBegun, CutInTime, FilesEndBetweenPes
<1>9. SameFile'
  BY <1>1, <1>2, <1>4 DEF SameFile, PipeTypeOK
<1>10. Nested(0, 0, 0)'
  <2>1. packets \in Nat
    BY <1>2, LenProperties DEF PipeTypeOK
  <2>2. packets % Batch \in 0 .. Batch - 1
    BY <2>1, PipeConsts, DivDef
  <2> QED BY <1>1, <1>4, <2>2, PipeConsts, PerBufferIs DEF Nested
<1> QED BY <1>1, <1>6, <1>7, <1>8, <1>9, <1>10 DEF PipeInv, StackInv

LEMMA DescribeKeeps == ASSUME PipeInv, Describe PROVE PipeInv'
<1>1. /\ pc = "idle" /\ posted # <<>> /\ Head(posted) = "describe" /\ posted' = Tail(posted)
      /\ described' = TRUE
      /\ UNCHANGED sinkVars
      /\ UNCHANGED <<asking, room, sec, buffer, files, count>>
      /\ UNCHANGED <<built, depth, pc>>
      /\ UNCHANGED <<backlog, triggered, waiting, pes, inUse>>
      /\ UNCHANGED <<background, filled, used, packets, announced, time, missing, task>>
      /\ UNCHANGED <<arrived, cutOff, kinds, payload>>
  BY DEF Describe, Runs, sinkVars, feedVars, recordVars, muxVars, historyVars
<1>2. /\ PipeTypeOK /\ Begins /\ OneCall /\ InputFits /\ AllDelivered
      /\ FileBegun /\ CutInTime /\ SameFile /\ FilesEndBetweenPes /\ StackInv
  BY DEF PipeInv
<1>3. built /\ ~described /\ posted' = <<>>
  <2>1. CASE built
    BY <1>1, <1>2, <2>1 DEF Begins
  <2>2. CASE ~built
    BY <1>1, <1>2, <2>2 DEF Begins
  <2> QED BY <2>1, <2>2
<1>4. SinkTypeOK' /\ FileBegun' /\ CutInTime' /\ FilesEndBetweenPes'
  BY <1>1, <1>2, SinkStays DEF PipeTypeOK
<1>5. PipeTypeOK'
  BY <1>1, <1>2, <1>3, <1>4 DEF PipeTypeOK
<1>6. Begins' /\ OneCall' /\ InputFits' /\ AllDelivered'
  BY <1>1, <1>2, <1>3 DEF Begins, OneCall, InputFits, AllDelivered
<1>7. SameFile'
  BY <1>1, <1>2 DEF SameFile
<1>8. StackInv'
  BY <1>1, <1>2 DEF StackInv, Nested
<1> QED BY <1>4, <1>5, <1>6, <1>7, <1>8 DEF PipeInv

LEMMA OnFrameKeeps ==
    ASSUME PipeInv, NEW t \in Times, NEW size \in FrameSizes, OnFrame(t, size)
    PROVE  PipeInv'
<1> DEFINE k == Len(arrived')
           f == [time |-> t, bytes |-> [i \in 1 .. size |-> <<k, i>>]]
           R == [time : Times, bytes : Seq(Bytes)]
<1>1. /\ pc = "idle" /\ Len(arrived) < NumFrames
      /\ arrived' = Append(arrived, size) /\ backlog' = Append(backlog, f)
      /\ triggered' = TRUE
      /\ UNCHANGED sinkVars
      /\ UNCHANGED <<asking, room, sec, buffer, files, count>>
      /\ UNCHANGED <<posted, built, described, depth, pc>>
      /\ UNCHANGED <<waiting, pes, inUse>>
      /\ UNCHANGED <<background, filled, used, packets, announced, time, missing, task>>
      /\ UNCHANGED <<cutOff, kinds, payload>>
  BY DEF OnFrame, sinkVars, loopVars, recordVars, muxVars
<1>2. /\ PipeTypeOK /\ Begins /\ OneCall /\ InputFits /\ AllDelivered
      /\ FileBegun /\ CutInTime /\ SameFile /\ FilesEndBetweenPes /\ StackInv
  BY DEF PipeInv
<1>3. SinkTypeOK' /\ FileBegun' /\ CutInTime' /\ FilesEndBetweenPes'
  BY <1>1, <1>2, SinkStays DEF PipeTypeOK
<1>4. arrived' \in Seq(FrameSizes) /\ k \in 1 .. NumFrames
  BY <1>1, <1>2, AppendProperties, LenProperties, PipeConsts DEF PipeTypeOK
<1> HIDE DEF k
<1>5. f \in R /\ f.bytes # <<>>
  <2>1. size \in Nat /\ size # 0
    BY PipeConsts
  <2>2. [i \in 1 .. size |-> <<k, i>>] \in [1 .. size -> Bytes]
    BY <1>4, <2>1 DEF Bytes
  <2>3. f.bytes \in Seq(Bytes) /\ Len(f.bytes) = size
    BY <2>1, <2>2
  <2> QED BY <2>1, <2>3, EmptySeq
<1>6. backlog \in Seq(R)
  BY <1>2 DEF PipeTypeOK
<1> HIDE DEF f, R
<1>7. backlog' \in Seq(R) /\ \A i \in DOMAIN backlog' : backlog'[i].bytes # <<>>
  <2>1. /\ backlog' \in Seq(R) /\ DOMAIN backlog' = 1 .. Len(backlog) + 1
        /\ Len(backlog) \in Nat /\ DOMAIN backlog = 1 .. Len(backlog)
        /\ \A i \in 1 .. Len(backlog) : backlog'[i] = backlog[i]
        /\ backlog'[Len(backlog) + 1] = f
    BY <1>1, <1>5, <1>6, AppendProperties, LenProperties
  <2>2. \A i \in 1 .. Len(backlog) + 1 : i \in 1 .. Len(backlog) \/ i = Len(backlog) + 1
    BY <2>1
  <2> QED BY <1>2, <1>5, <2>1, <2>2 DEF InputFits
<1>8. PipeTypeOK'
  <2>1. backlog' \in Seq([time : Times, bytes : Seq(Bytes)])
    BY <1>7 DEF R
  <2> QED BY <1>1, <1>2, <1>3, <1>4, <2>1 DEF PipeTypeOK
<1>9. Begins' /\ OneCall' /\ AllDelivered'
  BY <1>1, <1>2 DEF Begins, OneCall, AllDelivered
<1>10. InputFits'
  BY <1>1, <1>2, <1>7 DEF InputFits
<1>11. SameFile'
  BY <1>1, <1>2 DEF SameFile
<1>12. StackInv'
  BY <1>1, <1>2 DEF StackInv, Nested
<1> QED BY <1>3, <1>8, <1>9, <1>10, <1>11, <1>12 DEF PipeInv

LEMMA DeliverFrame0Keeps == ASSUME PipeInv, DeliverFrame0 PROVE PipeInv'
<1>1. /\ pc = "idle" /\ triggered' = FALSE
      /\ UNCHANGED sinkVars
      /\ UNCHANGED <<asking, room, sec, buffer, files, count>>
      /\ UNCHANGED <<posted, built, described>>
      /\ UNCHANGED <<inUse, filled, used, packets, announced, missing, task, arrived,
                     kinds, payload>>
      /\ \/ waiting /\ backlog # <<>> /\ DeliverFrame(pes, background)
         \/ UNCHANGED <<backlog, waiting, pes, cutOff, time, background, pc, depth>>
  BY DEF DeliverFrame0, sinkVars, loopVars
<1>2. /\ PipeTypeOK /\ Begins /\ OneCall /\ InputFits /\ AllDelivered
      /\ FileBegun /\ CutInTime /\ SameFile /\ FilesEndBetweenPes /\ StackInv
  BY DEF PipeInv
<1>3. SinkTypeOK' /\ FileBegun' /\ CutInTime' /\ FilesEndBetweenPes'
  BY <1>1, <1>2, SinkStays DEF PipeTypeOK
<1>4. Begins' /\ AllDelivered'
  BY <1>1, <1>2 DEF Begins, AllDelivered
<1>5. CASE UNCHANGED <<backlog, waiting, pes, cutOff, time, background, pc, depth>>
  <2>1. PipeTypeOK'
    BY <1>1, <1>2, <1>3, <1>5 DEF PipeTypeOK
  <2>2. OneCall' /\ InputFits' /\ SameFile'
    BY <1>1, <1>2, <1>5 DEF OneCall, InputFits, SameFile
  <2>3. StackInv'
    BY <1>1, <1>2, <1>5 DEF StackInv, Nested
  <2> QED BY <1>3, <1>4, <2>1, <2>2, <2>3 DEF PipeInv
<1>6. CASE waiting /\ backlog # <<>> /\ DeliverFrame(pes, background)
  <2>1. built /\ ~task /\ background = TRUE /\ depth = 0 /\ ~(used < filled)
        /\ packets \in Nat
    <3>1. waiting \in BOOLEAN /\ packets \in Nat
      BY <1>2, LenProperties DEF PipeTypeOK
    <3> QED BY <1>1, <1>2, <1>6, <3>1 DEF OneCall, StackInv, InputFits
  <2>2. pes \in Seq(Bytes) /\ HeaderSize + Len(pes) <= InputBufferSize
    BY <1>2 DEF PipeTypeOK
  <2>3. /\ backlog' \in Seq([time : Times, bytes : Seq(Bytes)])
        /\ \A i \in DOMAIN backlog' : backlog'[i].bytes # <<>>
        /\ waiting' = FALSE /\ background' = FALSE
        /\ pes' \in Seq(Bytes) /\ HeaderSize + Len(pes') <= InputBufferSize
        /\ cutOff' \subseteq Bytes /\ time' \in Times
        /\ pc' = "await" /\ depth' = depth + 1
    BY <1>2, <1>6, <2>1, <2>2, FrameDelivered
  <2>4. PipeTypeOK'
    <3>1. depth' \in Nat /\ time' \in Times \cup {0}
      BY <2>1, <2>3
    <3> QED BY <1>1, <1>2, <1>3, <2>3, <3>1 DEF PipeTypeOK
  <2>5. OneCall'
    BY <1>1, <1>2, <2>1, <2>3 DEF OneCall
  <2>6. InputFits'
    <3>1. time' # 0
      BY <2>3, TimesAssumption
    <3> QED BY <1>1, <1>2, <2>1, <2>3, <3>1 DEF InputFits
  <2>7. SameFile'
    BY <1>1, <1>2, <2>1, <2>3 DEF SameFile
  <2>8. Nested(0, 0, 0)'
    <3>1. packets % Batch \in 0 .. Batch - 1 /\ Len(pes') \in Nat
      BY <2>1, <2>3, PipeConsts, DivDef, LenProperties
    <3> QED BY <1>1, <2>1, <2>3, <3>1, PipeConsts, PerBufferIs DEF Nested
  <2> QED BY <1>3, <1>4, <2>3, <2>4, <2>5, <2>6, <2>7, <2>8 DEF PipeInv, StackInv
<1> QED BY <1>1, <1>5, <1>6

LEMMA NeedBufferKeeps == ASSUME PipeInv, NeedBuffer PROVE PipeInv'
<1>1. /\ pc = "next" /\ used >= filled
      /\ pc' = IF filled = 0 THEN "await" ELSE "await old"
      /\ UNCHANGED sinkVars
      /\ UNCHANGED <<asking, room, sec, buffer, files, count>>
      /\ UNCHANGED <<posted, built, described, depth>>
      /\ UNCHANGED <<backlog, triggered, waiting, pes, inUse>>
      /\ UNCHANGED <<background, filled, used, packets, announced, time, missing, task>>
      /\ UNCHANGED <<arrived, cutOff, kinds, payload>>
  BY DEF NeedBuffer, sinkVars, loopVars, feedVars, recordVars, muxVars, historyVars
<1>2. /\ PipeTypeOK /\ Begins /\ OneCall /\ InputFits /\ AllDelivered
      /\ FileBegun /\ CutInTime /\ SameFile /\ FilesEndBetweenPes /\ StackInv
  BY DEF PipeInv
<1>3. SinkTypeOK' /\ FileBegun' /\ CutInTime' /\ FilesEndBetweenPes'
  BY <1>1, <1>2, SinkStays DEF PipeTypeOK
<1>4. Begins' /\ AllDelivered'
  BY <1>1, <1>2 DEF Begins, AllDelivered
<1>5. pc' \in {"await", "await old"} /\ filled \in Nat /\ used \in Nat /\ ~(used < filled)
      /\ used = filled /\ packets \in Nat /\ pes \in Seq(Bytes) /\ depth \in Nat
  <2>1. PipeTypeOK
    BY <1>2
  <2>2. filled \in Nat /\ used \in Nat /\ used <= filled /\ packets \in Nat
        /\ pes \in Seq(Bytes) /\ depth \in Nat
    BY <2>1, PipeTypes
  <2>3. used = filled /\ ~(used < filled)
    <3>1. used >= filled
      BY <1>1
    <3> QED BY <2>2, <3>1
  <2> QED BY <1>1, <2>2, <2>3
<1>6. PipeTypeOK'
  BY <1>1, <1>2, <1>3, <1>5 DEF PipeTypeOK
<1>7. OneCall' /\ InputFits' /\ SameFile'
  BY <1>1, <1>2, <1>5 DEF OneCall, InputFits, SameFile
<1>8. StackInv'
  <2>1. PICK n \in Nat, c \in Nat, j \in Nat : Nested(n, c, j)
    BY <1>2 DEF StackInv
  <2>2. /\ depth <= 1 + (packets % Batch) + n * (LowWater - HeaderSize) + c
        /\ c <= LowWater - HeaderSize
        /\ n * PerBuffer + j <= (packets % Batch)
        /\ \/ c = 0
           \/ filled > 0 /\ (used = 0 \/ used + PcrSize <= j * PacketData)
    BY <1>1, <2>1 DEF Nested
  <2>3. /\ packets % Batch \in Nat /\ PerBuffer \in Nat /\ LowWater - HeaderSize \in Nat
        /\ Len(pes) \in Nat /\ LowWater \in Nat /\ PcrSize \in Nat /\ PacketData \in Nat
    BY <1>2, PipeTypes, PipeConsts, PerBufferIs
  <2>4. pc' # "next" /\ packets' = packets /\ depth' = depth /\ pes' = pes
    BY <1>1, <1>5
  <2>5. CASE c = 0
    <3>1. n * PerBuffer + 0 <= (packets % Batch)
      <4>1. n * PerBuffer \in Nat
        BY <2>3
      <4> QED BY <2>2, <2>3, <4>1
    <3>2. Nested(n, 0, 0)'
      BY <2>2, <2>3, <2>4, <2>5, <3>1 DEF Nested
    <3> QED BY <1>1, <1>5, <3>2 DEF StackInv
  <2>6. CASE c # 0
    <3>1. filled > 0 /\ (used = 0 \/ used + PcrSize <= j * PacketData)
      BY <2>2, <2>6
    <3>2. filled >= LowWater
      BY <1>2, <3>1 DEF InputFits
    <3>3. used = filled /\ used # 0
      BY <1>5, <3>1
    <3>4. j * PacketData \in Int
      BY <2>3
    <3>5. LowWater + PcrSize <= j * PacketData
      <4> DEFINE x == j * PacketData
      <4>1. x \in Int /\ used + PcrSize <= x
        BY <3>1, <3>3, <3>4
      <4> HIDE DEF x
      <4>2. LowWater + PcrSize <= x
        <5>1. used >= LowWater /\ used \in Nat
          BY <1>5, <3>2
        <5> QED BY <2>3, <4>1, <5>1
      <4> QED BY <4>2 DEF x
    <3>6. PerBuffer <= j
      BY <3>5, PerBufferIs
    <3>7. /\ (n + 1) * PerBuffer + 0 <= (packets % Batch)
          /\ depth <= 1 + (packets % Batch) + (n + 1) * (LowWater - HeaderSize) + 0
      BY <1>5, <2>2, <2>3, <3>6, OneMoreBuffer
    <3>8. Nested(n + 1, 0, 0)'
      BY <2>3, <2>4, <3>7 DEF Nested
    <3>9. \E a, b, e \in Nat : Nested(a, b, e)'
      <4>1. n + 1 \in Nat /\ 0 \in Nat
        OBVIOUS
      <4> QED BY <3>8, <4>1
    <3> QED BY <1>1, <1>5, <3>9 DEF StackInv
  <2> QED BY <2>5, <2>6
<1> QED BY <1>3, <1>4, <1>6, <1>7, <1>8 DEF PipeInv

LEMMA AwaitNewBufferKeeps == ASSUME PipeInv, AwaitNewBuffer PROVE PipeInv'
<1> DEFINE b == Kept
<1>1. /\ pc \in {"await", "await old"}
      /\ IF Enough(b) THEN DeliverBuffer(b) ELSE AskForNewData(b)
      /\ UNCHANGED sinkVars
      /\ UNCHANGED <<asking, room, sec, buffer, files, count>>
      /\ UNCHANGED <<posted, built, described>>
      /\ UNCHANGED <<triggered, packets, announced, missing, task, arrived, kinds, payload>>
  BY DEF AwaitNewBuffer, sinkVars, loopVars
<1>2. /\ PipeTypeOK /\ Begins /\ OneCall /\ InputFits /\ AllDelivered
      /\ FileBegun /\ CutInTime /\ SameFile /\ FilesEndBetweenPes /\ StackInv
  BY DEF PipeInv
<1>3. SinkTypeOK' /\ FileBegun' /\ CutInTime' /\ FilesEndBetweenPes'
  BY <1>1, <1>2, SinkStays DEF PipeTypeOK
<1>4. Begins' /\ AllDelivered'
  BY <1>1, <1>2 DEF Begins, AllDelivered
<1>5. /\ b \in Seq(Bytes) /\ HeaderSize + Len(b) <= InputBufferSize /\ Len(b) \in Nat
      /\ pc = "await" => b = pes
      /\ b = pes \/ b = <<>>
      /\ HeaderSize + Len(b) >= LowWater => pc = "await" /\ b # <<>>
  <2>1. CASE pc = "await"
    <3>1. b = pes /\ pes \in Seq(Bytes) /\ HeaderSize + Len(pes) <= InputBufferSize
      BY <1>2, <2>1 DEF Kept, PipeTypeOK
    <3>2. pes = <<>> => Len(pes) = 0
      OBVIOUS
    <3> QED BY <2>1, <3>1, <3>2, LenProperties, PipeConsts
  <2>2. CASE pc = "await old"
    <3>1. b = <<>>
      BY <2>2 DEF Kept
    <3> HIDE DEF b
    <3>2. b \in Seq(Bytes) /\ Len(b) = 0
      BY <3>1
    <3>3. HeaderSize + 0 < LowWater /\ HeaderSize + 0 <= InputBufferSize
      BY PipeConsts
    <3>4. ~(HeaderSize + Len(b) >= LowWater) /\ HeaderSize + Len(b) <= InputBufferSize
      BY <3>2, <3>3, PipeConsts
    <3> QED BY <2>2, <3>1, <3>2, <3>4
  <2> QED BY <1>1, <2>1, <2>2
<1> HIDE DEF b
<1>6. /\ built /\ ~waiting /\ ~task /\ background = FALSE /\ ~(used < filled)
      /\ packets \in Nat /\ used \in Nat /\ filled \in Nat /\ depth \in Nat
  <2>1. waiting \in BOOLEAN
    BY <1>2 DEF PipeTypeOK
  <2>2. packets \in Nat /\ used \in Nat /\ filled \in Nat /\ depth \in Nat
    BY <1>2, PipeTypes
  <2> QED BY <1>1, <1>2, <2>1, <2>2 DEF OneCall, InputFits
<1>7. PICK n \in Nat, c \in Nat, j \in Nat : Nested(n, c, j)
  BY <1>2 DEF StackInv
<1>8. /\ depth <= 1 + (packets % Batch) + n * (LowWater - HeaderSize) + c
      /\ c <= LowWater - HeaderSize
      /\ n * PerBuffer + 0 <= (packets % Batch)
      /\ c <= Len(b)
      /\ packets % Batch \in Nat /\ LowWater - HeaderSize \in Nat /\ PerBuffer \in Nat
      /\ n * (LowWater - HeaderSize) \in Nat
  <2>1. /\ depth <= 1 + (packets % Batch) + n * (LowWater - HeaderSize) + c
        /\ c <= LowWater - HeaderSize
        /\ n * PerBuffer + j <= (packets % Batch) /\ j = 0
        /\ pc = "await" => c <= Len(pes)
        /\ pc = "await old" => c = 0
    BY <1>1, <1>7 DEF Nested
  <2>2. packets % Batch \in Nat /\ LowWater - HeaderSize \in Nat /\ PerBuffer \in Nat
    BY <1>2, PipeTypes, PerBufferIs
  <2>3. n * (LowWater - HeaderSize) \in Nat
    BY <2>2
  <2>4. c <= Len(b)
    <3>1. CASE pc = "await"
      BY <1>5, <2>1, <3>1
    <3>2. CASE pc = "await old"
      <4>1. c = 0 /\ Len(b) \in Nat
        BY <1>5, <2>1, <3>2
      <4> QED BY <4>1
    <3> QED BY <1>1, <3>1, <3>2
  <2> QED BY <2>1, <2>2, <2>3, <2>4
<1>9. CASE Enough(b)
  <2>1. /\ inUse' = TRUE /\ pes' = b /\ filled' = HeaderSize + Len(b) /\ used' = 0
        /\ pc' = "next" /\ background' = FALSE
        /\ UNCHANGED <<backlog, waiting, time, cutOff, depth>>
        /\ filled' >= LowWater /\ filled' > 0 /\ b = pes /\ b # <<>>
    <3>1. DeliverBuffer(b) /\ HeaderSize + Len(b) >= LowWater
      BY <1>1, <1>9 DEF Enough
    <3>2. HeaderSize + Len(b) > 0
      BY <1>5, <3>1, PipeConsts
    <3>3. b = pes /\ b # <<>> /\ pc = "await"
      BY <1>5, <3>1
    <3> QED BY <1>6, <3>1, <3>2, <3>3 DEF DeliverBuffer
  <2>2. PipeTypeOK'
    <3>1. filled' \in 0 .. InputBufferSize /\ used' \in 0 .. filled'
      BY <1>5, <2>1, PipeConsts
    <3> QED BY <1>1, <1>2, <1>3, <1>5, <2>1, <3>1 DEF PipeTypeOK
  <2>3. OneCall'
    <3>1. built' = TRUE /\ waiting' = FALSE /\ task' = FALSE /\ background' = FALSE
          /\ pc' = "next"
      <4>1. waiting \in BOOLEAN /\ task \in BOOLEAN /\ built \in BOOLEAN
        BY <1>2 DEF PipeTypeOK
      <4> QED BY <1>1, <1>6, <2>1, <4>1
    <3> QED BY <3>1 DEF OneCall
  <2>4. InputFits'
    BY <1>1, <1>2, <1>6, <2>1 DEF InputFits
  <2>5. SameFile'
    <3>1. used' = 0 /\ ~task'
      BY <1>1, <1>6, <2>1
    <3> QED BY <3>1 DEF SameFile
  <2>6. Nested(n, c, 0)'
    <3>1. filled' > 0 /\ used' = 0 /\ pc' = "next" /\ depth' = depth /\ packets' = packets
      BY <1>1, <2>1
    <3> QED BY <1>8, <3>1 DEF Nested
  <2> QED BY <1>3, <1>4, <2>1, <2>2, <2>3, <2>4, <2>5, <2>6 DEF PipeInv, StackInv
<1>10. CASE ~Enough(b) /\ backlog # <<>> /\ DeliverFrame(b, TRUE)
  <2>1. inUse' = FALSE /\ UNCHANGED <<filled, used>> /\ HeaderSize + Len(b) < LowWater
    <3>1. AskForNewData(b) /\ ~(HeaderSize + Len(b) >= LowWater)
      BY <1>1, <1>10 DEF Enough
    <3>2. HeaderSize + Len(b) < LowWater
      BY <1>5, <3>1, PipeConsts
    <3> QED BY <3>1, <3>2 DEF AskForNewData
  <2>2. /\ backlog' \in Seq([time : Times, bytes : Seq(Bytes)])
        /\ \A i \in DOMAIN backlog' : backlog'[i].bytes # <<>>
        /\ waiting' = FALSE /\ background' = FALSE
        /\ pes' \in Seq(Bytes) /\ HeaderSize + Len(pes') <= InputBufferSize
        /\ Len(pes') >= Len(b) + 1
        /\ cutOff' \subseteq Bytes /\ time' \in Times
        /\ pc' = "await" /\ depth' = depth + 1
    BY <1>2, <1>5, <1>10, <2>1, FrameDelivered
  <2>3. PipeTypeOK'
    <3>1. depth' \in Nat /\ time' \in Times \cup {0}
      BY <1>6, <2>2
    <3> QED BY <1>1, <1>2, <1>3, <2>1, <2>2, <3>1 DEF PipeTypeOK
  <2>4. OneCall'
    BY <1>1, <1>6, <2>2 DEF OneCall
  <2>5. InputFits'
    <3>1. time' # 0
      BY <2>2, TimesAssumption
    <3> QED BY <1>2, <1>6, <2>1, <2>2, <3>1 DEF InputFits
  <2>6. SameFile'
    BY <1>1, <1>2, <1>6, <2>1, <2>2 DEF SameFile
  <2>7. Nested(n, c + 1, 0)'
    <3>1. Len(pes') \in Nat
      BY <2>2, LenProperties
    <3>2. c + 1 <= LowWater - HeaderSize /\ c + 1 <= Len(pes')
      <4>1. /\ Len(b) \in Nat /\ c <= Len(b) /\ HeaderSize + Len(b) < LowWater
            /\ Len(pes') >= Len(b) + 1
        BY <1>5, <1>8, <2>1, <2>2
      <4> QED BY <3>1, <4>1, PipeConsts
    <3>3. depth + 1 <= 1 + (packets % Batch) + n * (LowWater - HeaderSize) + (c + 1)
      BY <1>6, <1>8
    <3>4. packets' = packets /\ depth' = depth + 1 /\ pc' = "await"
      BY <1>1, <2>2
    <3>5. c + 1 \in Nat /\ pc' # "next" /\ pc' # "await old"
          /\ n * PerBuffer + 0 <= packets % Batch
      BY <1>8, <2>2
    <3> QED BY <3>2, <3>3, <3>4, <3>5 DEF Nested
  <2>8. StackInv'
    <3>1. c + 1 \in Nat /\ 0 \in Nat /\ pc' # "idle"
      BY <2>2
    <3> QED BY <2>7, <3>1 DEF StackInv
  <2> QED BY <1>3, <1>4, <2>3, <2>4, <2>5, <2>6, <2>8 DEF PipeInv
<1>11. CASE ~Enough(b) /\ backlog = <<>>
  <2>1. /\ inUse' = FALSE /\ waiting' = TRUE /\ background' = TRUE
        /\ pes' = b /\ pc' = "idle" /\ depth' = 0
        /\ UNCHANGED <<backlog, time, cutOff>> /\ UNCHANGED <<filled, used>>
    BY <1>1, <1>11 DEF AskForNewData
  <2>2. PipeTypeOK'
    BY <1>1, <1>2, <1>3, <1>5, <2>1 DEF PipeTypeOK
  <2>3. OneCall'
    BY <1>1, <1>6, <2>1 DEF OneCall
  <2>4. InputFits'
    BY <1>1, <1>2, <1>5, <1>6, <2>1 DEF InputFits
  <2>5. SameFile'
    BY <1>1, <1>2, <1>6, <2>1 DEF SameFile
  <2>6. Nested(0, 0, 0)'
    <3>1. 0 * PerBuffer + 0 <= packets % Batch /\ 0 <= LowWater - HeaderSize
          /\ 0 <= 1 + (packets % Batch) + 0 * (LowWater - HeaderSize) + 0
      BY <1>8
    <3>2. packets' = packets /\ depth' = 0 /\ pc' = "idle"
      BY <1>1, <2>1
    <3> QED BY <3>1, <3>2 DEF Nested
  <2> QED BY <1>3, <1>4, <2>1, <2>2, <2>3, <2>4, <2>5, <2>6 DEF PipeInv, StackInv
<1> QED BY <1>1, <1>9, <1>10, <1>11 DEF AskForNewData

LEMMA DeliverPacketKeeps == ASSUME PipeInv, DeliverPacket PROVE PipeInv'
<1>1. /\ pc = "next" /\ used < filled /\ packets' = packets + 1
      /\ missing' = IF room < PacketSize THEN PacketSize ELSE 0
      /\ UNCHANGED <<posted, built, described, backlog, triggered, waiting, pes, inUse>>
      /\ UNCHANGED <<background, filled, time, arrived, cutOff>>
      /\ \/ /\ ThroughLoop /\ task' = TRUE /\ pc' = "idle" /\ depth' = 0
            /\ UNCHANGED sinkVars
         \/ /\ ~ThroughLoop /\ GetFrame(time, missing') /\ depth' = depth + 1
            /\ UNCHANGED <<task, pc>>
  BY DEF DeliverPacket, loopVars, feedVars, recordVars
<1>2. /\ PipeTypeOK /\ Begins /\ OneCall /\ InputFits /\ AllDelivered
      /\ FileBegun /\ CutInTime /\ SameFile /\ FilesEndBetweenPes /\ StackInv
  BY DEF PipeInv
<1>3. /\ kinds' \in Seq({"PAT", "PMT", "first", "more"}) /\ Len(kinds') = packets + 1
      /\ \A k \in 1 .. packets : kinds'[k] = kinds[k]
      /\ payload' \in Seq(Seq(Bytes)) /\ Len(payload') = packets + 1
      /\ announced' \in BOOLEAN
      /\ used' \in Nat /\ used' >= used /\ used' <= filled
      /\ used' <= used + PacketData
      /\ used = 0 => used' = 0 \/ used' + PcrSize <= PacketData
      /\ room < PacketSize => used' = used
      /\ kinds'[packets + 1] = "more" => used > 0
      /\ used = 0 /\ used' > 0 => kinds'[packets + 1] = "first"
  BY PacketCut
<1>4. /\ packets \in Nat /\ used \in Nat /\ filled \in Nat /\ depth \in Nat
      /\ filled <= InputBufferSize /\ filled > 0 /\ room \in Nat
  <2>1. packets \in Nat /\ used \in Nat /\ filled \in Nat /\ depth \in Nat
        /\ filled <= InputBufferSize
    BY <1>2, PipeTypes
  <2>2. room \in Nat
    BY <1>2 DEF PipeTypeOK, SinkTypeOK
  <2> QED BY <1>1, <2>1, <2>2
<1>5. /\ built = TRUE /\ waiting = FALSE /\ task = FALSE /\ count = packets
      /\ inUse = TRUE /\ filled = HeaderSize + Len(pes) /\ time \in Times /\ time # 0
      /\ background = FALSE
  <2>1. built \in BOOLEAN /\ waiting \in BOOLEAN /\ task \in BOOLEAN /\ inUse \in BOOLEAN
        /\ time \in Times \cup {0}
    BY <1>2 DEF PipeTypeOK
  <2>2. built /\ ~waiting /\ ~task /\ background = waiting
    BY <1>1, <1>2 DEF OneCall
  <2>3. inUse /\ filled = HeaderSize + Len(pes)
    BY <1>1, <1>2 DEF InputFits
  <2>4. time # 0
    BY <1>2, <1>4 DEF InputFits
  <2> QED BY <1>2, <2>1, <2>2, <2>3, <2>4 DEF AllDelivered
<1>6. /\ missing' \in {0, PacketSize} /\ missing' \in Nat
      /\ missing' = 0 <=> ~(room < PacketSize)
  BY <1>1, <1>4, PipeConsts
<1>7. ASSUME SinkTypeOK', task' \in BOOLEAN, pc' \in {"idle", "next"}, depth' \in Nat
      PROVE  PipeTypeOK'
  <2>1. used' \in 0 .. filled'
    BY <1>1, <1>3, <1>4
  <2> QED BY <1>1, <1>2, <1>3, <1>6, <1>7, <2>1 DEF PipeTypeOK
<1>8. ASSUME pc' = "next" \/ task' PROVE InputFits'
  BY <1>1, <1>2, <1>5, <1>8 DEF InputFits
<1>9. CASE /\ ThroughLoop /\ task' = TRUE /\ pc' = "idle" /\ depth' = 0
           /\ UNCHANGED sinkVars
  <2>1. UNCHANGED <<asking, room, sec, buffer, files, count>>
    BY <1>9 DEF sinkVars
  <2>2. SinkTypeOK' /\ FileBegun' /\ CutInTime' /\ FilesEndBetweenPes'
    <3>1. \A k \in 1 .. count : kinds'[k] = kinds[k]
      BY <1>3, <1>5
    <3> QED BY <1>2, <1>9, <3>1, SinkStays DEF PipeTypeOK
  <2>3. Begins' /\ AllDelivered'
    BY <1>1, <1>2, <1>5, <1>9, <2>1 DEF Begins, AllDelivered
  <2>4. OneCall'
    BY <1>1, <1>5, <1>9 DEF OneCall
  <2>5. SameFile'
    <3>1. room' < PacketSize => used' = 0
      BY <1>2, <1>3, <2>1 DEF SameFile
    <3>2. used' > 0 => missing' = 0
      BY <1>3, <1>4, <1>6, <2>1, <3>1
    <3>3. kinds'[packets'] = "more" => used' > 0
      BY <1>1, <1>3, <1>4
    <3>4. used' > 0 => \/ sec' # 0 /\ time' - sec' <= Slice
                       \/ task' /\ kinds'[packets'] = "first"
      <4>1. CASE used = 0
        BY <1>1, <1>3, <1>9, <4>1
      <4>2. CASE used > 0
        BY <1>1, <1>2, <1>5, <2>1, <4>2 DEF SameFile, Slice
      <4> QED BY <1>4, <4>1, <4>2
    <3> QED BY <3>1, <3>2, <3>3, <3>4 DEF SameFile
  <2>6. PipeTypeOK' /\ InputFits'
    BY <1>7, <1>8, <1>9, <2>2
  <2>7. Nested(0, 0, 0)'
    <3>1. PipeTypeOK' /\ PerBuffer \in Nat
      BY <2>6, PerBufferIs
    <3>2. packets' % Batch \in Nat /\ LowWater - HeaderSize \in Nat
      <4>1. packets' \in Int /\ Batch \in Nat \ {0}
        BY <1>1, <1>4, PipeConsts
      <4>2. packets' % Batch \in 0 .. Batch - 1
        BY <4>1, DivDef
      <4> QED BY <4>2, PipeConsts
    <3>3. /\ 0 * PerBuffer + 0 <= packets' % Batch /\ 0 <= LowWater - HeaderSize
          /\ 0 <= 1 + (packets' % Batch) + 0 * (LowWater - HeaderSize) + 0
      BY <3>1, <3>2
    <3> QED BY <1>9, <3>3 DEF Nested
  <2> QED BY <1>9, <2>2, <2>3, <2>4, <2>5, <2>6, <2>7 DEF PipeInv, StackInv
<1>10. CASE /\ ~ThroughLoop /\ GetFrame(time, missing') /\ depth' = depth + 1
            /\ UNCHANGED <<task, pc>>
  <2>1. /\ SinkTypeOK' /\ FileBegun' /\ CutInTime' /\ FilesEndBetweenPes'
        /\ count' = count + 1 /\ asking' = asking /\ room' >= room
        /\ missing' = 0 => sec' # 0 /\ time - sec' <= Slice
        /\ missing' > 0 => sec' = sec
    <3>1. \A k \in 1 .. count : kinds'[k] = kinds[k]
      BY <1>3, <1>5
    <3>2. kinds'[count + 1] = "more" => sec # 0 /\ time - sec <= Slice
      <4>1. used > 0 => sec # 0 /\ time - sec <= Slice
        BY <1>1, <1>2, <1>5 DEF SameFile
      <4> QED BY <1>3, <1>5, <4>1
    <3> QED BY <1>2, <1>5, <1>6, <1>10, <3>1, <3>2, SinkGets DEF PipeTypeOK
  <2>2. Begins' /\ AllDelivered'
    BY <1>1, <1>2, <1>5, <1>10, <2>1 DEF Begins, AllDelivered
  <2>3. OneCall'
    BY <1>1, <1>5, <1>10 DEF OneCall
  <2>4. PipeTypeOK' /\ InputFits'
    <3>1. depth' \in Nat /\ task' \in BOOLEAN /\ pc' = "next"
      <4>1. task' = task /\ pc' = pc /\ depth' = depth + 1
        BY <1>10
      <4>2. depth' \in Nat
        BY <1>4, <4>1
      <4>3. task' \in BOOLEAN
        BY <1>5, <4>1
      <4> QED BY <1>1, <4>1, <4>2, <4>3
    <3> QED BY <1>7, <1>8, <2>1, <3>1
  <2>5. SameFile'
    <3>1. room' \in Nat
      BY <2>1 DEF SinkTypeOK
    <3>2. room' < PacketSize => used' = 0
      <4>1. room' < PacketSize => room < PacketSize
        BY <1>4, <2>1, <3>1, PipeConsts
      <4> QED BY <1>2, <1>3, <4>1 DEF SameFile
    <3>3. used' > 0 => sec' # 0 /\ time' - sec' <= Slice
      <4>1. CASE missing' = 0
        BY <1>1, <2>1, <4>1
      <4>2. CASE missing' # 0
        <5>1. used' = 0
          BY <1>2, <1>3, <1>6, <4>2 DEF SameFile
        <5> QED BY <5>1
      <4> QED BY <4>1, <4>2
    <3> QED BY <1>5, <1>10, <3>2, <3>3 DEF SameFile
  <2>6. PICK n \in Nat, c \in Nat, j \in Nat : Nested(n, c, j)
    BY <1>2 DEF StackInv
  <2>7. Nested(n, c, j + 1)'
    <3>1. /\ depth <= 1 + (packets % Batch) + n * (LowWater - HeaderSize) + c
          /\ c <= LowWater - HeaderSize
          /\ n * PerBuffer + j <= (packets % Batch)
          /\ c = 0 \/ (used = 0 \/ used + PcrSize <= j * PacketData)
      BY <1>1, <2>6 DEF Nested
    <3>2. packets' % Batch = (packets % Batch) + 1
      <4>1. (packets + 1) % Batch # 0 /\ Batch \in Nat \ {0}
        BY <1>10, PipeConsts DEF ThroughLoop
      <4> QED BY <1>1, <1>4, <4>1, ModNext
    <3>3. /\ packets % Batch \in Nat /\ PerBuffer \in Nat /\ LowWater - HeaderSize \in Nat
      BY <1>2, PipeTypes, PerBufferIs
    <3>4. n * PerBuffer \in Nat /\ n * (LowWater - HeaderSize) \in Nat
      BY <3>3
    <3>5. depth' <= 1 + (packets' % Batch) + n * (LowWater - HeaderSize) + c
      BY <1>4, <1>10, <3>1, <3>2, <3>3, <3>4
    <3>6. n * PerBuffer + (j + 1) <= (packets' % Batch)
      BY <3>1, <3>2, <3>3, <3>4
    <3>7. c = 0 \/ (filled' > 0 /\ (used' = 0 \/ used' + PcrSize <= (j + 1) * PacketData))
      <4>1. /\ used \in Nat /\ used' \in Nat /\ used' <= used + PacketData
            /\ used = 0 => used' = 0 \/ used' + PcrSize <= PacketData
        BY <1>3, <1>4
      <4>2. PacketData \in Nat /\ PcrSize \in Nat
        BY PipeConsts
      <4>3. ASSUME c # 0
            PROVE  used' = 0 \/ used' + PcrSize <= (j + 1) * PacketData
        <5>1. used = 0 \/ used + PcrSize <= j * PacketData
          BY <3>1, <4>3
        <5> QED BY <4>1, <4>2, <5>1, OnePacketMore
      <4>4. filled' > 0
        BY <1>1, <1>4
      <4> QED BY <4>3, <4>4
    <3>8. pc' = "next"
      BY <1>1, <1>10
    <3> QED BY <3>1, <3>5, <3>6, <3>7, <3>8 DEF Nested
  <2>8. StackInv'
    <3>1. j + 1 \in Nat /\ pc' # "idle"
      BY <1>1, <1>10
    <3> QED BY <2>7, <3>1 DEF StackInv
  <2> QED BY <2>1, <2>2, <2>3, <2>4, <2>5, <2>8 DEF PipeInv
<1> QED BY <1>1, <1>9, <1>10

LEMMA HandleTaskKeeps == ASSUME PipeInv, HandleTask PROVE PipeInv'
<1>1. /\ pc = "idle" /\ task /\ task' = FALSE /\ GetFrame(time, missing)
      /\ pc' = "next" /\ depth' = depth + 1
      /\ UNCHANGED <<posted, built, described, backlog, triggered, waiting, pes, inUse>>
      /\ UNCHANGED <<background, filled, used, packets, announced, time, missing>>
      /\ UNCHANGED <<arrived, cutOff, kinds, payload>>
  BY DEF HandleTask, loopVars, feedVars, recordVars, historyVars
<1>2. /\ PipeTypeOK /\ Begins /\ OneCall /\ InputFits /\ AllDelivered
      /\ FileBegun /\ CutInTime /\ SameFile /\ FilesEndBetweenPes /\ StackInv
  BY DEF PipeInv
<1>3. /\ packets \in Nat /\ used \in Nat /\ depth = 0 /\ count + 1 = packets /\ room \in Nat
      /\ missing \in {0, PacketSize} /\ missing \in Nat
  <2>1. room \in Nat /\ missing \in {0, PacketSize}
    BY <1>2 DEF PipeTypeOK, SinkTypeOK
  <2>2. depth = 0 /\ count + 1 = packets
    BY <1>1, <1>2 DEF StackInv, AllDelivered
  <2> QED BY <1>2, <2>1, <2>2, PipeTypes, PipeConsts
<1>4. /\ built = TRUE /\ waiting = FALSE /\ background = FALSE /\ time \in Times /\ time # 0
  <2>1. built \in BOOLEAN /\ waiting \in BOOLEAN /\ time \in Times \cup {0}
    BY <1>2 DEF PipeTypeOK
  <2>2. built /\ ~waiting /\ background = waiting
    BY <1>1, <1>2 DEF OneCall
  <2>3. time # 0
    BY <1>1, <1>2 DEF InputFits
  <2> QED BY <2>1, <2>2, <2>3
<1>5. /\ SinkTypeOK' /\ FileBegun' /\ CutInTime' /\ FilesEndBetweenPes'
      /\ count' = count + 1 /\ asking' = asking /\ room' >= room
      /\ missing = 0 => sec' # 0 /\ time - sec' <= Slice
      /\ missing > 0 => sec' = sec
  <2>1. \A k \in 1 .. count : kinds'[k] = kinds[k]
    BY <1>1
  <2>2. kinds'[count + 1] = "more" => sec # 0 /\ time - sec <= Slice
    <3>1. ASSUME kinds[packets] = "more" PROVE sec # 0 /\ time - sec <= Slice
      <4>1. used > 0 /\ kinds[packets] # "first"
        BY <1>1, <1>2, <3>1 DEF SameFile
      <4> QED BY <1>1, <1>2, <4>1 DEF SameFile
    <3> QED BY <1>1, <1>3, <3>1
  <2> QED BY <1>1, <1>2, <1>3, <1>4, <2>1, <2>2, SinkGets DEF PipeTypeOK
<1>6. PipeTypeOK'
  <2>1. depth' \in Nat
    BY <1>1, <1>3
  <2> QED BY <1>1, <1>2, <1>5, <2>1 DEF PipeTypeOK
<1>7. Begins' /\ AllDelivered' /\ OneCall'
  BY <1>1, <1>2, <1>3, <1>4, <1>5 DEF Begins, AllDelivered, OneCall
<1>8. InputFits'
  BY <1>1, <1>2 DEF InputFits
<1>9. SameFile'
  <2>1. room' \in Nat
    BY <1>5 DEF SinkTypeOK
  <2>2. room' < PacketSize => used' = 0
    <3>1. room' < PacketSize => room < PacketSize
      BY <1>3, <1>5, <2>1, PipeConsts
    <3> QED BY <1>1, <1>2, <3>1 DEF SameFile
  <2>3. used' > 0 => sec' # 0 /\ time' - sec' <= Slice
    <3>1. used > 0 => missing = 0
      BY <1>1, <1>2 DEF SameFile
    <3> QED BY <1>1, <1>5, <3>1
  <2> QED BY <1>1, <2>2, <2>3 DEF SameFile
<1>10. Nested(0, 0, 0)'
  <2>1. packets % Batch \in Nat /\ LowWater - HeaderSize \in Nat /\ PerBuffer \in Nat
    BY <1>2, PipeTypes, PerBufferIs
  <2>2. /\ 0 * PerBuffer + 0 <= packets % Batch /\ 0 <= LowWater - HeaderSize
        /\ 1 <= 1 + (packets % Batch) + 0 * (LowWater - HeaderSize) + 0
    BY <2>1
  <2>3. packets' = packets /\ depth' = 1 /\ pc' = "next"
    BY <1>1, <1>3
  <2> QED BY <2>2, <2>3 DEF Nested
<1>11. StackInv'
  BY <1>1, <1>10 DEF StackInv
<1> QED BY <1>5, <1>6, <1>7, <1>8, <1>9, <1>11 DEF PipeInv

-----------------------------------------------------------------------------
(* Sequences of bytes: what is cut, put together, and in order.            *)

\* Two parts of a sequence that follow each other.
LEMMA PartsJoin ==
    ASSUME NEW S, NEW s \in Seq(S), NEW a \in Nat, a >= 1, NEW m \in Nat, a <= m + 1,
           NEW n \in Nat, m <= n, n <= Len(s)
    PROVE  SubSeq(s, a, m) \o SubSeq(s, m + 1, n) = SubSeq(s, a, n)
<1> DEFINE l == SubSeq(s, a, m)
           r == SubSeq(s, m + 1, n)
           w == SubSeq(s, a, n)
           c == l \o r
           p == m + 1 - a
           q == n - m
<1>1. /\ Len(s) \in Nat /\ \A i \in 1 .. Len(s) : s[i] \in S
      /\ p \in Nat /\ q \in Nat /\ n + 1 - a = p + q
  BY LenProperties, ElementOfSeq
<1>2. l \in Seq(S) /\ Len(l) = p /\ \A i \in 1 .. p : l[i] = s[a + i - 1]
  <2>1. \A i \in a .. m : s[i] \in S
    BY <1>1
  <2> QED BY <1>1, <2>1, SubSeqProperties
<1>3. r \in Seq(S) /\ Len(r) = q /\ \A i \in 1 .. q : r[i] = s[(m + 1) + i - 1]
  <2>1. \A i \in m + 1 .. n : s[i] \in S
    BY <1>1
  <2>2. n - (m + 1) + 1 = q /\ m + 1 \in Nat /\ m + 1 <= n + 1
    BY <1>1
  <2> QED BY <1>1, <2>1, <2>2, SubSeqProperties
<1>4. w \in Seq(S) /\ Len(w) = p + q /\ \A i \in 1 .. p + q : w[i] = s[a + i - 1]
  <2>1. \A i \in a .. n : s[i] \in S
    BY <1>1
  <2>2. n - a + 1 = p + q /\ a <= n + 1
    BY <1>1
  <2> QED BY <1>1, <2>1, <2>2, SubSeqProperties
<1> HIDE DEF l, r, w
<1>5. c \in Seq(S) /\ Len(c) = p + q
      /\ \A i \in 1 .. p + q : c[i] = IF i <= p THEN l[i] ELSE r[i - p]
  <2> HIDE DEF p, q
  <2>1. l \in Seq(S) /\ r \in Seq(S) /\ Len(l) = p /\ Len(r) = q
    BY <1>2, <1>3
  <2> QED BY <2>1, ConcatProperties
<1> HIDE DEF c
<1>6. ASSUME NEW i \in 1 .. p + q PROVE c[i] = w[i]
  <2>1. CASE i <= p
    <3>1. i \in 1 .. p
      BY <1>1, <2>1
    <3> QED BY <1>2, <1>4, <1>5, <2>1, <3>1
  <2>2. CASE ~(i <= p)
    <3>1. i - p \in 1 .. q /\ (m + 1) + (i - p) - 1 = a + i - 1
      BY <1>1, <2>2
    <3> QED BY <1>3, <1>4, <1>5, <2>2, <3>1
  <2> QED BY <2>1, <2>2
<1>7. c = w
  <2>1. Len(c) = Len(w) /\ \A i \in 1 .. Len(c) : c[i] = w[i]
    BY <1>4, <1>5, <1>6
  <2> QED BY <1>4, <1>5, <2>1, SeqEqual
<1> QED BY <1>7 DEF c, l, r, w

\* The set of what two sequences have, and where it is.
LEMMA SetOfBoth ==
    ASSUME NEW S, NEW s \in Seq(S), NEW t \in Seq(S)
    PROVE  /\ s \o t \in Seq(S) /\ ToSet(s) \subseteq S
           /\ ToSet(s \o t) = ToSet(s) \cup ToSet(t)
           /\ Len(s) \in Nat /\ Len(t) \in Nat
           /\ DOMAIN s = 1 .. Len(s) /\ DOMAIN t = 1 .. Len(t)
           /\ DOMAIN (s \o t) = 1 .. Len(s) + Len(t)
           /\ \A i \in 1 .. Len(s) : (s \o t)[i] = s[i]
           /\ \A i \in 1 .. Len(t) : (s \o t)[Len(s) + i] = t[i]
<1> DEFINE c == s \o t
           m == Len(s)
           n == Len(t)
<1>1. /\ m \in Nat /\ n \in Nat /\ DOMAIN s = 1 .. m /\ DOMAIN t = 1 .. n
      /\ \A i \in 1 .. m : s[i] \in S
  BY LenProperties, ElementOfSeq
<1>2. c \in Seq(S) /\ Len(c) = m + n
      /\ \A i \in 1 .. m + n : c[i] = IF i <= m THEN s[i] ELSE t[i - m]
  BY ConcatProperties
<1> HIDE DEF c, m, n
<1>3. DOMAIN c = 1 .. m + n
  BY <1>2, LenProperties
<1>4. \A i \in 1 .. m : i \in 1 .. m + n /\ c[i] = s[i]
  BY <1>1, <1>2
<1>5. \A i \in 1 .. n : m + i \in 1 .. m + n /\ c[m + i] = t[i]
  <2> SUFFICES ASSUME NEW i \in 1 .. n PROVE m + i \in 1 .. m + n /\ c[m + i] = t[i]
    OBVIOUS
  <2>1. m + i \in 1 .. m + n /\ ~(m + i <= m) /\ (m + i) - m = i
    BY <1>1
  <2> QED BY <1>2, <2>1
<1>6. \A i \in 1 .. m + n : i \in 1 .. m \/ (i - m \in 1 .. n /\ i = m + (i - m))
  BY <1>1
<1>7. ToSet(c) = ToSet(s) \cup ToSet(t)
  <2>1. ToSet(c) \subseteq ToSet(s) \cup ToSet(t)
    <3> SUFFICES ASSUME NEW i \in 1 .. m + n PROVE c[i] \in ToSet(s) \cup ToSet(t)
      BY <1>3 DEF ToSet
    <3>1. CASE i \in 1 .. m
      BY <1>1, <1>4, <3>1 DEF ToSet
    <3>2. CASE i - m \in 1 .. n /\ i = m + (i - m)
      <4>1. c[i] = t[i - m]
        BY <1>5, <3>2
      <4> QED BY <1>1, <3>2, <4>1 DEF ToSet
    <3> QED BY <1>6, <3>1, <3>2
  <2>2. ToSet(s) \subseteq ToSet(c)
    BY <1>1, <1>3, <1>4 DEF ToSet
  <2>3. ToSet(t) \subseteq ToSet(c)
    BY <1>1, <1>3, <1>5 DEF ToSet
  <2> QED BY <2>1, <2>2, <2>3
<1>8. ToSet(s) \subseteq S
  BY <1>1 DEF ToSet
<1> QED BY <1>1, <1>2, <1>3, <1>4, <1>5, <1>7, <1>8 DEF c, m, n

\* What comes before what, for bytes.
LEMMA PrecedesIs ==
    ASSUME NEW a \in Bytes, NEW b \in Bytes
    PROVE  /\ ~Precedes(a, a)
           /\ Precedes(a, b) => a # b
  BY DEF Bytes, Precedes

\* Two ordered sequences, one before the other, are ordered together.
LEMMA OrderedJoin ==
    ASSUME NEW s \in Seq(Bytes), NEW t \in Seq(Bytes)
    PROVE  Ordered(s \o t) <=> /\ Ordered(s) /\ Ordered(t)
                               /\ \A a \in ToSet(s), b \in ToSet(t) : Precedes(a, b)
<1> DEFINE c == s \o t
           m == Len(s)
           n == Len(t)
<1>1. /\ m \in Nat /\ n \in Nat /\ DOMAIN s = 1 .. m /\ DOMAIN t = 1 .. n
      /\ DOMAIN c = 1 .. m + n
      /\ \A i \in 1 .. m : c[i] = s[i]
      /\ \A i \in 1 .. n : c[m + i] = t[i]
  BY SetOfBoth
<1> HIDE DEF c, m, n
<1>2. /\ \A i \in 1 .. m : i \in 1 .. m + n
      /\ \A i \in 1 .. n : m + i \in 1 .. m + n
      /\ \A i \in 1 .. m, j \in 1 .. n : i < m + j
      /\ \A i \in 1 .. n, j \in 1 .. n : i < j => m + i < m + j
  BY <1>1
<1>3. ASSUME Ordered(c)
      PROVE  /\ Ordered(s) /\ Ordered(t)
             /\ \A a \in ToSet(s), b \in ToSet(t) : Precedes(a, b)
  <2>1. \A i, j \in 1 .. m + n : i < j => Precedes(c[i], c[j])
    BY <1>1, <1>3 DEF Ordered
  <2>2. Ordered(s)
    BY <1>1, <1>2, <2>1 DEF Ordered
  <2>3. ASSUME NEW i \in 1 .. n, NEW j \in 1 .. n, i < j PROVE Precedes(t[i], t[j])
    <3>1. Precedes(c[m + i], c[m + j])
      BY <1>2, <2>1, <2>3
    <3> QED BY <1>1, <3>1
  <2>4. ASSUME NEW i \in 1 .. m, NEW j \in 1 .. n PROVE Precedes(s[i], t[j])
    <3>1. Precedes(c[i], c[m + j])
      BY <1>2, <2>1
    <3> QED BY <1>1, <3>1
  <2> QED BY <1>1, <2>2, <2>3, <2>4 DEF Ordered, ToSet
<1>4. ASSUME Ordered(s), Ordered(t),
             \A a \in ToSet(s), b \in ToSet(t) : Precedes(a, b)
      PROVE  Ordered(c)
  <2> SUFFICES ASSUME NEW i \in 1 .. m + n, NEW j \in 1 .. m + n, i < j
               PROVE  Precedes(c[i], c[j])
    BY <1>1 DEF Ordered
  <2>1. CASE j <= m
    <3>1. i \in 1 .. m /\ j \in 1 .. m
      BY <1>1, <2>1
    <3> QED BY <1>1, <1>4, <3>1 DEF Ordered
  <2>2. CASE i <= m /\ ~(j <= m)
    <3>1. i \in 1 .. m /\ j - m \in 1 .. n /\ j = m + (j - m)
      BY <1>1, <2>2
    <3>2. c[i] \in ToSet(s) /\ c[j] \in ToSet(t)
      <4>1. c[j] = t[j - m]
        BY <1>1, <3>1
      <4> QED BY <1>1, <3>1, <4>1 DEF ToSet
    <3> QED BY <1>4, <3>2
  <2>3. CASE ~(i <= m)
    <3>1. i - m \in 1 .. n /\ j - m \in 1 .. n /\ i - m < j - m
          /\ i = m + (i - m) /\ j = m + (j - m)
      BY <1>1, <2>3
    <3>2. c[i] = t[i - m] /\ c[j] = t[j - m]
      BY <1>1, <3>1
    <3>3. Precedes(t[i - m], t[j - m])
      BY <1>1, <1>4, <3>1 DEF Ordered
    <3> QED BY <3>2, <3>3
  <2> QED BY <1>1, <2>1, <2>2, <2>3
<1> QED BY <1>3, <1>4 DEF c

\* What is cut out of an ordered sequence is gone from it.
LEMMA CutOut ==
    ASSUME NEW x \in Seq(Bytes), NEW c \in Seq(Bytes), NEW y \in Seq(Bytes),
           Ordered(x \o (c \o y))
    PROVE  Ordered(x \o y) /\ ToSet(x \o y) = ToSet(x \o (c \o y)) \ ToSet(c)
<1>1. /\ c \o y \in Seq(Bytes)
      /\ ToSet(x) \subseteq Bytes /\ ToSet(c) \subseteq Bytes /\ ToSet(y) \subseteq Bytes
      /\ ToSet(c \o y) = ToSet(c) \cup ToSet(y) /\ ToSet(x \o y) = ToSet(x) \cup ToSet(y)
  BY SetOfBoth
<1>2. ToSet(x \o (c \o y)) = ToSet(x) \cup (ToSet(c) \cup ToSet(y))
  <2> DEFINE z == c \o y
  <2>1. z \in Seq(Bytes) /\ ToSet(z) = ToSet(c) \cup ToSet(y)
    BY <1>1
  <2> HIDE DEF z
  <2>2. ToSet(x \o z) = ToSet(x) \cup ToSet(z)
    BY <2>1, SetOfBoth
  <2> QED BY <2>1, <2>2 DEF z
<1>3. /\ Ordered(x) /\ Ordered(c \o y)
      /\ \A a \in ToSet(x), b \in ToSet(c \o y) : Precedes(a, b)
  BY <1>1, OrderedJoin
<1>4. Ordered(y) /\ \A a \in ToSet(c), b \in ToSet(y) : Precedes(a, b)
  BY <1>3, OrderedJoin
<1>5. Ordered(x \o y)
  BY <1>1, <1>3, <1>4, OrderedJoin
<1>6. ToSet(x) \cap ToSet(c) = {} /\ ToSet(c) \cap ToSet(y) = {}
  <2>1. \A a \in ToSet(x), b \in ToSet(c) : a # b
    BY <1>1, <1>3, PrecedesIs
  <2>2. \A a \in ToSet(c), b \in ToSet(y) : a # b
    BY <1>1, <1>4, PrecedesIs
  <2> QED BY <2>1, <2>2
<1> QED BY <1>1, <1>2, <1>5, <1>6

\* A function on 1 .. n is a sequence.
LEMMA MakesSeq ==
    ASSUME NEW S, NEW n \in Nat, NEW s \in [1 .. n -> S]
    PROVE  s \in Seq(S) /\ Len(s) = n /\ DOMAIN s = 1 .. n
  OBVIOUS

\* A sequence is all of its parts.
LEMMA WholeIs ==
    ASSUME NEW S, NEW s \in Seq(S)
    PROVE  SubSeq(s, 1, Len(s)) = s
<1> DEFINE n == Len(s)
           w == SubSeq(s, 1, n)
<1>1. n \in Nat /\ \A i \in 1 .. n : s[i] \in S
  BY LenProperties, ElementOfSeq
<1>2. w \in Seq(S) /\ Len(w) = n /\ \A i \in 1 .. n : w[i] = s[i]
  <2>1. 1 <= n + 1 /\ n <= Len(s) /\ n - 1 + 1 = n /\ \A i \in 1 .. n : 1 + i - 1 = i
    BY <1>1
  <2> QED BY <1>1, <2>1, SubSeqProperties
<1> HIDE DEF w
<1>3. w = s
  BY <1>2, SeqEqual
<1> QED BY <1>3 DEF w

\* Places of the buffer that follow each other, and those between which there is
\* nothing.
LEMMA BetweenParts ==
    ASSUME PipeTypeOK, NEW from \in Nat, NEW mid \in Nat, NEW to \in Nat
    PROVE  /\ to <= from => Between(from, to) = <<>>
           /\ from <= mid /\ mid <= to /\ to <= HeaderSize + Len(pes) =>
                 Between(from, mid) \o Between(mid, to) = Between(from, to)
<1>1. /\ pes \in Seq(Bytes) /\ Len(pes) \in Nat /\ HeaderSize \in Nat
      /\ \A i \in 1 .. Len(pes) : pes[i] \in Bytes
  BY PipeTypes, PipeConsts, ElementOfSeq
<1> DEFINE First(a) == IF a < HeaderSize THEN 1 ELSE a - HeaderSize + 1
<1>2. \A a \in Nat : First(a) \in Nat /\ First(a) >= 1 /\ First(a) >= a - HeaderSize + 1
                     /\ (First(a) = 1 \/ First(a) = a - HeaderSize + 1)
  BY <1>1
<1>3. \A a, b : Between(a, b) = SubSeq(pes, First(a), b - HeaderSize)
  BY DEF Between
<1>4. ASSUME NEW a \in Nat, NEW b \in Nat, b <= a \/ b <= HeaderSize
      PROVE  Between(a, b) = <<>>
  <2> DEFINE lo == First(a)
             hi == b - HeaderSize
  <2>1. lo \in Nat /\ hi \in Int /\ lo > hi
    BY <1>1, <1>2, <1>4
  <2> HIDE DEF lo, hi, First
  <2>2. SubSeq(pes, lo, hi) \in Seq(Bytes) /\ Len(SubSeq(pes, lo, hi)) = 0
    <3>1. \A i \in lo .. hi : pes[i] \in Bytes
      BY <2>1
    <3> QED BY <1>1, <2>1, <3>1, SubSeqProperties
  <2>3. SubSeq(pes, lo, hi) = <<>>
    BY <2>2, EmptySeq
  <2> QED BY <1>3, <2>3 DEF lo, hi
<1>5. ASSUME from <= mid, mid <= to, to <= HeaderSize + Len(pes)
      PROVE  Between(from, mid) \o Between(mid, to) = Between(from, to)
  <2>1. CASE mid <= HeaderSize
    <3>1. Between(from, mid) = <<>> /\ First(from) = 1 /\ First(mid) = 1
      BY <1>1, <1>4, <1>5, <2>1
    <3> HIDE DEF First
    <3>2. Between(mid, to) = Between(from, to) /\ Between(from, to) \in Seq(Bytes)
      BY <1>3, <1>5, <3>1, BetweenIs
    <3> QED BY <3>1, <3>2, ConcatEmptySeq
  <2>2. CASE ~(mid <= HeaderSize)
    <3> DEFINE a == First(from)
               m == mid - HeaderSize
               n == to - HeaderSize
    <3>1. /\ a \in Nat /\ a >= 1 /\ m \in Nat /\ n \in Nat /\ a <= m + 1 /\ m <= n
          /\ n <= Len(pes) /\ First(mid) = m + 1
      BY <1>1, <1>2, <1>5, <2>2
    <3> HIDE DEF a, m, n, First
    <3>2. SubSeq(pes, a, m) \o SubSeq(pes, m + 1, n) = SubSeq(pes, a, n)
      BY <1>1, <3>1, PartsJoin
    <3> QED BY <1>3, <3>1, <3>2 DEF a, m, n
  <2> QED BY <2>1, <2>2
<1> HIDE DEF First
<1> QED BY <1>4, <1>5

-----------------------------------------------------------------------------
(* The bytes that were delivered.                                          *)

\* What frames of the files have in them.
DeliveredFrames == {f \in Frame : f.id \in 1 .. count}

\* The buffer and the files hold frames of the sink.
LEMMA FlatParts ==
    ASSUME PipeTypeOK, FileBegun
    PROVE  /\ Parts \in Seq(Seq(DeliveredFrames)) /\ files \in Seq(Seq(DeliveredFrames))
           /\ buffer \in Seq(DeliveredFrames)
           /\ FlattenSeq(Parts) \in Seq(DeliveredFrames)
<1>1. /\ Parts \in Seq(Seq(Frame)) /\ DOMAIN Parts = 1 .. Len(files) + 1
      /\ Len(files) \in Nat /\ DOMAIN files = 1 .. Len(files)
      /\ \A i \in 1 .. Len(files) : Parts[i] = files[i]
      /\ Parts[Len(files) + 1] = buffer
      /\ files \in Seq(Seq(Frame))
  BY PartsIs DEF PipeTypeOK, SinkTypeOK
<1>2. ASSUME NEW i \in 1 .. Len(files) + 1 PROVE Parts[i] \in Seq(DeliveredFrames)
  <2>1. Parts[i] \in Seq(Frame)
    BY <1>1
  <2>2. \A j \in DOMAIN Parts[i] : Parts[i][j] \in DeliveredFrames
    <3> SUFFICES ASSUME NEW j \in DOMAIN Parts[i] PROVE Parts[i][j] \in DeliveredFrames
      OBVIOUS
    <3>1. Parts[i][j] \in Frame
      BY <2>1
    <3>2. Parts[i][j].id \in 1 .. count
      BY <1>1 DEF FileBegun
    <3> QED BY <3>1, <3>2 DEF DeliveredFrames
  <2>3. PICK n \in Nat : Parts[i] \in [1 .. n -> Frame] /\ DOMAIN Parts[i] = 1 .. n
    BY <2>1
  <2>4. Parts[i] \in [1 .. n -> DeliveredFrames]
    BY <2>2, <2>3
  <2> QED BY <2>4
<1>3. Parts \in Seq(Seq(DeliveredFrames))
  <2>1. Parts \in [1 .. Len(files) + 1 -> Seq(DeliveredFrames)] /\ Len(files) + 1 \in Nat
    BY <1>1, <1>2
  <2> QED BY <2>1, MakesSeq
<1>4. files \in Seq(Seq(DeliveredFrames))
  <2>1. \A i \in 1 .. Len(files) : files[i] \in Seq(DeliveredFrames)
    BY <1>1, <1>2
  <2>2. files \in [1 .. Len(files) -> Seq(DeliveredFrames)]
    BY <1>1, <2>1
  <2> QED BY <1>1, <2>2, MakesSeq
<1>5. buffer \in Seq(DeliveredFrames)
  BY <1>1, <1>2
<1> QED BY <1>3, <1>4, <1>5, FlatType

\* The bytes of the frames in s.
LEMMA PayloadIs ==
    ASSUME NEW n \in Nat, NEW s \in Seq({f \in Frame : f.id \in 1 .. n}),
           NEW p \in Seq(Seq(Bytes)), n <= Len(p)
    PROVE  LET ss == [i \in DOMAIN s |-> p[s[i].id]]
           IN  /\ DOMAIN s = 1 .. Len(s) /\ Len(s) \in Nat /\ Len(ss) = Len(s)
               /\ DOMAIN ss = 1 .. Len(s) /\ ss \in Seq(Seq(Bytes))
               /\ FlattenSeq(ss) \in Seq(Bytes)
               /\ \A i \in 1 .. Len(s) : s[i] \in Frame /\ s[i].id \in 1 .. n
<1> DEFINE G == {g \in Frame : g.id \in 1 .. n}
           ss == [i \in DOMAIN s |-> p[s[i].id]]
           m == Len(s)
<1>1. /\ m \in Nat /\ DOMAIN s = 1 .. m /\ \A i \in 1 .. m : s[i] \in G
  BY LenProperties, ElementOfSeq
<1>2. \A k \in 1 .. n : p[k] \in Seq(Bytes)
  <2>1. Len(p) \in Nat /\ \A k \in 1 .. Len(p) : p[k] \in Seq(Bytes)
    BY LenProperties, ElementOfSeq
  <2> QED BY <2>1
<1>3. \A i \in 1 .. m : s[i] \in Frame /\ s[i].id \in 1 .. n /\ p[s[i].id] \in Seq(Bytes)
  BY <1>1, <1>2
<1>4. ss \in Seq(Seq(Bytes)) /\ Len(ss) = m /\ DOMAIN ss = 1 .. m
  <2>1. ss \in [1 .. m -> Seq(Bytes)]
    BY <1>1, <1>3
  <2> HIDE DEF ss, m
  <2> QED BY <1>1, <2>1, MakesSeq
<1>5. FlattenSeq(ss) \in Seq(Bytes)
  <2> HIDE DEF ss
  <2> QED BY <1>4, FlatType
<1> HIDE DEF ss
<1> QED BY <1>1, <1>3, <1>4, <1>5 DEF ss

\* The bytes of the frames s: what a packet p more adds to them.
LEMMA PayloadMore ==
    ASSUME NEW n \in Nat, NEW s \in Seq({f \in Frame : f.id \in 1 .. n}),
           NEW f \in Frame, f.id = n + 1,
           NEW p \in Seq(Seq(Bytes)), n + 1 <= Len(p)
    PROVE  LET B(r) == FlattenSeq([i \in DOMAIN r |-> p[r[i].id]])
           IN  B(s) \in Seq(Bytes) /\ B(Append(s, f)) = B(s) \o p[n + 1]
<1> DEFINE G == {g \in Frame : g.id \in 1 .. n}
           t == Append(s, f)
           ss == [i \in DOMAIN s |-> p[s[i].id]]
           tt == [i \in DOMAIN t |-> p[t[i].id]]
           m == Len(s)
<1>1. /\ m \in Nat /\ DOMAIN s = 1 .. m /\ \A i \in 1 .. m : s[i] \in G
  BY LenProperties, ElementOfSeq
<1>2. t \in Seq(Frame) /\ Len(t) = m + 1 /\ t[m + 1] = f /\ \A i \in 1 .. m : t[i] = s[i]
  <2>1. \A i \in 1 .. m : s[i] \in Frame
    BY <1>1
  <2>2. s \in [1 .. m -> Frame]
    BY <1>1, <2>1
  <2>3. s \in Seq(Frame)
    BY <1>1, <2>2
  <2> HIDE DEF G
  <2> QED BY <2>3, AppendProperties
<1>3. DOMAIN t = 1 .. m + 1
  BY <1>1, <1>2, LenProperties
<1>4. p[n + 1] \in Seq(Bytes)
  <2>1. n + 1 \in 1 .. Len(p)
    BY LenProperties
  <2> QED BY <2>1, ElementOfSeq
<1>6. ss \in Seq(Seq(Bytes)) /\ Len(ss) = m /\ DOMAIN ss = 1 .. m /\ FlattenSeq(ss) \in Seq(Bytes)
  <2>1. n <= Len(p)
    BY LenProperties
  <2> QED BY <2>1, PayloadIs
<1>7. tt = Append(ss, p[n + 1])
  <2> DEFINE a == Append(ss, p[n + 1])
  <2>2. a \in Seq(Seq(Bytes)) /\ Len(a) = m + 1 /\ a[m + 1] = p[n + 1]
        /\ \A i \in 1 .. m : a[i] = ss[i]
    <3> HIDE DEF ss
    <3> QED BY <1>4, <1>6, AppendProperties
  <2> HIDE DEF a
  <2>3. \A i \in 1 .. m + 1 : tt[i] = a[i]
    <3> SUFFICES ASSUME NEW i \in 1 .. m + 1 PROVE tt[i] = a[i]
      OBVIOUS
    <3>1. CASE i = m + 1
      BY <1>2, <1>3, <2>2, <3>1
    <3>2. CASE i # m + 1
      <4>1. i \in 1 .. m
        BY <1>1, <3>2
      <4>2. tt[i] = p[s[i].id] /\ a[i] = p[s[i].id]
        BY <1>1, <1>2, <1>3, <2>2, <4>1
      <4> QED BY <4>2
    <3> QED BY <3>1, <3>2
  <2>4. DOMAIN tt = 1 .. m + 1 /\ DOMAIN a = 1 .. m + 1
    BY <1>3, <2>2, <1>1, LenProperties
  <2>5. a = [i \in 1 .. m + 1 |-> a[i]] /\ tt = [i \in 1 .. m + 1 |-> tt[i]]
    <3>1. a = [i \in DOMAIN a |-> a[i]]
      BY <2>2
    <3> QED BY <1>3, <2>4, <3>1
  <2> HIDE DEF tt
  <2>6. tt = a
    BY <2>3, <2>5
  <2> QED BY <2>6 DEF a
<1> HIDE DEF ss, tt
<1>8. FlattenSeq(tt) = FlattenSeq(ss) \o p[n + 1]
  BY <1>4, <1>6, <1>7, FlatAppend
<1> QED BY <1>6, <1>8 DEF ss, tt, t

\* What they hold is a sequence of bytes.
LEMMA DeliveredIs ==
    ASSUME PipeTypeOK, FileBegun, count <= Len(payload)
    PROVE  Delivered \in Seq(Bytes)
<1>1. count \in Nat /\ payload \in Seq(Seq(Bytes))
  BY DEF PipeTypeOK, SinkTypeOK
<1>2. FlattenSeq(Parts) \in Seq({f \in Frame : f.id \in 1 .. count})
  BY FlatParts DEF DeliveredFrames
<1> QED BY <1>1, <1>2, PayloadIs DEF Delivered, PayloadOf

\* Nothing comes to the sink.
LEMMA DeliveredStays ==
    ASSUME PipeTypeOK, FileBegun, count <= Len(payload), UNCHANGED <<files, buffer>>,
           \A k \in 1 .. count : payload'[k] = payload[k]
    PROVE  Delivered' = Delivered
<1> DEFINE s == FlattenSeq(Parts)
<1>1. count \in Nat /\ payload \in Seq(Seq(Bytes))
  BY DEF PipeTypeOK, SinkTypeOK
<1>2. s \in Seq({f \in Frame : f.id \in 1 .. count})
  BY FlatParts DEF DeliveredFrames
<1>3. Parts' = Parts
  BY DEF Parts
<1>4. Delivered' = FlattenSeq([i \in DOMAIN s |-> payload'[s[i].id]])
  BY <1>3 DEF Delivered, PayloadOf
<1> HIDE DEF s
<1>5. \A i \in DOMAIN s : s[i].id \in 1 .. count
  BY <1>1, <1>2, PayloadIs
<1>6. [i \in DOMAIN s |-> payload'[s[i].id]] = [i \in DOMAIN s |-> payload[s[i].id]]
  BY <1>5
<1> QED BY <1>4, <1>6 DEF Delivered, PayloadOf, s

\* A packet comes to the sink: what is in it, unless it is dropped.
LEMMA DeliveredGets ==
    ASSUME PipeTypeOK, FileBegun, NEW t \in Times, NEW cut \in Nat, GetFrame(t, cut),
           count <= Len(payload), payload' \in Seq(Seq(Bytes)), count + 1 <= Len(payload'),
           \A k \in 1 .. count : payload'[k] = payload[k]
    PROVE  Delivered' = Delivered \o (IF cut > 0 THEN <<>> ELSE payload'[count + 1])
<1> DEFINE f == [time |-> t, id |-> count + 1]
           G == {g \in Frame : g.id \in 1 .. count}
           s == FlattenSeq(Parts)
           B(r, p) == FlattenSeq([i \in DOMAIN r |-> p[r[i].id]])
<1>1. /\ count \in Nat /\ payload \in Seq(Seq(Bytes)) /\ count' = count + 1
      /\ IF cut > 0 THEN Drop(cut) ELSE Collect(f)
  BY DEF PipeTypeOK, SinkTypeOK, GetFrame
<1>2. /\ s \in Seq(G) /\ files \in Seq(Seq(G)) /\ buffer \in Seq(G) /\ Parts \in Seq(Seq(G))
  BY FlatParts DEF DeliveredFrames
<1>3. f \in Frame /\ f.id = count + 1
  BY <1>1 DEF Frame
<1>4. Delivered = B(s, payload) /\ Delivered \in Seq(Bytes)
  BY DeliveredIs DEF Delivered, PayloadOf
<1>5. CASE cut > 0
  <2>1. UNCHANGED <<files, buffer>>
    BY <1>1, <1>5 DEF Drop
  <2>2. Delivered' = Delivered
    BY <2>1, DeliveredStays
  <2> QED BY <1>4, <1>5, <2>2, ConcatEmptySeq
<1>6. CASE ~(cut > 0)
  <2>1. FlattenSeq(Parts') = Append(s, f)
    <3>1. /\ Parts = Append(files, buffer) /\ Parts' = Append(files', buffer')
          /\ \/ files' = Append(files, buffer) /\ buffer' = <<f>>
             \/ files' = files /\ buffer' = Append(buffer, f)
      BY <1>1, <1>6 DEF Collect, Parts
    <3> HIDE DEF f, G, s
    <3> DEFINE F == G \cup {f}
    <3>2. /\ f \in F /\ <<f>> \in Seq(F) /\ s \in Seq(F) /\ buffer \in Seq(F)
      <4>1. G \subseteq F
        OBVIOUS
      <4>2. \A q : q \in Seq(G) => q \in Seq(F)
        BY <4>1
      <4> QED BY <1>2, <4>2
    <3>3. files \in Seq(Seq(F)) /\ Parts \in Seq(Seq(F))
      <4>1. Seq(G) \subseteq Seq(F)
        OBVIOUS
      <4> HIDE DEF F
      <4>2. \A q : q \in Seq(Seq(G)) => q \in Seq(Seq(F))
        <5> DEFINE X == Seq(G)
                   Y == Seq(F)
        <5> HIDE DEF X, Y
        <5>1. X \subseteq Y => \A q : q \in Seq(X) => q \in Seq(Y)
          OBVIOUS
        <5> QED BY <4>1, <5>1 DEF X, Y
      <4> QED BY <1>2, <4>2
    <3> HIDE DEF F
    <3>4. s \o <<f>> = Append(s, f)
      BY <3>2, AppendIsConcat
    <3>5. CASE files' = Append(files, buffer) /\ buffer' = <<f>>
      <4>1. Parts' = Append(Parts, <<f>>)
        BY <3>1, <3>5
      <4>2. FlattenSeq(Append(Parts, <<f>>)) = s \o <<f>>
        BY <3>2, <3>3, FlatAppend DEF s
      <4> QED BY <3>4, <4>1, <4>2
    <3>6. CASE files' = files /\ buffer' = Append(buffer, f)
      <4> DEFINE e == FlattenSeq(files)
      <4>1. e \in Seq(F) /\ Append(buffer, f) \in Seq(F)
        BY <3>2, <3>3, FlatType, AppendProperties
      <4>2. s = e \o buffer
        BY <3>1, <3>2, <3>3, FlatAppend DEF s
      <4>3. FlattenSeq(Append(files, Append(buffer, f))) = e \o Append(buffer, f)
        BY <3>3, <4>1, FlatAppend
      <4> HIDE DEF e
      <4>4. e \o Append(buffer, f) = Append(e \o buffer, f)
        BY <3>2, <4>1, AppendLast
      <4> QED BY <3>1, <3>6, <4>2, <4>3, <4>4
    <3> QED BY <3>1, <3>5, <3>6
  <2>2. Delivered' = B(Append(s, f), payload')
    BY <2>1 DEF Delivered, PayloadOf
  <2>3. B(Append(s, f), payload') = B(s, payload') \o payload'[count + 1]
    <3> HIDE DEF s, f
    <3> QED BY <1>1, <1>2, <1>3, PayloadMore
  <2>4. B(s, payload') = B(s, payload)
    <3> HIDE DEF s
    <3>1. \A i \in DOMAIN s : s[i].id \in 1 .. count
      BY <1>1, <1>2, PayloadIs
    <3>2. [i \in DOMAIN s |-> payload'[s[i].id]] = [i \in DOMAIN s |-> payload[s[i].id]]
      BY <3>1
    <3> QED BY <3>2
  <2> QED BY <1>4, <1>6, <2>2, <2>3, <2>4
<1> QED BY <1>1, <1>5, <1>6

-----------------------------------------------------------------------------
(* The bytes on their way.                                                 *)

WholeFrame(n) == [k \in 1 .. arrived[n] |-> <<n, k>>]

\* The record is in use as long as packets are cut from its buffer, it is not
\* while it is filled, it is waited for only as long as it is not full enough,
\* and what the sink has no room for is empty.
RecordInv ==
    /\ waiting => HeaderSize + Len(pes) < LowWater
    /\ waiting \/ pc = "await" => ~inUse
    /\ inUse => filled > 0
    /\ pc = "await old" => inUse /\ used >= filled
    /\ (pc = "next" \/ task) /\ filled > 0 => inUse
    /\ task /\ missing > 0 => payload[packets] = <<>>
    /\ \A i \in DOMAIN backlog : \E n \in DOMAIN arrived : backlog[i].bytes = WholeFrame(n)

\* The bytes of the frames in a backlog.
LEMMA BacklogBytes ==
    ASSUME NEW R, NEW q \in Seq(R), \A r \in R : r.bytes \in Seq(Bytes)
    PROVE  LET ss == [i \in DOMAIN q |-> q[i].bytes]
           IN  /\ DOMAIN q = 1 .. Len(q) /\ Len(q) \in Nat
               /\ ss \in Seq(Seq(Bytes)) /\ Len(ss) = Len(q) /\ DOMAIN ss = 1 .. Len(q)
               /\ FlattenSeq(ss) \in Seq(Bytes)
<1> DEFINE ss == [i \in DOMAIN q |-> q[i].bytes]
           m == Len(q)
<1>1. m \in Nat /\ DOMAIN q = 1 .. m /\ \A i \in 1 .. m : q[i] \in R
  BY LenProperties, ElementOfSeq
<1>2. ss \in [1 .. m -> Seq(Bytes)]
  BY <1>1
<1> HIDE DEF ss, m
<1>3. ss \in Seq(Seq(Bytes)) /\ Len(ss) = m /\ DOMAIN ss = 1 .. m
  BY <1>1, <1>2, MakesSeq
<1>4. FlattenSeq(ss) \in Seq(Bytes)
  BY <1>3, FlatType
<1> QED BY <1>1, <1>3, <1>4 DEF ss, m

\* One frame more in the backlog.
LEMMA BacklogMore ==
    ASSUME NEW R, NEW q \in Seq(R), NEW f \in R, \A r \in R : r.bytes \in Seq(Bytes)
    PROVE  LET B(p) == FlattenSeq([i \in DOMAIN p |-> p[i].bytes])
           IN  B(Append(q, f)) = B(q) \o f.bytes
<1> DEFINE t == Append(q, f)
           ss == [i \in DOMAIN q |-> q[i].bytes]
           tt == [i \in DOMAIN t |-> t[i].bytes]
           a == Append(ss, f.bytes)
           m == Len(q)
<1>1. t \in Seq(R) /\ Len(t) = m + 1 /\ t[m + 1] = f /\ \A i \in 1 .. m : t[i] = q[i]
  BY AppendProperties
<1>2. /\ m \in Nat /\ DOMAIN q = 1 .. m
      /\ ss \in Seq(Seq(Bytes)) /\ Len(ss) = m /\ DOMAIN ss = 1 .. m
      /\ f.bytes \in Seq(Bytes)
  BY BacklogBytes
<1>3. tt \in Seq(Seq(Bytes)) /\ Len(tt) = m + 1
  <2> HIDE DEF t
  <2> QED BY <1>1, BacklogBytes
<1>4. a \in Seq(Seq(Bytes)) /\ Len(a) = m + 1 /\ a[m + 1] = f.bytes
      /\ \A i \in 1 .. m : a[i] = ss[i]
  <2> HIDE DEF ss
  <2> QED BY <1>2, AppendProperties
<1>5. DOMAIN t = 1 .. m + 1
  BY <1>1, <1>2, LenProperties
<1> HIDE DEF t, a
<1>6. ASSUME NEW i \in 1 .. m + 1 PROVE tt[i] = a[i]
  <2>1. CASE i = m + 1
    BY <1>1, <1>4, <1>5, <2>1
  <2>2. CASE i # m + 1
    <3>1. i \in 1 .. m
      BY <1>2, <2>2
    <3>2. tt[i] = q[i].bytes /\ a[i] = q[i].bytes
      BY <1>1, <1>2, <1>4, <1>5, <3>1
    <3> QED BY <3>2
  <2> QED BY <2>1, <2>2
<1> HIDE DEF tt, ss
<1>7. tt = a
  BY <1>3, <1>4, <1>6, SeqEqual
<1>8. FlattenSeq(a) = FlattenSeq(ss) \o f.bytes
  BY <1>2, FlatAppend DEF a
<1> QED BY <1>7, <1>8 DEF tt, ss, t

\* The first frame of a backlog and the others.
LEMMA BacklogHead ==
    ASSUME NEW R, NEW q \in Seq(R), q # <<>>, \A r \in R : r.bytes \in Seq(Bytes)
    PROVE  LET B(p) == FlattenSeq([i \in DOMAIN p |-> p[i].bytes])
           IN  B(q) = Head(q).bytes \o B(Tail(q))
<1> DEFINE t == Tail(q)
           ss == [i \in DOMAIN q |-> q[i].bytes]
           tt == [i \in DOMAIN t |-> t[i].bytes]
           m == Len(q)
<1>1. /\ m \in Nat /\ m >= 1 /\ t \in Seq(R) /\ Len(t) = m - 1 /\ Head(q) = q[1]
      /\ \A i \in 1 .. m - 1 : t[i] = q[i + 1]
  BY HeadTailProperties, LenProperties, EmptySeq
<1>2. /\ DOMAIN q = 1 .. m
      /\ ss \in Seq(Seq(Bytes)) /\ Len(ss) = m /\ DOMAIN ss = 1 .. m
  BY BacklogBytes
<1>3. tt \in Seq(Seq(Bytes)) /\ Len(tt) = m - 1
  <2> HIDE DEF t
  <2> QED BY <1>1, BacklogBytes
<1>4. DOMAIN t = 1 .. m - 1
  BY <1>1, LenProperties
<1>5. ss # <<>> /\ Head(ss) = ss[1] /\ Tail(ss) \in Seq(Seq(Bytes)) /\ Len(Tail(ss)) = m - 1
      /\ \A i \in 1 .. m - 1 : Tail(ss)[i] = ss[i + 1]
  <2> HIDE DEF ss
  <2>1. ss # <<>>
    BY <1>1, <1>2, EmptySeq
  <2>2. Head(ss) = ss[1] /\ Tail(ss) \in Seq(Seq(Bytes)) /\ Len(Tail(ss)) = m - 1
    BY <1>1, <1>2, <2>1, HeadTailProperties
  <2>3. \A i \in 1 .. m - 1 : Tail(ss)[i] = ss[i + 1]
    BY <1>2, <2>1, <2>2, HeadTailProperties
  <2> QED BY <2>1, <2>2, <2>3
<1> HIDE DEF t
<1>6. ASSUME NEW i \in 1 .. m - 1 PROVE tt[i] = Tail(ss)[i]
  <2>1. i + 1 \in 1 .. m
    BY <1>1
  <2>2. tt[i] = q[i + 1].bytes /\ ss[i + 1] = q[i + 1].bytes
    BY <1>1, <1>2, <1>4, <2>1
  <2> QED BY <1>5, <2>2
<1>7. ss[1] = Head(q).bytes
  <2>1. 1 \in 1 .. m
    BY <1>1
  <2> QED BY <1>1, <1>2, <2>1
<1> HIDE DEF tt, ss
<1>8. tt = Tail(ss)
  <2> DEFINE u == Tail(ss)
  <2>1. u \in Seq(Seq(Bytes)) /\ Len(u) = Len(tt) /\ \A i \in 1 .. Len(tt) : tt[i] = u[i]
    BY <1>3, <1>5, <1>6
  <2> HIDE DEF u
  <2>2. tt = u
    BY <1>3, <2>1, SeqEqual
  <2> QED BY <2>2 DEF u
<1>9. FlattenSeq(ss) = Head(ss) \o FlattenSeq(Tail(ss))
  BY <1>2, <1>5, FlatHead
<1> QED BY <1>5, <1>7, <1>8, <1>9 DEF tt, ss, t

\* The parts of the stream.
LEMMA StreamParts ==
    ASSUME PipeInv, RecordInv
    PROVE  /\ Delivered \in Seq(Bytes) /\ InTask \in Seq(Bytes) /\ InRecord \in Seq(Bytes)
           /\ InBacklog \in Seq(Bytes)
           /\ count \in Nat /\ count <= Len(payload) /\ Len(payload) = packets
           /\ payload \in Seq(Seq(Bytes)) /\ packets \in Nat
           /\ pc \in {"await", "await old"} => InRecord = Kept
           /\ waiting => InRecord = pes
<1>1. PipeTypeOK /\ FileBegun /\ AllDelivered /\ InputFits
  BY DEF PipeInv
<1>2. /\ count \in Nat /\ packets = Len(payload) /\ payload \in Seq(Seq(Bytes))
      /\ packets \in Nat /\ backlog \in Seq([time : Times, bytes : Seq(Bytes)])
      /\ pes \in Seq(Bytes) /\ used \in Nat /\ filled \in Nat
  BY <1>1, PipeTypes DEF PipeTypeOK, SinkTypeOK
<1>3. count <= Len(payload)
  BY <1>1, <1>2 DEF AllDelivered
<1>4. Delivered \in Seq(Bytes)
  BY <1>1, <1>3, DeliveredIs
<1>5. InTask \in Seq(Bytes)
  <2>1. CASE task
    <3>1. packets \in 1 .. Len(payload)
      BY <1>1, <1>2, <2>1 DEF AllDelivered
    <3> QED BY <1>2, <2>1, <3>1, ElementOfSeq DEF InTask
  <2>2. CASE ~task
    BY <2>2, EmptySeq DEF InTask
  <2> QED BY <2>1, <2>2
<1>6. used >= filled => Between(used, filled) = <<>>
  BY <1>1, <1>2, BetweenParts
<1>7. InRecord \in Seq(Bytes)
  <2>1. used < filled => Between(used, filled) \in Seq(Bytes)
    <3> SUFFICES ASSUME used < filled PROVE Between(used, filled) \in Seq(Bytes)
      OBVIOUS
    <3>1. filled = HeaderSize + Len(pes)
      BY <1>1 DEF InputFits
    <3>2. filled <= HeaderSize + Len(pes)
      BY <1>2, <3>1
    <3> QED BY <1>1, <1>2, <3>2, BetweenIs
  <2>2. Between(used, filled) \in Seq(Bytes)
    <3>1. CASE used < filled
      BY <2>1, <3>1
    <3>2. CASE ~(used < filled)
      <4>1. Between(used, filled) = <<>>
        BY <1>2, <1>6, <3>2
      <4>2. <<>> \in Seq(Bytes)
        OBVIOUS
      <4> QED BY <4>1, <4>2
    <3> QED BY <3>1, <3>2
  <2> QED BY <1>2, <2>2 DEF InRecord
<1>8. InBacklog \in Seq(Bytes)
  <2> DEFINE R == [time : Times, bytes : Seq(Bytes)]
  <2>1. \A r \in R : r.bytes \in Seq(Bytes)
    OBVIOUS
  <2> HIDE DEF R
  <2> QED BY <1>2, <2>1, BacklogBytes DEF InBacklog, R
<1>9. pc \in {"await", "await old"} => InRecord = Kept
  BY <1>6 DEF RecordInv, InRecord, Kept
<1>10. waiting => InRecord = pes
  BY DEF RecordInv, InRecord
<1> QED BY <1>2, <1>3, <1>4, <1>5, <1>7, <1>8, <1>9, <1>10

\* A step that leaves the stream as it is.
LEMMA SameStream ==
    ASSUME EveryByteOnce, Stream' = Stream, UNCHANGED <<arrived, cutOff>>
    PROVE  EveryByteOnce'
<1>1. ArrivedBytes' = ArrivedBytes
  BY DEF ArrivedBytes
<1>2. Ordered(Stream)' /\ (ToSet(Stream) = ArrivedBytes \ cutOff)'
  BY <1>1 DEF EveryByteOnce, Ordered
<1>3. (\A b \in cutOff : b \in ArrivedBytes /\ arrived[b[1]] > MaxInput)'
  BY <1>1 DEF EveryByteOnce
<1> QED BY <1>2, <1>3 DEF EveryByteOnce

-----------------------------------------------------------------------------
(* The stream in each step.                                                *)

\* Steps that move no bytes.
LEMMA NothingMoves ==
    ASSUME PipeInv, RecordInv,
           UNCHANGED <<files, buffer, backlog, waiting, pes, inUse, filled, used>>,
           UNCHANGED <<packets, missing, task, arrived, payload>>
    PROVE  /\ Stream' = Stream
           /\ /\ pc' = "await" => ~inUse
              /\ pc' = "await old" => inUse /\ used >= filled
              /\ pc' = "next" /\ filled > 0 => inUse
              => RecordInv'
<1>1. PipeTypeOK /\ FileBegun /\ count <= Len(payload)
  BY StreamParts DEF PipeInv
<1>2. Delivered' = Delivered
  BY <1>1, DeliveredStays
<1>3. InTask' = InTask
  BY DEF InTask
<1>4. InRecord' = InRecord
  BY DEF InRecord, Between
<1>5. InBacklog' = InBacklog
  BY DEF InBacklog
<1>6. Stream' = Stream
  BY <1>2, <1>3, <1>4, <1>5 DEF Stream
<1>7. ASSUME pc' = "await" => ~inUse,
             pc' = "await old" => inUse /\ used >= filled,
             pc' = "next" /\ filled > 0 => inUse
      PROVE  RecordInv'
  BY <1>7 DEF RecordInv, WholeFrame
<1> QED BY <1>6, <1>7

\* The source, the multiplexor and the sink come to be empty.
LEMMA BuildStream == ASSUME PipeInv, RecordInv, Build PROVE RecordInv' /\ Stream' = Stream
<1>1. /\ pc' = "next" /\ filled = 0
      /\ UNCHANGED <<files, buffer, backlog, waiting, pes, inUse, filled, used>>
      /\ UNCHANGED <<packets, missing, task, arrived, payload>>
  <2>1. ~built
    BY DEF Build, Runs, PipeInv, Begins
  <2> QED BY <2>1 DEF Build, Play, feedVars, recordVars, muxVars, historyVars, PipeInv, OneCall
<1> QED BY <1>1, NothingMoves

LEMMA DescribeStream == ASSUME PipeInv, RecordInv, Describe PROVE RecordInv' /\ Stream' = Stream
<1>1. /\ pc = "idle" /\ UNCHANGED pc
      /\ UNCHANGED <<files, buffer, backlog, waiting, pes, inUse, filled, used>>
      /\ UNCHANGED <<packets, missing, task, arrived, payload>>
  BY DEF Describe, sinkVars, feedVars, recordVars, muxVars, historyVars
<1> QED BY <1>1, NothingMoves

\* The multiplexor asks for a buffer only when it has used up the last.
LEMMA NeedBufferStream ==
    ASSUME PipeInv, RecordInv, NeedBuffer
    PROVE  RecordInv' /\ Stream' = Stream
<1>1. /\ pc = "next" /\ used >= filled
      /\ pc' = IF filled = 0 THEN "await" ELSE "await old"
      /\ UNCHANGED <<files, buffer, backlog, waiting, pes, inUse, filled, used>>
      /\ UNCHANGED <<packets, missing, task, arrived, payload>>
  BY DEF NeedBuffer, sinkVars, feedVars, recordVars, muxVars, historyVars
<1>2. filled \in Nat
  BY PipeTypes DEF PipeInv
<1>3. /\ pc' = "await" => ~inUse
      /\ pc' = "await old" => inUse /\ used >= filled
      /\ pc' # "next"
  <2>1. CASE filled = 0
    BY <1>1, <2>1 DEF RecordInv
  <2>2. CASE filled # 0
    <3>1. filled > 0
      BY <1>2, <2>2
    <3> QED BY <1>1, <2>2, <3>1 DEF RecordInv
  <2> QED BY <2>1, <2>2
<1> QED BY <1>1, <1>3, NothingMoves

\* What waited in the task goes to the sink, which drops it only if nothing is
\* in it.
LEMMA HandleTaskStream ==
    ASSUME PipeInv, RecordInv, HandleTask
    PROVE  RecordInv' /\ Stream' = Stream
<1>1. /\ pc = "idle" /\ task /\ task' = FALSE /\ GetFrame(time, missing) /\ pc' = "next"
      /\ UNCHANGED <<backlog, waiting, pes, inUse, filled, used>>
      /\ UNCHANGED <<packets, missing, time, arrived, payload>>
  BY DEF HandleTask, feedVars, recordVars, historyVars
<1>2. /\ PipeTypeOK /\ FileBegun /\ count + 1 = packets
      /\ missing \in Nat /\ time \in Times
  <2>1. count + 1 = packets
    BY <1>1 DEF PipeInv, AllDelivered
  <2>2. time # 0 /\ time \in Times \cup {0} /\ missing \in {0, PacketSize}
    BY <1>1 DEF PipeInv, InputFits, PipeTypeOK
  <2> QED BY <2>1, <2>2, PipeConsts DEF PipeInv
<1>3. /\ Delivered \in Seq(Bytes) /\ InTask \in Seq(Bytes) /\ InRecord \in Seq(Bytes)
      /\ InBacklog \in Seq(Bytes)
      /\ payload \in Seq(Seq(Bytes)) /\ Len(payload) = packets /\ count <= Len(payload)
  BY StreamParts
<1>4. Delivered' = Delivered \o InTask
  <2>1. Delivered' = Delivered \o (IF missing > 0 THEN <<>> ELSE payload'[count + 1])
    <3>1. payload' \in Seq(Seq(Bytes)) /\ count + 1 <= Len(payload')
          /\ \A k \in 1 .. count : payload'[k] = payload[k]
      BY <1>1, <1>2, <1>3
    <3> QED BY <1>1, <1>2, <1>3, <3>1, DeliveredGets
  <2>2. InTask = IF missing > 0 THEN <<>> ELSE payload'[count + 1]
    BY <1>1, <1>2 DEF InTask, RecordInv
  <2> QED BY <2>1, <2>2
<1>5. InTask' = <<>> /\ InRecord' = InRecord /\ InBacklog' = InBacklog
  BY <1>1 DEF InTask, InRecord, Between, InBacklog
<1>6. Stream' = Stream
  <2> DEFINE d == Delivered
             t == InTask
             r == InRecord \o InBacklog
  <2>1. d \in Seq(Bytes) /\ t \in Seq(Bytes) /\ r \in Seq(Bytes)
    BY <1>3, ConcatProperties
  <2>2. Stream = d \o (t \o r)
    BY DEF Stream
  <2>3. Stream' = (d \o t) \o (<<>> \o r)
    BY <1>4, <1>5 DEF Stream
  <2> HIDE DEF d, t, r
  <2>4. (d \o t) \o r = d \o (t \o r) /\ <<>> \o r = r
    BY <2>1, ConcatAssociative, ConcatEmptySeq
  <2> QED BY <2>2, <2>3, <2>4
<1>7. RecordInv'
  BY <1>1 DEF RecordInv, WholeFrame
<1> QED BY <1>6, <1>7

\* A buffer taken from the record, and the backlog behind it.
LEMMA Regroup ==
    ASSUME NEW S, NEW e \in Seq(S), NEW b \in Seq(S), NEW q \in Seq(S)
    PROVE  b \o q \in Seq(S) /\ <<>> \o ((e \o b) \o q) = e \o (b \o q)
<1> DEFINE y == e \o b
<1>1. b \o q \in Seq(S) /\ y \in Seq(S)
  BY ConcatProperties
<1>2. y \o q = e \o (b \o q)
  BY ConcatAssociative
<1> HIDE DEF y
<1>3. y \o q \in Seq(S)
  BY <1>1, ConcatProperties
<1>4. <<>> \o (y \o q) = y \o q
  BY <1>3, ConcatEmptySeq
<1> QED BY <1>1, <1>2, <1>4 DEF y

\* Writing a packet moves its bytes from the record's buffer to the packet.
LEMMA PacketBytes ==
    ASSUME PipeInv, DeliverPacket
    PROVE  /\ payload' \in Seq(Seq(Bytes)) /\ Len(payload') = packets + 1
           /\ \A k \in 1 .. packets : payload'[k] = payload[k]
           /\ payload'[packets + 1] \in Seq(Bytes)
           /\ Between(used', filled) \in Seq(Bytes)
           /\ payload'[packets + 1] \o Between(used', filled) = Between(used, filled)
           /\ room < PacketSize => payload'[packets + 1] = <<>>
<1>1. /\ PipeTypeOK /\ InputFits /\ used < filled
      /\ IF PatDue \/ PmtDue THEN SendTable ELSE SendData
  BY DEF PipeInv, DeliverPacket
<1>2. /\ used \in Nat /\ filled \in Nat /\ packets \in Nat /\ Len(pes) \in Nat
      /\ filled = HeaderSize + Len(pes) /\ filled <= HeaderSize + Len(pes)
      /\ payload \in Seq(Seq(Bytes)) /\ packets = Len(payload)
      /\ used' \in Nat /\ used <= used' /\ used' <= filled
      /\ room < PacketSize => used' = used
  <2>1. filled = HeaderSize + Len(pes)
    BY <1>1 DEF InputFits
  <2>2. used \in Nat /\ filled \in Nat /\ packets \in Nat /\ Len(pes) \in Nat
    BY <1>1, PipeTypes
  <2>3. payload \in Seq(Seq(Bytes)) /\ packets = Len(payload)
    BY <1>1 DEF PipeTypeOK
  <2>4. used' \in Nat /\ used' >= used /\ used' <= filled /\ (room < PacketSize => used' = used)
    BY PacketCut
  <2>5. used <= used' /\ filled <= HeaderSize + Len(pes)
    BY <2>1, <2>2, <2>4, PipeConsts
  <2> QED BY <2>1, <2>2, <2>3, <2>4, <2>5
<1>3. Between(used', filled) \in Seq(Bytes) /\ Between(used, filled) \in Seq(Bytes)
  BY <1>1, <1>2, BetweenIs
<1>4. PICK e \in Seq(Bytes) : /\ payload' = Append(payload, e)
                              /\ e \o Between(used', filled) = Between(used, filled)
                              /\ room < PacketSize => e = <<>>
  <2>1. CASE SendTable
    <3>1. payload' = Append(payload, <<>>) /\ used' = used
      BY <2>1 DEF SendTable
    <3>2. <<>> \in Seq(Bytes) /\ <<>> \o Between(used', filled) = Between(used, filled)
      BY <1>3, <3>1, ConcatEmptySeq
    <3> QED BY <3>1, <3>2
  <2>2. CASE SendData
    <3> DEFINE e == Between(used, used')
    <3>1. payload' = Append(payload, e)
      BY <2>2 DEF SendData
    <3>2. e \in Seq(Bytes)
      <4>1. used' <= HeaderSize + Len(pes)
        BY <1>2, PipeConsts
      <4> QED BY <1>1, <1>2, <4>1, BetweenIs
    <3>3. e \o Between(used', filled) = Between(used, filled)
      BY <1>1, <1>2, BetweenParts
    <3>4. room < PacketSize => e = <<>>
      <4> SUFFICES ASSUME room < PacketSize PROVE e = <<>>
        OBVIOUS
      <4>1. used' <= used
        BY <1>2
      <4> QED BY <1>1, <1>2, <4>1, BetweenParts
    <3> QED BY <3>1, <3>2, <3>3, <3>4
  <2> QED BY <1>1, <2>1, <2>2
<1>5. /\ payload' \in Seq(Seq(Bytes)) /\ Len(payload') = packets + 1
      /\ \A k \in 1 .. packets : payload'[k] = payload[k]
      /\ payload'[packets + 1] = e
  BY <1>2, <1>4, AppendProperties
<1> QED BY <1>3, <1>4, <1>5

\* A packet goes to the sink or to the task.
LEMMA DeliverPacketStream ==
    ASSUME PipeInv, RecordInv, DeliverPacket
    PROVE  RecordInv' /\ Stream' = Stream
<1> DEFINE e == payload'[packets + 1]
<1>1. /\ pc = "next" /\ used < filled /\ packets' = packets + 1
      /\ missing' = IF room < PacketSize THEN PacketSize ELSE 0
      /\ UNCHANGED <<backlog, waiting, pes, inUse, filled, time, arrived>>
      /\ \/ task' = TRUE /\ pc' = "idle" /\ UNCHANGED <<files, buffer, count>>
         \/ GetFrame(time, missing') /\ UNCHANGED <<task, pc>>
  BY DEF DeliverPacket, feedVars, recordVars, sinkVars
<1>2. /\ PipeTypeOK /\ FileBegun /\ InputFits /\ AllDelivered /\ OneCall
      /\ task = FALSE /\ waiting = FALSE /\ inUse = TRUE
      /\ used \in Nat /\ filled \in Nat /\ packets \in Nat /\ count = packets /\ room \in Nat
      /\ time \in Times /\ missing' \in Nat
  <2>1. PipeTypeOK /\ FileBegun /\ InputFits /\ AllDelivered /\ OneCall
    BY DEF PipeInv
  <2>2. task \in BOOLEAN /\ waiting \in BOOLEAN /\ inUse \in BOOLEAN /\ room \in Nat
        /\ time \in Times \cup {0}
    BY <2>1 DEF PipeTypeOK, SinkTypeOK
  <2>3. task = FALSE /\ waiting = FALSE /\ inUse = TRUE
    BY <1>1, <2>1, <2>2 DEF OneCall, InputFits
  <2>4. used \in Nat /\ filled \in Nat /\ packets \in Nat
    BY <2>1, PipeTypes
  <2>5. time # 0
    BY <1>1, <2>1, <2>4 DEF InputFits
  <2> QED BY <1>1, <2>1, <2>2, <2>3, <2>4, <2>5, PipeConsts DEF AllDelivered
<1>3. /\ payload' \in Seq(Seq(Bytes)) /\ Len(payload') = packets + 1
      /\ \A k \in 1 .. packets : payload'[k] = payload[k]
      /\ e \in Seq(Bytes)
      /\ Between(used', filled) \in Seq(Bytes)
      /\ e \o Between(used', filled) = Between(used, filled)
      /\ room < PacketSize => e = <<>>
  BY PacketBytes
<1>4. missing' > 0 => e = <<>>
  BY <1>1, <1>2, <1>3
<1>5. /\ Delivered \in Seq(Bytes) /\ InTask \in Seq(Bytes) /\ InRecord \in Seq(Bytes)
      /\ InBacklog \in Seq(Bytes)
      /\ payload \in Seq(Seq(Bytes)) /\ Len(payload) = packets /\ count <= Len(payload)
  BY StreamParts
<1>6. /\ InTask = <<>> /\ InRecord = Between(used, filled)
      /\ InRecord' = Between(used', filled) /\ InBacklog' = InBacklog
  BY <1>1, <1>2 DEF InTask, InRecord, Between, InBacklog
<1>7. Delivered' \o InTask' = Delivered \o e /\ Delivered' \in Seq(Bytes) /\ InTask' \in Seq(Bytes)
  <2>1. CASE task' = TRUE /\ pc' = "idle" /\ UNCHANGED <<files, buffer, count>>
    <3>1. Delivered' = Delivered
      BY <1>2, <1>3, <1>5, <2>1, DeliveredStays
    <3>2. InTask' = e
      BY <1>1, <2>1 DEF InTask
    <3> QED BY <1>3, <1>5, <3>1, <3>2
  <2>2. CASE GetFrame(time, missing') /\ UNCHANGED <<task, pc>>
    <3>1. Delivered' = Delivered \o (IF missing' > 0 THEN <<>> ELSE payload'[count + 1])
      BY <1>2, <1>3, <1>5, <2>2, DeliveredGets
    <3>2. Delivered' = Delivered \o e
      BY <1>2, <1>4, <3>1
    <3>3. InTask' = <<>>
      BY <1>2, <2>2 DEF InTask
    <3>4. Delivered \o e \in Seq(Bytes)
      BY <1>3, <1>5, ConcatProperties
    <3>5. (Delivered \o e) \o <<>> = Delivered \o e
      <4> DEFINE x == Delivered \o e
      <4> HIDE DEF x, e
      <4>1. x \o <<>> = x
        BY <3>4, ConcatEmptySeq DEF x
      <4> QED BY <4>1 DEF x
    <3>6. <<>> \in Seq(Bytes)
      OBVIOUS
    <3> QED BY <3>2, <3>3, <3>4, <3>5, <3>6
  <2> QED BY <1>1, <2>1, <2>2
<1>8. Stream' = Stream
  <2> DEFINE d == Delivered
             f == Delivered'
             t == InTask'
             b == Between(used', filled)
             q == InBacklog
  <2>1. /\ d \in Seq(Bytes) /\ f \in Seq(Bytes) /\ t \in Seq(Bytes) /\ b \in Seq(Bytes)
        /\ q \in Seq(Bytes) /\ e \in Seq(Bytes) /\ f \o t = d \o e
    BY <1>3, <1>5, <1>7
  <2>2. Stream = d \o (<<>> \o ((e \o b) \o q))
    BY <1>3, <1>6 DEF Stream
  <2>3. Stream' = f \o (t \o (b \o q))
    BY <1>6 DEF Stream
  <2> HIDE DEF d, f, t, b, q, e
  <2> DEFINE z == b \o q
  <2>4. z \in Seq(Bytes) /\ <<>> \o ((e \o b) \o q) = e \o z
    <3>1. e \in Seq(Bytes) /\ b \in Seq(Bytes) /\ q \in Seq(Bytes)
      BY <2>1
    <3> QED BY <3>1, Regroup
  <2>5. Stream = d \o (e \o z) /\ Stream' = f \o (t \o z)
    BY <2>2, <2>3, <2>4
  <2> HIDE DEF z
  <2>6. f \o (t \o z) = d \o (e \o z)
    <3>1. \A x, y \in Seq(Bytes) : (x \o y) \o z = x \o (y \o z)
      <4>1. z \in Seq(Bytes)
        BY <2>4
      <4> QED BY <4>1, ConcatAssociative
    <3>2. d \in Seq(Bytes) /\ e \in Seq(Bytes) /\ f \in Seq(Bytes) /\ t \in Seq(Bytes)
      BY <2>1
    <3>3. (f \o t) \o z = f \o (t \o z)
      BY <3>1, <3>2, Zenon
    <3>4. (d \o e) \o z = d \o (e \o z)
      BY <3>1, <3>2, Zenon
    <3>5. f \o t = d \o e
      BY <2>1
    <3> QED BY <3>3, <3>4, <3>5, Zenon
  <2> QED BY <2>5, <2>6
<1>9. RecordInv'
  <2>1. task' /\ missing' > 0 => payload'[packets'] = <<>>
    BY <1>1, <1>4
  <2> QED BY <1>1, <1>2, <2>1 DEF RecordInv, WholeFrame
<1> QED BY <1>8, <1>9

\* A full record is what the next packets are cut from.
LEMMA DeliverBufferStream ==
    ASSUME PipeInv, RecordInv, AwaitNewBuffer, Enough(Kept)
    PROVE  RecordInv' /\ Stream' = Stream
<1>1. /\ pc \in {"await", "await old"}
      /\ inUse' = TRUE /\ pes' = Kept /\ filled' = HeaderSize + Len(Kept) /\ used' = 0
      /\ pc' = "next"
      /\ UNCHANGED <<backlog, waiting, cutOff>>
      /\ UNCHANGED <<files, buffer, packets, missing, task, arrived, payload>>
  BY DEF AwaitNewBuffer, DeliverBuffer, sinkVars
<1>2. /\ PipeTypeOK /\ FileBegun /\ OneCall /\ InputFits
      /\ pes \in Seq(Bytes) /\ Len(pes) \in Nat /\ ~waiting /\ ~task
  BY <1>1, PipeTypes DEF PipeInv, OneCall
<1>3. Kept = pes /\ pc = "await" /\ filled' > 0
  <2>1. CASE pc = "await old"
    <3>1. Kept = <<>> /\ HeaderSize + 0 >= LowWater
      <4>1. Kept = <<>> /\ Len(<<>>) = 0
        BY <2>1 DEF Kept
      <4> QED BY <4>1 DEF Enough
    <3> QED BY <3>1, PipeConsts
  <2>2. CASE pc = "await"
    <3>1. Kept = pes
      BY <2>2 DEF Kept
    <3>2. HeaderSize + Len(pes) > 0
      BY <1>2, <3>1, PipeConsts DEF Enough
    <3> QED BY <1>1, <2>2, <3>1, <3>2
  <2> QED BY <1>1, <2>1, <2>2
<1>4. InRecord' = InRecord
  <2>1. InRecord = pes
    BY <1>3 DEF RecordInv, InRecord
  <2>2. InRecord' = SubSeq(pes, 1, Len(pes))
    <3>1. InRecord' = SubSeq(pes, IF 0 < HeaderSize THEN 1 ELSE 0 - HeaderSize + 1,
                             HeaderSize + Len(pes) - HeaderSize)
      <4>1. inUse' = TRUE /\ pes' = pes /\ used' = 0 /\ filled' = HeaderSize + Len(pes)
        BY <1>1, <1>3
      <4>2. InRecord' = Between(used, filled)'
        BY <4>1 DEF InRecord
      <4>3. Between(used, filled)' = SubSeq(pes', IF used' < HeaderSize THEN 1
                                                  ELSE used' - HeaderSize + 1,
                                            filled' - HeaderSize)
        BY DEF Between
      <4>4. filled' - HeaderSize = HeaderSize + Len(pes) - HeaderSize
        BY <4>1, <1>2, PipeConsts
      <4>5. (IF used' < HeaderSize THEN 1 ELSE used' - HeaderSize + 1)
              = IF 0 < HeaderSize THEN 1 ELSE 0 - HeaderSize + 1
        BY <4>1, PipeConsts
      <4>6. InRecord' = SubSeq(pes, IF used' < HeaderSize THEN 1 ELSE used' - HeaderSize + 1,
                               filled' - HeaderSize)
        BY <4>1, <4>2, <4>3
      <4> QED BY <4>4, <4>5, <4>6
    <3>2. (IF 0 < HeaderSize THEN 1 ELSE 0 - HeaderSize + 1) = 1
          /\ HeaderSize + Len(pes) - HeaderSize = Len(pes)
      BY <1>2, PipeConsts
    <3> QED BY <3>1, <3>2
  <2> QED BY <1>2, <2>1, <2>2, WholeIs
<1>5. Delivered' = Delivered /\ InTask' = InTask /\ InBacklog' = InBacklog
  <2>1. count <= Len(payload)
    BY StreamParts
  <2>2. Delivered' = Delivered
    BY <1>1, <1>2, <2>1, DeliveredStays
  <2> QED BY <1>1, <2>2 DEF InTask, InBacklog
<1>6. RecordInv'
  BY <1>1, <1>2, <1>3 DEF RecordInv, WholeFrame
<1> QED BY <1>4, <1>5, <1>6 DEF Stream

\* Concatenation, by a name that hides what a sequence is.
Cat(s, t) == s \o t

LEMMA CatIs ==
    /\ \A s, t \in Seq(Bytes) : Cat(s, t) \in Seq(Bytes)
    /\ \A s, t, u \in Seq(Bytes) : Cat(Cat(s, t), u) = Cat(s, Cat(t, u))
<1>1. \A s, t \in Seq(Bytes) : s \o t \in Seq(Bytes)
  BY ConcatProperties
<1>2. \A s, t, u \in Seq(Bytes) : (s \o t) \o u = s \o (t \o u)
  BY ConcatAssociative
<1> QED BY <1>1, <1>2, Zenon DEF Cat

\* The whole of a frame, of which a part goes behind b and the rest is cut out.
LEMMA CutParts ==
    ASSUME NEW d \in Seq(Bytes), NEW t \in Seq(Bytes), NEW b \in Seq(Bytes),
           NEW p \in Seq(Bytes), NEW c \in Seq(Bytes), NEW y \in Seq(Bytes)
    PROVE  LET x == Cat(d, Cat(t, Cat(b, p))) IN
           /\ x \in Seq(Bytes)
           /\ Cat(d, Cat(t, Cat(b, Cat(Cat(p, c), y)))) = Cat(x, Cat(c, y))
           /\ Cat(d, Cat(t, Cat(Cat(b, p), y))) = Cat(x, y)
<1> DEFINE r == Cat(b, p)
           u == Cat(t, r)
<1>1. r \in Seq(Bytes) /\ u \in Seq(Bytes) /\ Cat(d, u) \in Seq(Bytes)
      /\ Cat(c, y) \in Seq(Bytes)
  BY CatIs
<1>2. Cat(b, Cat(Cat(p, c), y)) = Cat(r, Cat(c, y))
  BY <1>1, CatIs
<1> HIDE DEF r
<1>3. \A w \in Seq(Bytes) : Cat(Cat(d, u), w) = Cat(d, Cat(t, Cat(r, w)))
  <2>1. \A w \in Seq(Bytes) : Cat(u, w) = Cat(t, Cat(r, w))
    BY <1>1, CatIs
  <2> HIDE DEF u
  <2> QED BY <1>1, <2>1, CatIs
<1>4. /\ Cat(d, u) \in Seq(Bytes)
      /\ Cat(d, Cat(t, Cat(b, Cat(Cat(p, c), y)))) = Cat(Cat(d, u), Cat(c, y))
      /\ Cat(d, Cat(t, Cat(r, y))) = Cat(Cat(d, u), y)
  BY <1>1, <1>2, <1>3
<1> QED BY <1>4 DEF r

\* The source has delivered a frame to a record with the bytes b.
LEMMA FrameStream ==
    ASSUME PipeInv, RecordInv, EveryByteOnce, backlog # <<>>,
           NEW b \in Seq(Bytes), HeaderSize + Len(b) < LowWater, InRecord = b,
           NEW flag \in BOOLEAN, DeliverFrame(b, flag), inUse' = FALSE,
           UNCHANGED <<files, buffer, packets, task, payload, arrived>>
    PROVE  /\ EveryByteOnce'
           /\ \A i \in DOMAIN backlog' : \E n \in DOMAIN arrived : backlog'[i].bytes = WholeFrame(n)
<1> DEFINE h == Head(backlog)
           R == [time : Times, bytes : Seq(Bytes)]
           space == InputBufferSize - HeaderSize - Len(b)
           fits == IF Len(h.bytes) > space THEN space ELSE Len(h.bytes)
           p == SubSeq(h.bytes, 1, fits)
           c == SubSeq(h.bytes, fits + 1, Len(h.bytes))
           y == InBacklog'
<1>1. /\ backlog' = Tail(backlog) /\ pes' = b \o p /\ cutOff' = cutOff \cup ToSet(c)
  BY DEF DeliverFrame
<1>2. /\ backlog \in Seq(R) /\ PipeTypeOK /\ FileBegun /\ Len(b) \in Nat
      /\ arrived \in Seq(FrameSizes)
  BY LenProperties DEF PipeInv, PipeTypeOK
<1>3. \A r \in R : r.bytes \in Seq(Bytes)
  OBVIOUS
<1> HIDE DEF R
<1>4. /\ h = backlog[1] /\ 1 \in DOMAIN backlog /\ h \in R /\ Tail(backlog) \in Seq(R)
      /\ DOMAIN backlog = 1 .. Len(backlog) /\ DOMAIN Tail(backlog) = 1 .. Len(backlog) - 1
      /\ \A i \in 1 .. Len(backlog) - 1 : Tail(backlog)[i] = backlog[i + 1]
      /\ Len(backlog) \in Nat
  BY <1>2, HeadTailProperties, LenProperties, EmptySeq
<1>5. PICK n \in DOMAIN arrived : h.bytes = WholeFrame(n)
  BY <1>4 DEF RecordInv
<1>6. h.bytes \in Seq(Bytes) /\ Len(h.bytes) \in Nat /\ \A i \in 1 .. Len(h.bytes) : h.bytes[i] \in Bytes
  BY <1>3, <1>4, LenProperties, ElementOfSeq
<1>7. InBacklog = h.bytes \o y /\ y \in Seq(Bytes)
  <2>1. y = FlattenSeq([i \in DOMAIN Tail(backlog) |-> Tail(backlog)[i].bytes])
    BY <1>1 DEF InBacklog
  <2>2. y \in Seq(Bytes)
    <3> DEFINE t == Tail(backlog)
    <3>1. t \in Seq(R)
      BY <1>4
    <3> HIDE DEF t, y
    <3>2. FlattenSeq([i \in DOMAIN t |-> t[i].bytes]) \in Seq(Bytes)
      BY <1>3, <3>1, BacklogBytes
    <3> QED BY <2>1, <3>2 DEF t
  <2>3. InBacklog = h.bytes \o FlattenSeq([i \in DOMAIN Tail(backlog) |-> Tail(backlog)[i].bytes])
    BY <1>2, <1>3, BacklogHead DEF InBacklog
  <2> QED BY <2>1, <2>2, <2>3
<1> HIDE DEF h, y
<1>8. /\ fits \in Nat /\ fits <= Len(h.bytes) /\ fits + 1 \in Nat
      /\ fits < Len(h.bytes) => fits > MaxInput
  <2>1. space \in Nat /\ space > MaxInput
    BY <1>2, PipeConsts
  <2> HIDE DEF space
  <2> QED BY <1>6, <2>1, PipeConsts
<1> HIDE DEF fits
<1>9. p \in Seq(Bytes) /\ c \in Seq(Bytes) /\ p \o c = h.bytes
      /\ Len(c) = Len(h.bytes) - fits
      /\ \A i \in 1 .. Len(h.bytes) - fits : c[i] = h.bytes[fits + i]
  <2>1. p \in Seq(Bytes)
    <3>1. \A i \in 1 .. fits : h.bytes[i] \in Bytes
      BY <1>6, <1>8
    <3> QED BY <1>6, <1>8, <3>1, SubSeqProperties
  <2>2. /\ c \in Seq(Bytes) /\ Len(c) = Len(h.bytes) - fits
        /\ \A i \in 1 .. Len(h.bytes) - fits : c[i] = h.bytes[fits + i]
    <3>1. \A i \in fits + 1 .. Len(h.bytes) : h.bytes[i] \in Bytes
      BY <1>6, <1>8
    <3>2. /\ fits + 1 <= Len(h.bytes) + 1 /\ Len(h.bytes) - (fits + 1) + 1 = Len(h.bytes) - fits
          /\ \A i \in 1 .. Len(h.bytes) - fits : fits + 1 + i - 1 = fits + i
      BY <1>6, <1>8
    <3> QED BY <1>6, <1>8, <3>1, <3>2, SubSeqProperties
  <2>3. p \o c = SubSeq(h.bytes, 1, Len(h.bytes))
    <3> DEFINE s == h.bytes
               m == Len(s)
    <3>1. s \in Seq(Bytes) /\ m \in Nat /\ 1 <= fits + 1 /\ fits <= m /\ fits \in Nat /\ 1 \in Nat
      BY <1>6, <1>8
    <3>2. p \o c = SubSeq(s, 1, fits) \o SubSeq(s, fits + 1, m)
      BY DEF p, c
    <3> HIDE DEF s, m
    <3>3. SubSeq(s, 1, fits) \o SubSeq(s, fits + 1, m) = SubSeq(s, 1, m)
      <4>1. m = Len(s) /\ m <= Len(s)
        BY <3>1 DEF m
      <4>2. \A k, q \in Nat : 1 <= k + 1 /\ k <= q /\ q <= Len(s) =>
                SubSeq(s, 1, k) \o SubSeq(s, k + 1, q) = SubSeq(s, 1, q)
        <5>1. 1 \in Nat /\ 1 >= 1 /\ s \in Seq(Bytes)
          BY <3>1
        <5> QED BY <5>1, PartsJoin
      <4> QED BY <3>1, <4>1, <4>2, Zenon
    <3> QED BY <3>2, <3>3 DEF s, m
  <2>4. SubSeq(h.bytes, 1, Len(h.bytes)) = h.bytes
    BY <1>6, WholeIs
  <2> QED BY <2>1, <2>2, <2>3, <2>4
<1> HIDE DEF p, c
<1> DEFINE d == Delivered
           t == InTask
           x == Cat(d, Cat(t, Cat(b, p)))
<1>10. d \in Seq(Bytes) /\ t \in Seq(Bytes) /\ Delivered' = d /\ InTask' = t
  <2>1. d \in Seq(Bytes) /\ t \in Seq(Bytes) /\ count <= Len(payload)
    BY StreamParts
  <2>2. Delivered' = d
    BY <1>2, <2>1, DeliveredStays
  <2> QED BY <2>1, <2>2 DEF InTask
<1>11. Stream = Cat(d, Cat(t, Cat(b, Cat(Cat(p, c), y))))
  BY <1>7, <1>9 DEF Stream, Cat
<1>12. Stream' = Cat(d, Cat(t, Cat(Cat(b, p), y)))
  <2>1. InRecord' = b \o p
    BY <1>1 DEF InRecord
  <2> QED BY <1>10, <2>1 DEF Stream, Cat, y
<1> HIDE DEF d, t
<1>13. x \in Seq(Bytes) /\ Stream = x \o (c \o y) /\ Stream' = x \o y
  <2>1. y \in Seq(Bytes) /\ p \in Seq(Bytes) /\ c \in Seq(Bytes) /\ d \in Seq(Bytes)
        /\ t \in Seq(Bytes)
    BY <1>7, <1>9, <1>10
  <2>2. /\ x \in Seq(Bytes)
        /\ Cat(d, Cat(t, Cat(b, Cat(Cat(p, c), y)))) = Cat(x, Cat(c, y))
        /\ Cat(d, Cat(t, Cat(Cat(b, p), y))) = Cat(x, y)
    BY <2>1, CutParts
  <2> HIDE DEF x
  <2>3. x \in Seq(Bytes) /\ Stream = Cat(x, Cat(c, y)) /\ Stream' = Cat(x, y)
    BY <1>11, <1>12, <2>2
  <2> QED BY <2>3 DEF Cat
<1> HIDE DEF x
<1>14. Ordered(Stream) /\ ToSet(Stream) = ArrivedBytes \ cutOff
  BY DEF EveryByteOnce
<1>15. Ordered(x \o y) /\ ToSet(x \o y) = ToSet(Stream) \ ToSet(c)
  <2>1. Ordered(x \o (c \o y))
    BY <1>13, <1>14
  <2>2. ToSet(x \o y) = ToSet(x \o (c \o y)) \ ToSet(c) /\ Ordered(x \o y)
    BY <1>7, <1>9, <1>13, <2>1, CutOut
  <2> QED BY <1>13, <2>2, Zenon
<1>16. ArrivedBytes' = ArrivedBytes
  BY DEF ArrivedBytes
<1>17. Ordered(Stream)'
  BY <1>13, <1>15 DEF Ordered
<1>18. ToSet(Stream)' = (ArrivedBytes \ cutOff)'
  <2>1. ToSet(Stream)' = ToSet(x \o y)
    BY <1>13 DEF ToSet
  <2> QED BY <1>1, <1>14, <1>15, <1>16, <2>1
<1>19. \A a \in cutOff' : a \in ArrivedBytes' /\ arrived'[a[1]] > MaxInput
  <2> SUFFICES ASSUME NEW a \in ToSet(c) PROVE a \in ArrivedBytes /\ arrived[a[1]] > MaxInput
    BY <1>1, <1>16 DEF EveryByteOnce
  <2>1. arrived[n] \in Nat /\ Len(h.bytes) = arrived[n]
    <3>1. arrived[n] \in FrameSizes
      BY <1>2
    <3>2. arrived[n] \in Nat
      BY <3>1, PipeConsts
    <3> QED BY <1>5, <3>2 DEF WholeFrame
  <2>2. DOMAIN c = 1 .. arrived[n] - fits
    BY <1>9, <2>1, LenProperties
  <2>3. PICK i \in 1 .. arrived[n] - fits : a = h.bytes[fits + i]
    BY <1>9, <2>1, <2>2 DEF ToSet
  <2>4. fits + i \in 1 .. arrived[n] /\ fits < arrived[n]
    BY <1>8, <2>1
  <2>5. a = <<n, fits + i>>
    BY <1>5, <2>3, <2>4 DEF WholeFrame
  <2>6. a[1] = n /\ arrived[n] > MaxInput
    BY <1>8, <2>1, <2>4, <2>5, PipeConsts
  <2>7. a \in {n} \X (1 .. arrived[n])
    BY <2>4, <2>5
  <2> QED BY <2>6, <2>7 DEF ArrivedBytes
<1>20. \A i \in DOMAIN backlog' : \E m \in DOMAIN arrived : backlog'[i].bytes = WholeFrame(m)
  <2>1. \A i \in 1 .. Len(backlog) - 1 : i + 1 \in DOMAIN backlog
    BY <1>4
  <2>2. \A i \in DOMAIN backlog : \E m \in DOMAIN arrived : backlog[i].bytes = WholeFrame(m)
    BY DEF RecordInv
  <2>3. DOMAIN backlog' = 1 .. Len(backlog) - 1
        /\ \A i \in 1 .. Len(backlog) - 1 : backlog'[i] = backlog[i + 1]
    BY <1>1, <1>4
  <2> QED BY <2>1, <2>2, <2>3
<1> QED BY <1>17, <1>18, <1>19, <1>20 DEF EveryByteOnce

\* What EveryByteOnce needs to be inductive.
BytesInv == RecordInv /\ EveryByteOnce

\* A waiting reader gets a frame behind what its record holds.
LEMMA DeliverFrame0Bytes == ASSUME PipeInv, BytesInv, DeliverFrame0 PROVE BytesInv'
<1>1. /\ pc = "idle" /\ RecordInv /\ EveryByteOnce
      /\ UNCHANGED <<files, buffer, inUse, filled, used, packets, missing, task, arrived, payload>>
      /\ \/ waiting /\ backlog # <<>> /\ DeliverFrame(pes, background)
         \/ UNCHANGED <<backlog, waiting, pes, cutOff, pc>>
  BY DEF DeliverFrame0, sinkVars, BytesInv
<1>2. CASE UNCHANGED <<backlog, waiting, pes, cutOff, pc>>
  <2>1. Stream' = Stream /\ RecordInv'
    BY <1>1, <1>2, NothingMoves
  <2> QED BY <1>1, <1>2, <2>1, SameStream DEF BytesInv
<1>3. CASE waiting /\ backlog # <<>> /\ DeliverFrame(pes, background)
  <2>1. /\ HeaderSize + Len(pes) < LowWater /\ ~inUse /\ InRecord = pes
        /\ pes \in Seq(Bytes) /\ background \in BOOLEAN /\ inUse \in BOOLEAN /\ ~task
        /\ background = waiting
    BY <1>1, <1>3 DEF RecordInv, InRecord, PipeInv, PipeTypeOK, OneCall
  <2>2. inUse' = FALSE
    BY <1>1, <2>1
  <2>3. /\ EveryByteOnce'
        /\ \A i \in DOMAIN backlog' : \E n \in DOMAIN arrived : backlog'[i].bytes = WholeFrame(n)
    BY <1>1, <1>3, <2>1, <2>2, FrameStream
  <2>4. waiting' = FALSE /\ pc' # "await old" /\ pc' # "next"
    BY <1>3, <2>1 DEF DeliverFrame, Retry
  <2>5. RecordInv'
    BY <1>1, <2>1, <2>2, <2>3, <2>4 DEF RecordInv, WholeFrame
  <2> QED BY <2>3, <2>5 DEF BytesInv
<1> QED BY <1>1, <1>2, <1>3

\* A record that is full enough becomes the buffer; otherwise the next frame comes.
LEMMA AwaitNewBufferBytes == ASSUME PipeInv, BytesInv, AwaitNewBuffer PROVE BytesInv'
<1> DEFINE b == Kept
<1>1. /\ pc \in {"await", "await old"} /\ RecordInv /\ EveryByteOnce
      /\ Enough(b) => DeliverBuffer(b)
      /\ ~Enough(b) => AskForNewData(b)
      /\ UNCHANGED <<files, buffer, packets, missing, task, arrived, payload>>
  BY DEF AwaitNewBuffer, sinkVars, BytesInv
<1>2. CASE Enough(b)
  <2>1. RecordInv' /\ Stream' = Stream
    BY <1>1, <1>2, DeliverBufferStream
  <2>2. UNCHANGED <<arrived, cutOff>>
    BY <1>1, <1>2 DEF DeliverBuffer
  <2> QED BY <1>1, <2>1, <2>2, SameStream DEF BytesInv
<1>3. CASE ~Enough(b)
  <2>1. /\ PipeTypeOK /\ FileBegun /\ ~task /\ pes \in Seq(Bytes)
    BY <1>1 DEF PipeInv, OneCall, PipeTypeOK
  <2>2. b \in Seq(Bytes) /\ InRecord = b
    <3>1. <<>> \in Seq(Bytes)
      OBVIOUS
    <3>2. b \in Seq(Bytes)
      BY <2>1, <3>1 DEF Kept
    <3>3. InRecord = b
      BY <1>1, StreamParts
    <3> QED BY <3>2, <3>3
  <2>3. HeaderSize + Len(b) < LowWater
    <3>1. ~(HeaderSize + Len(b) >= LowWater)
      BY <1>3 DEF Enough
    <3>2. Len(b) \in Nat
      BY <2>2, LenProperties
    <3> QED BY <3>1, <3>2, PipeConsts
  <2> HIDE DEF b
  <2>4. inUse' = FALSE /\ UNCHANGED <<filled, used>>
    BY <1>1, <1>3 DEF AskForNewData
  <2>5. CASE backlog # <<>> /\ DeliverFrame(b, TRUE)
    <3>1. TRUE \in BOOLEAN
      OBVIOUS
    <3>2. /\ EveryByteOnce'
          /\ \A i \in DOMAIN backlog' : \E n \in DOMAIN arrived : backlog'[i].bytes = WholeFrame(n)
      BY <1>1, <2>2, <2>3, <2>4, <2>5, <3>1, FrameStream
    <3>3. waiting' = FALSE /\ pc' = "await"
      BY <2>5 DEF DeliverFrame, Retry
    <3>4. RecordInv'
      BY <1>1, <2>1, <2>4, <3>2, <3>3 DEF RecordInv, WholeFrame
    <3> QED BY <3>2, <3>4 DEF BytesInv
  <2>6. CASE backlog = <<>>
    <3>1. waiting' = TRUE /\ pes' = b /\ pc' = "idle" /\ UNCHANGED <<backlog, cutOff>>
      BY <1>1, <1>3, <2>6 DEF AskForNewData
    <3>2. Stream' = Stream
      <4>1. count <= Len(payload)
        BY <1>1, StreamParts
      <4>2. Delivered' = Delivered
        BY <1>1, <2>1, <4>1, DeliveredStays
      <4>3. InTask' = InTask /\ InBacklog' = InBacklog
        BY <1>1, <3>1 DEF InTask, InBacklog
      <4>4. InRecord' = InRecord
        BY <2>2, <2>4, <3>1 DEF InRecord
      <4> QED BY <4>2, <4>3, <4>4 DEF Stream
    <3>3. RecordInv'
      BY <1>1, <2>1, <2>3, <2>4, <3>1 DEF RecordInv, WholeFrame
    <3> QED BY <1>1, <3>1, <3>2, <3>3, SameStream DEF BytesInv
  <2> QED BY <1>1, <1>3, <2>5, <2>6 DEF AskForNewData
<1> QED BY <1>2, <1>3

\* A frame comes behind all that came before.
LEMMA OnFrameBytes ==
    ASSUME PipeInv, BytesInv, NEW t \in Times, NEW size \in FrameSizes, OnFrame(t, size)
    PROVE  BytesInv'
<1>0. PICK n : n = Len(arrived) + 1
  OBVIOUS
<1> DEFINE w == [k \in 1 .. size |-> <<n, k>>]
           f == [time |-> t, bytes |-> w]
           R == [time : Times, bytes : Seq(Bytes)]
<1>1. /\ RecordInv /\ EveryByteOnce /\ PipeTypeOK /\ FileBegun
      /\ arrived \in Seq(FrameSizes) /\ Len(arrived) \in Nat /\ Len(arrived) < NumFrames
      /\ arrived' = Append(arrived, size) /\ pc = "idle" /\ pc' = pc
      /\ UNCHANGED <<files, buffer, waiting, pes, inUse, filled, used, packets, missing, task>>
      /\ UNCHANGED <<cutOff, payload>>
  BY LenProperties DEF OnFrame, sinkVars, recordVars, muxVars, BytesInv, PipeInv, PipeTypeOK
<1>2. /\ n \in Nat /\ DOMAIN arrived = 1 .. n - 1 /\ DOMAIN arrived' = 1 .. n
      /\ Len(arrived') = n
      /\ \A i \in 1 .. n - 1 : arrived'[i] = arrived[i]
      /\ arrived'[n] = size /\ n \in 1 .. NumFrames /\ n \notin 1 .. n - 1
  <2>1. /\ Len(arrived') = Len(arrived) + 1 /\ arrived' \in Seq(FrameSizes)
        /\ arrived'[Len(arrived) + 1] = size
        /\ \A i \in 1 .. Len(arrived) : arrived'[i] = arrived[i]
    BY <1>1, AppendProperties
  <2>2. NumFrames \in Nat
    BY PipeConsts
  <2> QED BY <1>0, <1>1, <2>1, <2>2, LenProperties
<1>3. backlog' = Append(backlog, f) /\ backlog \in Seq(R)
  BY <1>0, <1>1 DEF OnFrame, PipeTypeOK
<1>4. size \in Nat /\ size # 0
  BY PipeConsts
<1>5. w \in Seq(Bytes) /\ DOMAIN w = 1 .. size /\ Len(w) = size
      /\ \A k \in 1 .. size : w[k] = <<n, k>>
  <2>1. w \in [1 .. size -> Bytes]
    BY <1>2, <1>4 DEF Bytes
  <2>2. \A k \in 1 .. size : w[k] = <<n, k>>
    OBVIOUS
  <2> HIDE DEF w
  <2> QED BY <1>4, <2>1, <2>2, MakesSeq
<1>6. w = WholeFrame(n)'
  BY <1>2 DEF WholeFrame
<1>7. f \in R /\ f.bytes = w /\ \A r \in R : r.bytes \in Seq(Bytes)
  BY <1>5
<1> HIDE DEF w, f, R
<1>8. InBacklog' = InBacklog \o w
  BY <1>3, <1>7, BacklogMore DEF InBacklog
<1>9. /\ Delivered \in Seq(Bytes) /\ InTask \in Seq(Bytes) /\ InRecord \in Seq(Bytes)
      /\ InBacklog \in Seq(Bytes)
      /\ Delivered' = Delivered /\ InTask' = InTask /\ InRecord' = InRecord
  <2>1. /\ Delivered \in Seq(Bytes) /\ InTask \in Seq(Bytes) /\ InRecord \in Seq(Bytes)
        /\ InBacklog \in Seq(Bytes) /\ count <= Len(payload)
    BY <1>1, StreamParts
  <2>2. Delivered' = Delivered
    BY <1>1, <2>1, DeliveredStays
  <2> QED BY <1>1, <2>1, <2>2 DEF InTask, InRecord, Between
<1>10. Stream \in Seq(Bytes) /\ Stream' = Stream \o w
  <2> DEFINE d == Delivered
             s == InTask
             r == InRecord
             q == InBacklog
  <2>1. /\ d \in Seq(Bytes) /\ s \in Seq(Bytes) /\ r \in Seq(Bytes) /\ q \in Seq(Bytes)
        /\ Stream = Cat(d, Cat(s, Cat(r, q)))
        /\ Stream' = Cat(d, Cat(s, Cat(r, Cat(q, w))))
    BY <1>8, <1>9 DEF Stream, Cat
  <2> HIDE DEF d, s, r, q
  <2> DEFINE x == Cat(r, q)
             y == Cat(s, x)
  <2>2. /\ x \in Seq(Bytes) /\ Cat(x, w) = Cat(r, Cat(q, w))
    BY <1>5, <2>1, CatIs
  <2> HIDE DEF x
  <2>3. /\ y \in Seq(Bytes) /\ Cat(y, w) = Cat(s, Cat(x, w))
    BY <1>5, <2>1, <2>2, CatIs
  <2> HIDE DEF y
  <2>4. Cat(d, y) \in Seq(Bytes) /\ Cat(Cat(d, y), w) = Cat(d, Cat(y, w))
    BY <1>5, <2>1, <2>3, CatIs
  <2>5. Stream = Cat(d, y) /\ Stream' = Cat(d, Cat(y, w))
    BY <2>1, <2>2, <2>3 DEF x, y
  <2>6. Stream \in Seq(Bytes) /\ Stream' = Cat(Stream, w)
    BY <2>4, <2>5
  <2> QED BY <2>6 DEF Cat
<1>11. ToSet(w) = {n} \X (1 .. size)
  <2>1. ToSet(w) = {w[k] : k \in 1 .. size}
    BY <1>5 DEF ToSet
  <2>2. ToSet(w) = {<<n, k>> : k \in 1 .. size}
    BY <1>5, <2>1
  <2> QED BY <2>2
<1>12. /\ \A a \in ArrivedBytes : a[1] \in 1 .. n - 1
       /\ ArrivedBytes' = ArrivedBytes \cup ToSet(w)
       /\ ArrivedBytes \cap ToSet(w) = {}
  <2>1. \A a \in ArrivedBytes : a[1] \in 1 .. n - 1
    BY <1>2 DEF ArrivedBytes
  <2>2. ArrivedBytes' = UNION {{m} \X (1 .. arrived'[m]) : m \in 1 .. n}
    BY <1>2 DEF ArrivedBytes
  <2>3. ArrivedBytes = UNION {{m} \X (1 .. arrived[m]) : m \in 1 .. n - 1}
    BY <1>2 DEF ArrivedBytes
  <2>4. \A m \in 1 .. n : m \in 1 .. n - 1 \/ m = n
    BY <1>2
  <2>5. \A m \in 1 .. n - 1 : m \in 1 .. n
    BY <1>2
  <2>6. ArrivedBytes' = ArrivedBytes \cup ToSet(w)
    <3>1. n \in 1 .. n /\ arrived'[n] = size
      BY <1>2
    <3>2. ArrivedBytes' \subseteq ArrivedBytes \cup ToSet(w)
      BY <1>2, <1>11, <2>2, <2>3, <2>4
    <3>3. ArrivedBytes \subseteq ArrivedBytes'
      BY <1>2, <2>2, <2>3, <2>5
    <3>4. ToSet(w) \subseteq ArrivedBytes'
      BY <1>11, <2>2, <3>1
    <3> QED BY <3>2, <3>3, <3>4
  <2>7. \A a \in ToSet(w) : a[1] = n
    BY <1>11
  <2> QED BY <1>2, <2>1, <2>6, <2>7
<1>13. Ordered(Stream)' /\ (ToSet(Stream) = ArrivedBytes \ cutOff)'
  <2> DEFINE s == Stream
  <2>1. /\ s \in Seq(Bytes) /\ Stream' = s \o w /\ Ordered(s) /\ ToSet(s) = ArrivedBytes \ cutOff
        /\ cutOff \subseteq ArrivedBytes /\ cutOff' = cutOff
    BY <1>1, <1>10 DEF EveryByteOnce
  <2> HIDE DEF s
  <2>2. Ordered(w)
    <3> SUFFICES ASSUME NEW i \in 1 .. size, NEW j \in 1 .. size, i < j
                 PROVE  Precedes(w[i], w[j])
      BY <1>5 DEF Ordered
    <3>1. w[i] = <<n, i>> /\ w[j] = <<n, j>>
      BY <1>5
    <3> QED BY <3>1 DEF Precedes
  <2>3. \A a \in ToSet(s), b \in ToSet(w) : Precedes(a, b)
    <3> SUFFICES ASSUME NEW a \in ToSet(s), NEW b \in ToSet(w) PROVE Precedes(a, b)
      OBVIOUS
    <3>1. a[1] \in 1 .. n - 1 /\ b[1] = n
      BY <1>11, <1>12, <2>1
    <3>2. a[1] < b[1]
      BY <1>2, <3>1
    <3> QED BY <3>2 DEF Precedes
  <2>4. Ordered(s \o w)
    BY <1>5, <2>1, <2>2, <2>3, OrderedJoin
  <2>5. ToSet(s \o w) = ToSet(s) \cup ToSet(w)
    BY <1>5, <2>1, SetOfBoth
  <2>6. ToSet(s \o w) = ArrivedBytes' \ cutOff'
    BY <1>12, <2>1, <2>5
  <2>7. Ordered(Stream)'
    BY <2>1, <2>4 DEF Ordered
  <2>8. ToSet(Stream)' = ToSet(s \o w)
    BY <2>1 DEF ToSet
  <2> QED BY <2>6, <2>7, <2>8
<1>14. (\A b \in cutOff : b \in ArrivedBytes /\ arrived[b[1]] > MaxInput)'
  BY <1>1, <1>2, <1>12 DEF EveryByteOnce
<1>15. \A i \in DOMAIN backlog' : \E m \in DOMAIN arrived' : backlog'[i].bytes = WholeFrame(m)'
  <2>1. /\ DOMAIN backlog' = 1 .. Len(backlog) + 1 /\ Len(backlog) \in Nat
        /\ DOMAIN backlog = 1 .. Len(backlog)
        /\ \A i \in 1 .. Len(backlog) : backlog'[i] = backlog[i]
        /\ backlog'[Len(backlog) + 1] = f
    BY <1>3, <1>7, AppendProperties, LenProperties
  <2>2. \A m \in DOMAIN arrived : m \in DOMAIN arrived' /\ WholeFrame(m)' = WholeFrame(m)
    BY <1>2 DEF WholeFrame
  <2>3. \A i \in 1 .. Len(backlog) + 1 : i \in 1 .. Len(backlog) \/ i = Len(backlog) + 1
    BY <2>1
  <2>4. \A i \in DOMAIN backlog : \E m \in DOMAIN arrived : backlog[i].bytes = WholeFrame(m)
    BY <1>1 DEF RecordInv
  <2>5. n \in DOMAIN arrived' /\ f.bytes = WholeFrame(n)'
    BY <1>2, <1>6, <1>7
  <2> SUFFICES ASSUME NEW i \in DOMAIN backlog'
               PROVE  \E m \in DOMAIN arrived' : backlog'[i].bytes = WholeFrame(m)'
    OBVIOUS
  <2>6. CASE i \in 1 .. Len(backlog)
    <3>1. PICK m \in DOMAIN arrived : backlog[i].bytes = WholeFrame(m)
      BY <2>1, <2>4, <2>6
    <3>2. m \in DOMAIN arrived' /\ backlog'[i].bytes = WholeFrame(m)'
      BY <2>1, <2>2, <2>6, <3>1
    <3> QED BY <3>2
  <2>7. CASE i = Len(backlog) + 1
    <3>1. backlog'[i].bytes = WholeFrame(n)'
      BY <2>1, <2>5, <2>7
    <3> QED BY <2>5, <3>1
  <2> QED BY <2>1, <2>3, <2>6, <2>7
<1>16. RecordInv'
  BY <1>1, <1>15 DEF RecordInv
<1> QED BY <1>13, <1>14, <1>16 DEF BytesInv, EveryByteOnce

\* Nothing has arrived at first.
LEMMA BytesInit == PipeInit => BytesInv
<1> SUFFICES ASSUME PipeInit PROVE BytesInv
  OBVIOUS
<1>1. /\ buffer = <<>> /\ files = <<>> /\ backlog = <<>> /\ waiting = FALSE /\ pes = <<>>
      /\ inUse = FALSE /\ filled = 0 /\ task = FALSE /\ pc = "idle"
      /\ arrived = <<>> /\ cutOff = {} /\ payload = <<>>
  BY DEF PipeInit, SinkInit
<1>2. RecordInv
  BY <1>1 DEF RecordInv
<1>3. Stream = <<>>
  <2>1. Parts = Append(<<>>, <<>>) /\ <<>> \in Seq(Seq(Bytes)) /\ <<>> \in Seq(Bytes)
    BY <1>1 DEF Parts
  <2>2. FlattenSeq(Parts) = <<>> \o <<>>
    BY <2>1, FlatAppend, FlatEmpty
  <2>3. <<>> \o <<>> = <<>>
    BY <2>1, ConcatEmptySeq
  <2>4. Delivered = <<>>
    <3>1. [i \in DOMAIN <<>> |-> payload[<<>>[i].id]] = <<>>
      OBVIOUS
    <3> QED BY <2>2, <2>3, <3>1, FlatEmpty DEF Delivered, PayloadOf
  <2>5. InTask = <<>> /\ InRecord = <<>>
    BY <1>1 DEF InTask, InRecord
  <2>6. InBacklog = <<>>
    <3>1. [i \in DOMAIN backlog |-> backlog[i].bytes] = <<>>
      BY <1>1
    <3> QED BY <3>1, FlatEmpty DEF InBacklog
  <2> QED BY <2>3, <2>4, <2>5, <2>6 DEF Stream
<1>4. ArrivedBytes = {}
  <2>1. DOMAIN arrived = {}
    BY <1>1
  <2> QED BY <2>1 DEF ArrivedBytes
<1>5. Ordered(Stream) /\ ToSet(Stream) = {}
  <2>1. DOMAIN Stream = {}
    BY <1>3
  <2> QED BY <2>1 DEF Ordered, ToSet
<1> QED BY <1>1, <1>2, <1>4, <1>5 DEF BytesInv, EveryByteOnce

\* Each step keeps every byte where it is, or moves it on.
LEMMA BytesStep == ASSUME PipeInv, BytesInv, [PipeNext]_pipeVars PROVE BytesInv'
<1> USE DEF BytesInv
<1>1. CASE Build
  <2>1. UNCHANGED <<arrived, cutOff>>
    BY <1>1 DEF Build, historyVars
  <2> QED BY <1>1, <2>1, BuildStream, SameStream
<1>2. CASE Describe
  <2>1. UNCHANGED <<arrived, cutOff>>
    BY <1>2 DEF Describe, historyVars
  <2> QED BY <1>2, <2>1, DescribeStream, SameStream
<1>3. CASE DeliverFrame0
  BY <1>3, DeliverFrame0Bytes
<1>4. CASE HandleTask
  <2>1. UNCHANGED <<arrived, cutOff>>
    BY <1>4 DEF HandleTask, historyVars
  <2> QED BY <1>4, <2>1, HandleTaskStream, SameStream
<1>5. CASE AwaitNewBuffer
  BY <1>5, AwaitNewBufferBytes
<1>6. CASE DeliverPacket
  <2>1. UNCHANGED <<arrived, cutOff>>
    BY <1>6 DEF DeliverPacket
  <2> QED BY <1>6, <2>1, DeliverPacketStream, SameStream
<1>7. CASE NeedBuffer
  <2>1. UNCHANGED <<arrived, cutOff>>
    BY <1>7 DEF NeedBuffer, historyVars
  <2> QED BY <1>7, <2>1, NeedBufferStream, SameStream
<1>8. CASE \E t \in Times, size \in FrameSizes : OnFrame(t, size)
  BY <1>8, OnFrameBytes
<1>9. CASE UNCHANGED pipeVars
  <2>1. /\ UNCHANGED <<files, buffer, backlog, waiting, pes, inUse, filled, used>>
        /\ UNCHANGED <<packets, missing, task, arrived, payload, pc, cutOff>>
    BY <1>9 DEF pipeVars, sinkVars, feedVars, recordVars, muxVars, historyVars
  <2>2. Stream' = Stream
    BY <2>1, NothingMoves
  <2>3. RecordInv'
    BY <2>1 DEF RecordInv, WholeFrame
  <2> QED BY <2>1, <2>2, <2>3, SameStream
<1> QED BY <1>1, <1>2, <1>3, <1>4, <1>5, <1>6, <1>7, <1>8, <1>9 DEF PipeNext, LoopStep

-----------------------------------------------------------------------------
(* The theorems about the chain.                                           *)

LEMMA PipeStepInv == ASSUME PipeInv, [PipeNext]_pipeVars PROVE PipeInv'
<1>1. CASE Build
  BY <1>1, BuildKeeps
<1>2. CASE Describe
  BY <1>2, DescribeKeeps
<1>3. CASE DeliverFrame0
  BY <1>3, DeliverFrame0Keeps
<1>4. CASE HandleTask
  BY <1>4, HandleTaskKeeps
<1>5. CASE AwaitNewBuffer
  BY <1>5, AwaitNewBufferKeeps
<1>6. CASE DeliverPacket
  BY <1>6, DeliverPacketKeeps
<1>7. CASE NeedBuffer
  BY <1>7, NeedBufferKeeps
<1>8. CASE \E t \in Times, size \in FrameSizes : OnFrame(t, size)
  BY <1>8, OnFrameKeeps
<1>9. CASE UNCHANGED pipeVars
  <2>1. /\ UNCHANGED <<asking, room, sec, buffer, files, count>>
        /\ UNCHANGED <<posted, built, described>>
        /\ UNCHANGED <<backlog, triggered, waiting, pes, inUse>>
        /\ UNCHANGED <<background, filled, used, packets, announced, time, missing, task>>
        /\ UNCHANGED <<pc, depth, arrived, cutOff, kinds, payload>>
    BY <1>9 DEF pipeVars, sinkVars, loopVars, feedVars, recordVars, muxVars, historyVars
  <2>2. Parts' = Parts
    BY <2>1 DEF Parts
  <2>3. PipeTypeOK'
    <3>1. SinkTypeOK'
      BY <2>1 DEF PipeInv, PipeTypeOK, SinkTypeOK
    <3> QED BY <2>1, <3>1 DEF PipeInv, PipeTypeOK
  <2>4. Begins' /\ OneCall' /\ InputFits' /\ AllDelivered'
    BY <2>1 DEF PipeInv, Begins, OneCall, InputFits, AllDelivered
  <2>5. FileBegun' /\ CutInTime' /\ SameFile' /\ FilesEndBetweenPes'
    BY <2>1, <2>2 DEF PipeInv, FileBegun, CutInTime, SameFile, FilesEndBetweenPes
  <2>6. StackInv'
    BY <2>1 DEF PipeInv, StackInv, Nested
  <2> QED BY <2>3, <2>4, <2>5, <2>6 DEF PipeInv
<1> QED BY <1>1, <1>2, <1>3, <1>4, <1>5, <1>6, <1>7, <1>8, <1>9 DEF PipeNext, LoopStep

LEMMA PipeInvariance == PipeSpec => []PipeInv
<1>1. PipeInit => PipeInv
  BY PipeInitInv
<1>2. PipeInv /\ [PipeNext]_pipeVars => PipeInv'
  BY PipeStepInv
<1> QED BY <1>1, <1>2, PTL DEF PipeSpec

\* What is posted runs in its order, so that a frame finds the handler's source,
\* and a file has no frame that came more than a second after its first: in any
\* order of frames, triggers and tasks, and for every size of the chain's
\* buffers and packets.
THEOREM ChainSound == PipeSpec => []Sound
<1>1. PipeInv => Sound
  BY DEF PipeInv, Sound, Begins, FramesFindSource
<1> QED BY <1>1, PipeInvariance, PTL

\* The callbacks that nest are those of one batch of packets and of the frames
\* that fill the buffers a batch takes, whatever the backlog: every Batch-th
\* packet goes through a task, which lets the stack unwind, and a buffer needs
\* PerBuffer packets.
THEOREM StackBoundedAlways == PipeSpec => []StackBounded
<1>1. PipeInv => StackBounded
  <2> SUFFICES ASSUME PipeInv PROVE StackBounded
    OBVIOUS
  <2> DEFINE k == LowWater - HeaderSize
             m == packets % Batch
             q == (Batch - 1) \div PerBuffer
  <2>1. PICK n \in Nat, c \in Nat, j \in Nat : Nested(n, c, j)
    BY DEF PipeInv, StackInv
  <2>2. /\ PipeTypeOK /\ depth <= 1 + m + n * k + c /\ c <= k /\ n * PerBuffer + j <= m
    BY <2>1 DEF PipeInv, Nested
  <2>3. /\ m \in Nat /\ m <= Batch - 1 /\ k \in Nat /\ PerBuffer \in Nat \ {0}
        /\ Batch \in Nat \ {0} /\ Batch - 1 \in Nat /\ depth \in Nat
    BY <2>2, PipeTypes, PerBufferIs, PipeConsts
  <2> HIDE DEF k, m, q
  <2>4. n <= q /\ q \in Nat
    <3>1. n * PerBuffer <= Batch - 1
      <4>1. n * PerBuffer \in Nat
        BY <2>3
      <4> QED BY <2>2, <2>3, <4>1
    <3> QED BY <2>3, <3>1, DivBound DEF q
  <2>5. n * k + k <= (1 + q) * k
    BY <2>3, <2>4, ProductGrows
  <2>6. depth <= Batch + (1 + q) * k
    <3>1. n * k \in Nat /\ (1 + q) * k \in Nat
      BY <2>3, <2>4
    <3>2. depth <= Batch + (n * k + k)
      BY <2>2, <2>3, <3>1
    <3> QED BY <2>3, <2>5, <3>1, <3>2
  <2> QED BY <2>6 DEF StackBounded, k, q
<1> QED BY <1>1, PipeInvariance, PTL

\* No file ends inside a PES packet: packets cut from one buffer go to the same
\* file, whether they go through a task or not, and also when the sink has no
\* room for them.
THEOREM FilesEndBetweenPesAlways == PipeSpec => []FilesEndBetweenPes
<1>1. PipeInv => FilesEndBetweenPes
  BY DEF PipeInv
<1> QED BY <1>1, PipeInvariance, PTL

\* Every byte of every frame is, once and in order, in the files, the sink's
\* buffer or on its way there: through the backlog, the record, the buffer it is
\* cut from, the packets and the task, for every size of frames, packets and
\* buffers.  Only what a frame has beyond maxInputESFrameSize can be missing.
THEOREM EveryByteOnceAlways == PipeSpec => []EveryByteOnce
<1>1. PipeInit => BytesInv
  BY BytesInit
<1>2. PipeInv /\ BytesInv /\ [PipeNext]_pipeVars => BytesInv'
  BY BytesStep
<1>3. BytesInv => EveryByteOnce
  BY DEF BytesInv
<1> QED BY <1>1, <1>2, <1>3, PipeInvariance, PTL DEF PipeSpec

===============================================================================
