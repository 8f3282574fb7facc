----------------------------- MODULE H264Source -----------------------------
(***************************************************************************)
(* simple_h264_framed_source: frames appended by the RTSP side are queued  *)
(* and delivered to whoever pulls them (live555's FramedSource protocol).  *)
(* append() queues a frame and raises the source's event trigger; the      *)
(* trigger's handler delivers if the reader is waiting, and so does a new  *)
(* request.  Delivering calls the reader back, and the reader usually asks *)
(* for the next frame from inside that call.  All of this runs on the      *)
(* event loop's thread.                                                    *)
(*                                                                         *)
(* A client of EventTriggers is here a source.  The reader is external:    *)
(* it asks only when it is not waiting already, and stops at any time.     *)
(***************************************************************************)
EXTENDS EventTriggers, Sequences, Functions

CONSTANTS
    Frames,        \* what can be appended
    Oversize,      \* the frames larger than the reader's buffer (fMaxSize)
    MaxFrames      \* bound: frames appended to the sources that exist

ASSUME OversizeAssumption == Oversize \subseteq Frames

VARIABLES
    buffers,       \* _buffers
    awaiting,      \* fIsCurrentlyAwaitingData
    truncated,     \* fNumTruncatedBytes is not zero
    inCallback,    \* the source whose reader is being called back, if any
    appended,      \* history: the frames appended
    delivered      \* history: the frames delivered

sourceVars == <<buffers, awaiting, truncated, inCallback, appended, delivered>>
vars == <<triggerVars, sourceVars>>

TypeOK ==
    /\ TriggerTypeOK
    /\ buffers \in [Clients -> Seq(Frames)]
    /\ awaiting \in [Clients -> BOOLEAN]
    /\ truncated \in [Clients -> BOOLEAN]
    /\ inCallback \in Clients \cup {NoClient}
    /\ appended \in [Clients -> Seq(Frames)]
    /\ delivered \in [Clients -> Seq(Frames)]

Init ==
    /\ TriggerInit
    /\ buffers = [s \in Clients |-> <<>>]
    /\ awaiting = [s \in Clients |-> FALSE]
    /\ truncated = [s \in Clients |-> FALSE]
    /\ inCallback = NoClient
    /\ appended = [s \in Clients |-> <<>>]
    /\ delivered = [s \in Clients |-> <<>>]

Fresh(s) ==
    /\ buffers' = [buffers EXCEPT ![s] = <<>>]
    /\ awaiting' = [awaiting EXCEPT ![s] = FALSE]
    /\ truncated' = [truncated EXCEPT ![s] = FALSE]
    /\ appended' = [appended EXCEPT ![s] = <<>>]
    /\ delivered' = [delivered EXCEPT ![s] = <<>>]
    /\ UNCHANGED inCallback

\* The constructor; an address may be used again after the destructor.
Create(s) ==
    /\ inCallback = NoClient
    /\ CreateTrigger(s)
    /\ Fresh(s)

\* The destructor: what is queued goes with the source.
Destroy(s) ==
    /\ inCallback = NoClient
    /\ DeleteTrigger(s)
    /\ Fresh(s)

NumAppended == FoldFunction(LAMBDA frames, n : Len(frames) + n, 0, appended)

\* append()
AppendFrame(s, f) ==
    /\ inCallback = NoClient
    /\ NumAppended < MaxFrames
    /\ buffers' = [buffers EXCEPT ![s] = Append(@, f)]
    /\ appended' = [appended EXCEPT ![s] = Append(@, f)]
    /\ TriggerEvent(s)
    /\ UNCHANGED <<awaiting, truncated, inCallback, delivered>>

\* Mutant: the newest frame is delivered.
DeliverNewest(s, wasCut) ==
    /\ delivered' = [delivered EXCEPT ![s] = Append(@, buffers[s][Len(buffers[s])])]
    /\ buffers' = [buffers EXCEPT ![s] = SubSeq(@, 1, Len(@) - 1)]
    /\ truncated' = [truncated EXCEPT ![s] = wasCut \/ Head(buffers[s]) \in Oversize]
    /\ awaiting' = [awaiting EXCEPT ![s] = FALSE]
    /\ inCallback' = s

\* The body of deliverFrame for a reader that waits and a queue that is not
\* empty.  fNumTruncatedBytes is assigned only when the frame is cut, so a
\* frame that fits leaves what was there (wasCut).
Deliver(s, wasCut) ==
    /\ delivered' = [delivered EXCEPT ![s] = Append(@, Head(buffers[s]))]
    /\ buffers' = [buffers EXCEPT ![s] = Tail(@)]
    /\ truncated' = [truncated EXCEPT ![s] = wasCut \/ Head(buffers[s]) \in Oversize]
    /\ awaiting' = [awaiting EXCEPT ![s] = FALSE]
    /\ inCallback' = s

\* Mutant: doGetNextFrame leaves the delivery to the event.
RequestWaitsForEvent(s) ==
    /\ s \in live
    /\ inCallback \in {NoClient, s}
    /\ ~awaiting[s]
    /\ awaiting' = [awaiting EXCEPT ![s] = TRUE]
    /\ truncated' = [truncated EXCEPT ![s] = FALSE]
    /\ inCallback' = NoClient
    /\ UNCHANGED <<buffers, delivered, appended, triggerVars>>

\* Mutant: getNextFrame does not reset fNumTruncatedBytes.
RequestKeepsTruncated(s) ==
    /\ s \in live
    /\ inCallback \in {NoClient, s}
    /\ ~awaiting[s]
    /\ \/ /\ buffers[s] # <<>>
          /\ Deliver(s, truncated[s])
       \/ /\ buffers[s] = <<>>
          /\ awaiting' = [awaiting EXCEPT ![s] = TRUE]
          /\ inCallback' = NoClient
          /\ UNCHANGED <<buffers, delivered, truncated>>
    /\ UNCHANGED <<appended, triggerVars>>

\* getNextFrame, from the event loop or from inside the reader's callback; with
\* nothing to deliver it returns, and the callback it came from ends.
Request(s) ==
    /\ s \in live
    /\ inCallback \in {NoClient, s}
    /\ ~awaiting[s]
    /\ \/ /\ buffers[s] # <<>>
          /\ Deliver(s, FALSE)
       \/ /\ buffers[s] = <<>>
          /\ awaiting' = [awaiting EXCEPT ![s] = TRUE]
          /\ truncated' = [truncated EXCEPT ![s] = FALSE]
          /\ inCallback' = NoClient
          /\ UNCHANGED <<buffers, delivered>>
    /\ UNCHANGED <<appended, triggerVars>>

\* The reader's callback returns without asking again.
Return(s) ==
    /\ inCallback = s
    /\ inCallback' = NoClient
    /\ UNCHANGED <<buffers, awaiting, truncated, appended, delivered, triggerVars>>

\* stopGettingFrames
Stop(s) ==
    /\ s \in live
    /\ inCallback \in {NoClient, s}
    /\ awaiting' = [awaiting EXCEPT ![s] = FALSE]
    /\ UNCHANGED <<buffers, truncated, inCallback, appended, delivered, triggerVars>>

\* The event loop handles the trigger: deliverFrame0 on its client data.
Wake(i) ==
    /\ inCallback = NoClient
    /\ HandleTrigger(i)
    /\ LET s == clientData[i] IN
        \/ /\ awaiting[s] /\ buffers[s] # <<>>
           /\ Deliver(s, truncated[s])
        \/ /\ ~awaiting[s] \/ buffers[s] = <<>>
           /\ UNCHANGED <<buffers, awaiting, truncated, inCallback, delivered>>
    /\ UNCHANGED appended

Next ==
    \/ \E s \in Clients : \/ Create(s) \/ Destroy(s)
                          \/ \E f \in Frames : AppendFrame(s, f)
                          \/ Request(s) \/ Return(s) \/ Stop(s)
    \/ \E i \in Ids : Wake(i)

Spec == Init /\ [][Next]_vars

\* Every step of the event loop handles a trigger if one awaits (which one is
\* the round robin's affair); callbacks return or ask again.
LoopFairness ==
    /\ SF_vars(\E i \in Ids : Wake(i))
    /\ \A s \in Clients : WF_vars(Return(s) \/ (inCallback = s /\ Request(s)))

FairSpec == Spec /\ LoopFairness

\* In addition a reader that is not waiting asks again sooner or later.
ReaderSpec == FairSpec /\ \A s \in Clients : SF_vars(Request(s))

-----------------------------------------------------------------------------
\* No wakeup is lost: a source with a frame for a reader that waits has its
\* event pending, with itself as the client, unless it never got an id.
NoLostWakeup ==
    \A s \in live : awaiting[s] /\ buffers[s] # <<>> /\ trig[s] # NoId =>
        trig[s] \in pending /\ clientData[trig[s]] = s

\* Frames are delivered in the order in which they were appended; those not
\* delivered are still queued.
InOrder == \A s \in live : delivered[s] \o buffers[s] = appended[s]

\* What the reader is told of truncation is about the frame it got: a count
\* left by an earlier frame never reaches it.
TruncationReported ==
    inCallback # NoClient =>
        LET got == delivered[inCallback] IN
            truncated[inCallback] <=> got[Len(got)] \in Oversize

\* As long as the reader keeps asking, the queue of a source that got an id
\* drains: nothing stays in it for ever.
Drains ==
    \A s \in Clients :
        (s \in live /\ trig[s] # NoId /\ buffers[s] # <<>>)
            ~> (buffers[s] = <<>>)
=============================================================================
